--------------------------- MODULE Configuration ----------------------------
(***************************************************************************)
(* interfaces/config/driver.py, utils/dicts.py: a configuration file names *)
(* the files it extends; all of them are merged into one dictionary, and   *)
(* web/tasks.py merges what was entered into a form, which may name files  *)
(* to extend as well, on top of it.                                        *)
(*                                                                         *)
(* A value is a dictionary, [key |-> value], or a leaf, [leaf |-> v], which *)
(* stands for everything else; lists are leaves.  Extends is the key of    *)
(* the names of files, the only one that is skipped ("$...").  A file      *)
(* extends none that extends it: extend would not come back.  What a file  *)
(* or a form extends is a list here; extend takes a single name as well    *)
(* (driver.py:198), but merge_config_before does not (tasks.py:191): it    *)
(* raises TypeError when the file's is one and the form names files, and   *)
(* appends the characters of the form's when that is one.                  *)
(***************************************************************************)
EXTENDS Sequences, SequencesExt

Extends == "$extends"

Leaf(v) == [leaf |-> v]
IsDict(value) == "leaf" \notin DOMAIN value

Skipped(key) == key = Extends

RECURSIVE merge(_, _)
merge(dst, src) ==
    IF ~(IsDict(dst) /\ IsDict(src))
      THEN src
      ELSE LET New == {key \in DOMAIN src : ~Skipped(key)}
           IN  [key \in DOMAIN dst \cup New |->
                  IF key \notin New THEN dst[key]
                  ELSE IF key \notin DOMAIN dst THEN src[key]
                  ELSE merge(dst[key], src[key])]

\* What a file says, and the files it extends, in the order it names them.
Bases(config) == IF Extends \in DOMAIN config THEN config[Extends].leaf ELSE << >>

\* Mutant: the files are taken in the order they are named.
InOrder(bases) == Reverse(bases)

\* The order in which they are merged, the last first: FoldRight begins there.
Merged(bases) == bases

RECURSIVE extend(_, _)
extend(files, config) ==
    FoldRight(LAMBDA base, above : merge(extend(files, files[base]), above),
              Merged(Bases(config)), config)

\* merge_config_before: the form's files come after the configuration's own.
BeforeExtend(config, form) ==
    IF Bases(form) = << >> THEN config
    ELSE [key \in DOMAIN config \cup {Extends} |->
            IF key = Extends THEN Leaf(Bases(config) \o Bases(form)) ELSE config[key]]

\* ConfigLoader.load, with merge_config_before and merge_config_after.
load(files, main, form) ==
    merge(extend(files, BeforeExtend(files[main], form)), form)
=============================================================================
