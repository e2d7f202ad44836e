------------------------------- MODULE CellText -------------------------------
(***************************************************************************)
(* What the import reads off the text of a cell, a value or a header.      *)
(***************************************************************************)
EXTENDS FiniteSets

CONSTANTS Texts,          \* the values of cells, trimmed
          Blank,          \* an empty cell, or a field that is not there
          Shortened(_),   \* truncateCell: cut off at maxCellLength
          Lower(_),       \* normalizeKey: toLowerCase
          Upper(_),       \* toUpperCase
          Underscored(_), \* with _ for -
          Spaced(_),      \* normalizeDn: without spaces around commas
          UserPart(_),    \* normalizeUsername: without domain and realm
          Parts(_),       \* the parts of a list of references, split at ; , |
          Conforms(_, _), \* the pattern of a field has this value
          Alias(_)        \* header -> the field with this name or alias, or Blank

\* Only an empty cell is empty in lower case or when it is cut; a username that is all realm has no user part;
\* what is split into parts is split into finitely many, an empty cell into none.
ASSUME TextAssumption ==
    /\ Blank \in Texts
    /\ \A v \in Texts : /\ {Shortened(v), Lower(v), Upper(v), Underscored(v), Spaced(v)} \subseteq Texts
                        /\ Shortened(v) = Blank <=> v = Blank
                        /\ Lower(v) = Blank <=> v = Blank
                        /\ IsFiniteSet(Parts(v))
    /\ Parts(Blank) = {}
    /\ \A v, w \in Texts : Lower(v) = Lower(w) => UserPart(v) = UserPart(w)
==============================================================================
