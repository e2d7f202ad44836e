----------------------------- MODULE MCConnectors -----------------------------
(* Three groups of instances.  A directory of each kind is read while it changes,  *)
(* with writes that land at once; Entra ID has more time, for its watermark; and a *)
(* connector whose directory is empty is administered while its writes are late,   *)
(* fail, or are cut off by a restart.                                              *)
EXTENDS Connectors, TLC

Body(mode, limit, persist, scan) == [mode |-> mode, limit |-> limit, persist |-> persist, scan |-> scan]
Full    == Body("FULL", 1, TRUE, FALSE)
Newest  == Body("INCREMENTAL", 1, TRUE, TRUE)
Shown   == Body("PREVIEW", 1, FALSE, FALSE)
Partial == Body("PREVIEW", 2, TRUE, FALSE)

Quick(k, p, start) ==
    [kind |-> k, plain |-> p, there |-> start, time |-> 1, changes |-> 1, bodies |-> {Full, Newest, Partial},
     administered |-> FALSE,
     late |-> 0, errors |-> 0, restarts |-> 0]

Mapping == {Quick(k, p, s) : k \in Kinds, p \in BOOLEAN, s \in {Objects, {User, Device}}}
Watermark == {[Quick("ENTRA_ID", TRUE, s) EXCEPT !.time = 3, !.changes = 2, !.bodies = {Full, Newest, Shown, Partial}]
                 : s \in {Objects, {User}}}
Administration == {[Quick("LINUX_SSH", TRUE, {}) EXCEPT !.changes = 0, !.bodies = {Full}, !.late = 3, !.errors = 1, !.administered = TRUE,
                                                        !.restarts = 1]}
MCInstances == Mapping \cup Watermark \cup Administration
Symmetry == Permutations(Requests)
=============================================================================
