--------------------------- MODULE MCFileAttributes ---------------------------
(* Instances of FileAttributes for TLC.                                    *)
EXTENDS FileAttributes

CONSTANTS t1, t2, p0, p1, g0, g1

OneThread == {t1}
TwoThreads == {t1, t2}
TwoProjects == {p0, p1}
OneProject == {p0}
TwoGenerations == {g0, g1}
OneGeneration == {g0}

Plain == [dir |-> FALSE, project |-> FALSE, quota |-> FALSE, oldInodes |-> FALSE,
          casefold |-> FALSE, csum |-> TRUE, building |-> FALSE,
          quotaFile |-> FALSE]
PlainFile == {Plain}
FlagMounts == {Plain, [Plain EXCEPT !.building = TRUE],
               [Plain EXCEPT !.quotaFile = TRUE, !.csum = FALSE],
               [Plain EXCEPT !.dir = TRUE, !.casefold = TRUE]}
Directory == [Plain EXCEPT !.dir = TRUE, !.project = TRUE]
ProjectMounts == {[Plain EXCEPT !.csum = FALSE], Directory,
                  [Directory EXCEPT !.oldInodes = TRUE],
                  [Directory EXCEPT !.quota = TRUE]}

DaxFlags == {"IMMUTABLE", "JOURNAL_DATA", "EXTENTS", "DAX", "CASEFOLD"}
DaxJournal == {"JOURNAL_DATA", "DAX"}
JustImmutable == {"IMMUTABLE"}
AnyFault == FaultKinds
NoAbort == FaultKinds \ {"abort"}
NoFault == {}
=============================================================================
