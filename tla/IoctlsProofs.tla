------------------------------- MODULE IoctlsProofs -------------------------------
(***************************************************************************)
(* Proofs about Ioctls, for every number of threads and every choice of    *)
(* the calls they make.  First what each handler holds at each of its rows *)
(* and in which order it does what matters; from that, one invariant per   *)
(* property: every exit gives everything back, a frozen or shut down file  *)
(* system has nothing left to write, success is durable, and a resize is   *)
(* complete.                                                               *)
(***************************************************************************)
EXTENDS Ioctls, TLAPS

-----------------------------------------------------------------------------
(* The handlers, row by row                                                *)

(* Where the exit of row k leads.                                          *)
AfterRow(c, k) ==
  IF Handler[c][k][2] = "go" THEN k + 1
  ELSE IF Handler[c][k][2] = "ret" THEN Len(Handler[c]) + 1
  ELSE Min({j \in k + 1 .. Len(Handler[c]) : Handler[c][j][1] = Handler[c][k][2]})

(* The positions at which a call holds the flag, write access to the mount *)
(* and so on: from the row after the one that takes it to the row that     *)
(* gives it back.                                                          *)
FlagAt(c) ==
  CASE c = "GROUP_EXTEND" -> 2 .. 9
    [] c = "GROUP_ADD"    -> 3 .. 11
    [] c = "RESIZE_FS"    -> (3 .. 11) \cup (14 .. 15)
    [] c = "SETFSLABEL"   -> 4 .. 5
    [] OTHER              -> {}
WriteAt(c) ==
  CASE c = "GROUP_EXTEND"  -> 4 .. 8
    [] c = "GROUP_ADD"     -> 5 .. 9
    [] c = "RESIZE_FS"     -> 4 .. 9
    [] c = "SETFSLABEL"    -> 3 .. 6
    [] c = "MOVE_EXT"      -> 5 .. 7
    [] c = "MIGRATE"       -> 3 .. 7
    [] c = "ALLOC_DA_BLKS" -> 3 .. 4
    [] OTHER               -> {}
BarrierAt(c) ==
  CASE c = "GROUP_EXTEND" -> 6 .. 7
    [] c = "GROUP_ADD"    -> 7 .. 8
    [] c = "RESIZE_FS"    -> 7 .. 8
    [] c = "CHECKPOINT"   -> 3 .. 4
    [] OTHER              -> {}
LockAt(c)  == IF c = "MIGRATE" THEN 4 .. 6 ELSE {}
DonorAt(c) == IF c = "MOVE_EXT" THEN 3 .. 9 ELSE {}
FrozenAt(c) == IF c = "SHUTDOWN_DEFAULT" THEN 4 .. 6 ELSE {}

(* Between take and give, and nowhere else, a position is in S.            *)
Across(S, takes, gives, c, k) ==
  LET s == Handler[c][k][1]
  IN  /\ s = takes => /\ k \notin S /\ k + 1 \in S
                      /\ Handler[c][k][2] # "go" => AfterRow(c, k) \notin S
      /\ s = gives => k \in S /\ k + 1 \notin S
      /\ s \notin {takes, gives} =>
           (k \in S <=> k + 1 \in S) /\ (k \in S <=> AfterRow(c, k) \in S)

Row(c, k) ==
  /\ AfterRow(c, k) \in k + 1 .. Len(Handler[c]) + 1
  /\ Handler[c][k][1] \in {"begin", "want", "fdget"} => Handler[c][k][2] # "go"
  /\ Across(FlagAt(c), "begin", "end", c, k)
  /\ Across(WriteAt(c), "want", "drop", c, k)
  /\ Across(BarrierAt(c), "barrier", "unbarrier", c, k)
  /\ Across(LockAt(c), "lock", "unlock", c, k)
  /\ Across(DonorAt(c), "fdget", "fdput", c, k)
  /\ Handler[c][k][1] # "drain" => Across(FrozenAt(c), "freeze", "thaw", c, k)
  /\ Handler[c][k][1] = "drain" =>
       k \in FrozenAt(c) /\ k + 1 \in FrozenAt(c) /\ AfterRow(c, k) \notin FrozenAt(c)

(* Where the shutdowns set EXT4_FLAGS_SHUTDOWN, and where the calls that   *)
(* flush the journal do; 0 for the others.                                 *)
Shutdowns == {"SHUTDOWN_DEFAULT", "SHUTDOWN_LOGFLUSH", "SHUTDOWN_NOLOGFLUSH"}
SetAt(c) == IF c = "SHUTDOWN_DEFAULT" THEN 5 ELSE IF c \in Shutdowns THEN 3 ELSE 0
FlushAt(c) ==
  CASE c = "GROUP_EXTEND" -> 6
    [] c \in {"GROUP_ADD", "RESIZE_FS"} -> 7
    [] c = "CHECKPOINT" -> 3
    [] OTHER -> 0
Resizes == {"GROUP_ADD", "RESIZE_FS"}

(* In which order the calls do what the invariants are about.              *)
Order(c, k) ==
  LET s == Handler[c][k][1]
  IN  /\ s = "drain" => c = "SHUTDOWN_DEFAULT" /\ k = 4
      /\ s = "setflag" => k = SetAt(c)
      /\ s = "commit" => c = "SHUTDOWN_LOGFLUSH" /\ k = 4
      /\ s = "abort" <=> \/ c = "SHUTDOWN_LOGFLUSH" /\ k = 5
                         \/ c = "SHUTDOWN_NOLOGFLUSH" /\ k = 4
      /\ s = "alive" => c \in Shutdowns
      /\ c \in Shutdowns => /\ s \notin Work
                            /\ k >= SetAt(c) => Handler[c][k][2] = "go"
                            /\ k = Len(Handler[c]) => s = "nodiscard"
      /\ c = "SHUTDOWN_LOGFLUSH" /\ k = 4 => s = "commit"
      /\ FlushAt(c) # 0 =>
           /\ k < FlushAt(c) => s \notin {"writable", "alive"}
           /\ k = FlushAt(c) => s = "flush"
           /\ k > FlushAt(c) => s \notin {"work", "grow"}
      /\ s = "grow" => c \in Resizes /\ 3 < k /\ k < 10 /\ (c = "GROUP_ADD" => k = 5)
      /\ c \in Resizes => /\ k < 10 /\ s = "begin" => Handler[c][k][2] = "ret" /\ k < 4
                          /\ k < 10 => s # "writable"
                          /\ k = 10 <=> s = "lazy"
      /\ s \in {"writable", "overhead"} => c = "RESIZE_FS"
      /\ c = "RESIZE_FS" =>
           /\ k \in {11, 15} => s = "end"
           /\ k = 12 => s = "writable"
           /\ k = 13 => s = "begin"
           /\ k = 14 => s = "overhead"
           /\ s = "overhead" => k = 14

(* All of a handler: nothing is held before its first row nor after its    *)
(* last one.                                                               *)
Held(c) == FlagAt(c) \cup WriteAt(c) \cup BarrierAt(c) \cup LockAt(c)
             \cup DonorAt(c) \cup FrozenAt(c)
Sound(c) ==
  /\ Len(Handler[c]) \in Nat \ {0}
  /\ \A k \in 1 .. Len(Handler[c]) : Row(c, k) /\ Order(c, k)
  /\ Held(c) \subseteq 2 .. Len(Handler[c])

LEMMA Least ==
  ASSUME NEW S \in SUBSET Nat, NEW m \in S, \A x \in S : m =< x
  PROVE  Min(S) = m
<1>1. \A x \in S : (\A y \in S : x =< y) => x = m
  OBVIOUS
<1> QED BY <1>1 DEF Min

LEMMA GroupExtendRows ==
  LET h == Handler["GROUP_EXTEND"]
  IN  /\ Len(h) = 9
      /\ h[1] = <<"begin", "ret">> /\ h[2] = <<"check", "end">>
      /\ h[3] = <<"want", "end">> /\ h[4] = <<"work", "go">>
      /\ h[5] = <<"barrier", "go">> /\ h[6] = <<"flush", "go">>
      /\ h[7] = <<"unbarrier", "go">> /\ h[8] = <<"drop", "go">>
      /\ h[9] = <<"end", "go">>
BY DEF Handler, GroupExtend, FlushJournal

LEMMA GroupExtendSound == Sound("GROUP_EXTEND")
<1> DEFINE c == "GROUP_EXTEND"
<1>1. AfterRow(c, 2) = 9
  <2>1. {j \in 2 + 1 .. Len(Handler[c]) : Handler[c][j][1] = Handler[c][2][2]} = {9}
    BY GroupExtendRows
  <2>2. Min({9}) = 9
    BY Least
  <2> QED BY <2>1, <2>2, GroupExtendRows DEF AfterRow
<1>2. AfterRow(c, 3) = 9
  <2>1. {j \in 3 + 1 .. Len(Handler[c]) : Handler[c][j][1] = Handler[c][3][2]} = {9}
    BY GroupExtendRows
  <2>2. Min({9}) = 9
    BY Least
  <2> QED BY <2>1, <2>2, GroupExtendRows DEF AfterRow
<1>3. \A k \in 1 .. 9 : Row(c, k)
  <2>1. Row(c, 1)
    BY GroupExtendRows DEF Row, Across, FlagAt, WriteAt, BarrierAt,
       LockAt, DonorAt, FrozenAt, AfterRow
  <2>2. Row(c, 2)
    BY <1>1, GroupExtendRows DEF Row, Across, FlagAt, WriteAt, BarrierAt,
       LockAt, DonorAt, FrozenAt
  <2>3. Row(c, 3)
    BY <1>2, GroupExtendRows DEF Row, Across, FlagAt, WriteAt, BarrierAt,
       LockAt, DonorAt, FrozenAt
  <2>4. Row(c, 4)
    BY GroupExtendRows DEF Row, Across, FlagAt, WriteAt, BarrierAt,
       LockAt, DonorAt, FrozenAt, AfterRow
  <2>5. Row(c, 5)
    BY GroupExtendRows DEF Row, Across, FlagAt, WriteAt, BarrierAt,
       LockAt, DonorAt, FrozenAt, AfterRow
  <2>6. Row(c, 6)
    BY GroupExtendRows DEF Row, Across, FlagAt, WriteAt, BarrierAt,
       LockAt, DonorAt, FrozenAt, AfterRow
  <2>7. Row(c, 7)
    BY GroupExtendRows DEF Row, Across, FlagAt, WriteAt, BarrierAt,
       LockAt, DonorAt, FrozenAt, AfterRow
  <2>8. Row(c, 8)
    BY GroupExtendRows DEF Row, Across, FlagAt, WriteAt, BarrierAt,
       LockAt, DonorAt, FrozenAt, AfterRow
  <2>9. Row(c, 9)
    BY GroupExtendRows DEF Row, Across, FlagAt, WriteAt, BarrierAt,
       LockAt, DonorAt, FrozenAt, AfterRow
  <2> QED BY <2>1, <2>2, <2>3, <2>4, <2>5, <2>6, <2>7, <2>8, <2>9
<1>4. \A k \in 1 .. 9 : Order(c, k)
  BY GroupExtendRows DEF Order, SetAt, FlushAt, Shutdowns, Resizes, Work
<1> QED BY <1>3, <1>4, GroupExtendRows DEF Sound, Held, FlagAt, WriteAt, BarrierAt,
        LockAt, DonorAt, FrozenAt

LEMMA GroupAddRows ==
  LET h == Handler["GROUP_ADD"]
  IN  /\ Len(h) = 11
      /\ h[1] = <<"check", "ret">> /\ h[2] = <<"begin", "ret">>
      /\ h[3] = <<"check", "end">> /\ h[4] = <<"want", "end">>
      /\ h[5] = <<"grow", "go">> /\ h[6] = <<"barrier", "go">>
      /\ h[7] = <<"flush", "go">> /\ h[8] = <<"unbarrier", "go">>
      /\ h[9] = <<"drop", "go">> /\ h[10] = <<"lazy", "go">>
      /\ h[11] = <<"end", "go">>
BY DEF Handler, GroupAdd, FlushJournal

LEMMA GroupAddSound == Sound("GROUP_ADD")
<1> DEFINE c == "GROUP_ADD"
<1>1. AfterRow(c, 3) = 11
  <2>1. {j \in 3 + 1 .. Len(Handler[c]) : Handler[c][j][1] = Handler[c][3][2]} = {11}
    BY GroupAddRows
  <2>2. Min({11}) = 11
    BY Least
  <2> QED BY <2>1, <2>2, GroupAddRows DEF AfterRow
<1>2. AfterRow(c, 4) = 11
  <2>1. {j \in 4 + 1 .. Len(Handler[c]) : Handler[c][j][1] = Handler[c][4][2]} = {11}
    BY GroupAddRows
  <2>2. Min({11}) = 11
    BY Least
  <2> QED BY <2>1, <2>2, GroupAddRows DEF AfterRow
<1>3. \A k \in 1 .. 11 : Row(c, k)
  <2>1. Row(c, 1)
    BY GroupAddRows DEF Row, Across, FlagAt, WriteAt, BarrierAt,
       LockAt, DonorAt, FrozenAt, AfterRow
  <2>2. Row(c, 2)
    BY GroupAddRows DEF Row, Across, FlagAt, WriteAt, BarrierAt,
       LockAt, DonorAt, FrozenAt, AfterRow
  <2>3. Row(c, 3)
    BY <1>1, GroupAddRows DEF Row, Across, FlagAt, WriteAt, BarrierAt,
       LockAt, DonorAt, FrozenAt
  <2>4. Row(c, 4)
    BY <1>2, GroupAddRows DEF Row, Across, FlagAt, WriteAt, BarrierAt,
       LockAt, DonorAt, FrozenAt
  <2>5. Row(c, 5)
    BY GroupAddRows DEF Row, Across, FlagAt, WriteAt, BarrierAt,
       LockAt, DonorAt, FrozenAt, AfterRow
  <2>6. Row(c, 6)
    BY GroupAddRows DEF Row, Across, FlagAt, WriteAt, BarrierAt,
       LockAt, DonorAt, FrozenAt, AfterRow
  <2>7. Row(c, 7)
    BY GroupAddRows DEF Row, Across, FlagAt, WriteAt, BarrierAt,
       LockAt, DonorAt, FrozenAt, AfterRow
  <2>8. Row(c, 8)
    BY GroupAddRows DEF Row, Across, FlagAt, WriteAt, BarrierAt,
       LockAt, DonorAt, FrozenAt, AfterRow
  <2>9. Row(c, 9)
    BY GroupAddRows DEF Row, Across, FlagAt, WriteAt, BarrierAt,
       LockAt, DonorAt, FrozenAt, AfterRow
  <2>10. Row(c, 10)
    BY GroupAddRows DEF Row, Across, FlagAt, WriteAt, BarrierAt,
       LockAt, DonorAt, FrozenAt, AfterRow
  <2>11. Row(c, 11)
    BY GroupAddRows DEF Row, Across, FlagAt, WriteAt, BarrierAt,
       LockAt, DonorAt, FrozenAt, AfterRow
  <2> QED BY <2>1, <2>2, <2>3, <2>4, <2>5, <2>6, <2>7, <2>8, <2>9, <2>10, <2>11
<1>4. \A k \in 1 .. 11 : Order(c, k)
  BY GroupAddRows DEF Order, SetAt, FlushAt, Shutdowns, Resizes, Work
<1> QED BY <1>3, <1>4, GroupAddRows DEF Sound, Held, FlagAt, WriteAt, BarrierAt,
        LockAt, DonorAt, FrozenAt

LEMMA ResizeFsRows ==
  LET h == Handler["RESIZE_FS"]
  IN  /\ Len(h) = 15
      /\ h[1] = <<"check", "ret">> /\ h[2] = <<"begin", "ret">>
      /\ h[3] = <<"want", "end">> /\ h[4] = <<"grow", "go">>
      /\ h[5] = <<"grow", "go">> /\ h[6] = <<"barrier", "go">>
      /\ h[7] = <<"flush", "go">> /\ h[8] = <<"unbarrier", "go">>
      /\ h[9] = <<"drop", "go">> /\ h[10] = <<"lazy", "go">>
      /\ h[11] = <<"end", "go">> /\ h[12] = <<"writable", "ret">>
      /\ h[13] = <<"begin", "ret">> /\ h[14] = <<"overhead", "go">>
      /\ h[15] = <<"end", "go">>
BY DEF Handler, ResizeFs, ResizeFsExit, FlushJournal, UpdateOverhead

LEMMA ResizeFsSound == Sound("RESIZE_FS")
<1> DEFINE c == "RESIZE_FS"
<1>1. AfterRow(c, 3) = 11
  <2>1. {j \in 3 + 1 .. Len(Handler[c]) : Handler[c][j][1] = Handler[c][3][2]} = {11, 15}
    BY ResizeFsRows
  <2>2. Min({11, 15}) = 11
    BY Least
  <2>3. AfterRow(c, 3) =
          Min({j \in 3 + 1 .. Len(Handler[c]) : Handler[c][j][1] = Handler[c][3][2]})
    <3>1. Handler[c][3][2] \notin {"go", "ret"}
      BY ResizeFsRows
    <3> QED BY <3>1 DEF AfterRow
  <2> QED BY <2>1, <2>2, <2>3
<1>2. \A k \in 1 .. 15 : Row(c, k)
  <2>1. Row(c, 1)
    BY ResizeFsRows DEF Row, Across, FlagAt, WriteAt, BarrierAt,
       LockAt, DonorAt, FrozenAt, AfterRow
  <2>2. Row(c, 2)
    BY ResizeFsRows DEF Row, Across, FlagAt, WriteAt, BarrierAt,
       LockAt, DonorAt, FrozenAt, AfterRow
  <2>3. Row(c, 3)
    BY <1>1, ResizeFsRows DEF Row, Across, FlagAt, WriteAt, BarrierAt,
       LockAt, DonorAt, FrozenAt
  <2>4. Row(c, 4)
    BY ResizeFsRows DEF Row, Across, FlagAt, WriteAt, BarrierAt,
       LockAt, DonorAt, FrozenAt, AfterRow
  <2>5. Row(c, 5)
    BY ResizeFsRows DEF Row, Across, FlagAt, WriteAt, BarrierAt,
       LockAt, DonorAt, FrozenAt, AfterRow
  <2>6. Row(c, 6)
    BY ResizeFsRows DEF Row, Across, FlagAt, WriteAt, BarrierAt,
       LockAt, DonorAt, FrozenAt, AfterRow
  <2>7. Row(c, 7)
    BY ResizeFsRows DEF Row, Across, FlagAt, WriteAt, BarrierAt,
       LockAt, DonorAt, FrozenAt, AfterRow
  <2>8. Row(c, 8)
    BY ResizeFsRows DEF Row, Across, FlagAt, WriteAt, BarrierAt,
       LockAt, DonorAt, FrozenAt, AfterRow
  <2>9. Row(c, 9)
    BY ResizeFsRows DEF Row, Across, FlagAt, WriteAt, BarrierAt,
       LockAt, DonorAt, FrozenAt, AfterRow
  <2>10. Row(c, 10)
    BY ResizeFsRows DEF Row, Across, FlagAt, WriteAt, BarrierAt,
       LockAt, DonorAt, FrozenAt, AfterRow
  <2>11. Row(c, 11)
    BY ResizeFsRows DEF Row, Across, FlagAt, WriteAt, BarrierAt,
       LockAt, DonorAt, FrozenAt, AfterRow
  <2>12. Row(c, 12)
    BY ResizeFsRows DEF Row, Across, FlagAt, WriteAt, BarrierAt,
       LockAt, DonorAt, FrozenAt, AfterRow
  <2>13. Row(c, 13)
    BY ResizeFsRows DEF Row, Across, FlagAt, WriteAt, BarrierAt,
       LockAt, DonorAt, FrozenAt, AfterRow
  <2>14. Row(c, 14)
    BY ResizeFsRows DEF Row, Across, FlagAt, WriteAt, BarrierAt,
       LockAt, DonorAt, FrozenAt, AfterRow
  <2>15. Row(c, 15)
    BY ResizeFsRows DEF Row, Across, FlagAt, WriteAt, BarrierAt,
       LockAt, DonorAt, FrozenAt, AfterRow
  <2> QED BY <2>1, <2>2, <2>3, <2>4, <2>5, <2>6, <2>7, <2>8, <2>9, <2>10, <2>11, <2>12,
             <2>13, <2>14, <2>15
<1>3. \A k \in 1 .. 15 : Order(c, k)
  BY ResizeFsRows DEF Order, SetAt, FlushAt, Shutdowns, Resizes, Work
<1> QED BY <1>2, <1>3, ResizeFsRows DEF Sound, Held, FlagAt, WriteAt, BarrierAt,
        LockAt, DonorAt, FrozenAt

LEMMA SetLabelRows ==
  LET h == Handler["SETFSLABEL"]
  IN  /\ Len(h) = 6
      /\ h[1] = <<"check", "ret">> /\ h[2] = <<"want", "ret">>
      /\ h[3] = <<"begin", "drop">> /\ h[4] = <<"work", "go">>
      /\ h[5] = <<"end", "go">> /\ h[6] = <<"drop", "go">>
BY DEF Handler, SetLabel

LEMMA SetLabelSound == Sound("SETFSLABEL")
<1> DEFINE c == "SETFSLABEL"
<1>1. AfterRow(c, 3) = 6
  <2>1. {j \in 3 + 1 .. Len(Handler[c]) : Handler[c][j][1] = Handler[c][3][2]} = {6}
    BY SetLabelRows
  <2>2. Min({6}) = 6
    BY Least
  <2> QED BY <2>1, <2>2, SetLabelRows DEF AfterRow
<1>2. \A k \in 1 .. 6 : Row(c, k)
  <2>1. Row(c, 1)
    BY SetLabelRows DEF Row, Across, FlagAt, WriteAt, BarrierAt,
       LockAt, DonorAt, FrozenAt, AfterRow
  <2>2. Row(c, 2)
    BY SetLabelRows DEF Row, Across, FlagAt, WriteAt, BarrierAt,
       LockAt, DonorAt, FrozenAt, AfterRow
  <2>3. Row(c, 3)
    BY <1>1, SetLabelRows DEF Row, Across, FlagAt, WriteAt, BarrierAt,
       LockAt, DonorAt, FrozenAt
  <2>4. Row(c, 4)
    BY SetLabelRows DEF Row, Across, FlagAt, WriteAt, BarrierAt,
       LockAt, DonorAt, FrozenAt, AfterRow
  <2>5. Row(c, 5)
    BY SetLabelRows DEF Row, Across, FlagAt, WriteAt, BarrierAt,
       LockAt, DonorAt, FrozenAt, AfterRow
  <2>6. Row(c, 6)
    BY SetLabelRows DEF Row, Across, FlagAt, WriteAt, BarrierAt,
       LockAt, DonorAt, FrozenAt, AfterRow
  <2> QED BY <2>1, <2>2, <2>3, <2>4, <2>5, <2>6
<1>3. \A k \in 1 .. 6 : Order(c, k)
  BY SetLabelRows DEF Order, SetAt, FlushAt, Shutdowns, Resizes, Work
<1> QED BY <1>2, <1>3, SetLabelRows DEF Sound, Held, FlagAt, WriteAt, BarrierAt,
        LockAt, DonorAt, FrozenAt

LEMMA MoveExtRows ==
  LET h == Handler["MOVE_EXT"]
  IN  /\ Len(h) = 9
      /\ h[1] = <<"check", "ret">> /\ h[2] = <<"fdget", "ret">>
      /\ h[3] = <<"check", "fdput">> /\ h[4] = <<"want", "fdput">>
      /\ h[5] = <<"work", "go">> /\ h[6] = <<"work", "go">>
      /\ h[7] = <<"drop", "go">> /\ h[8] = <<"check", "go">>
      /\ h[9] = <<"fdput", "go">>
BY DEF Handler, MoveExt

LEMMA MoveExtSound == Sound("MOVE_EXT")
<1> DEFINE c == "MOVE_EXT"
<1>1. AfterRow(c, 3) = 9
  <2>1. {j \in 3 + 1 .. Len(Handler[c]) : Handler[c][j][1] = Handler[c][3][2]} = {9}
    BY MoveExtRows
  <2>2. Min({9}) = 9
    BY Least
  <2> QED BY <2>1, <2>2, MoveExtRows DEF AfterRow
<1>2. AfterRow(c, 4) = 9
  <2>1. {j \in 4 + 1 .. Len(Handler[c]) : Handler[c][j][1] = Handler[c][4][2]} = {9}
    BY MoveExtRows
  <2>2. Min({9}) = 9
    BY Least
  <2> QED BY <2>1, <2>2, MoveExtRows DEF AfterRow
<1>3. \A k \in 1 .. 9 : Row(c, k)
  <2>1. Row(c, 1)
    BY MoveExtRows DEF Row, Across, FlagAt, WriteAt, BarrierAt,
       LockAt, DonorAt, FrozenAt, AfterRow
  <2>2. Row(c, 2)
    BY MoveExtRows DEF Row, Across, FlagAt, WriteAt, BarrierAt,
       LockAt, DonorAt, FrozenAt, AfterRow
  <2>3. Row(c, 3)
    BY <1>1, MoveExtRows DEF Row, Across, FlagAt, WriteAt, BarrierAt,
       LockAt, DonorAt, FrozenAt
  <2>4. Row(c, 4)
    BY <1>2, MoveExtRows DEF Row, Across, FlagAt, WriteAt, BarrierAt,
       LockAt, DonorAt, FrozenAt
  <2>5. Row(c, 5)
    BY MoveExtRows DEF Row, Across, FlagAt, WriteAt, BarrierAt,
       LockAt, DonorAt, FrozenAt, AfterRow
  <2>6. Row(c, 6)
    BY MoveExtRows DEF Row, Across, FlagAt, WriteAt, BarrierAt,
       LockAt, DonorAt, FrozenAt, AfterRow
  <2>7. Row(c, 7)
    BY MoveExtRows DEF Row, Across, FlagAt, WriteAt, BarrierAt,
       LockAt, DonorAt, FrozenAt, AfterRow
  <2>8. Row(c, 8)
    BY MoveExtRows DEF Row, Across, FlagAt, WriteAt, BarrierAt,
       LockAt, DonorAt, FrozenAt, AfterRow
  <2>9. Row(c, 9)
    BY MoveExtRows DEF Row, Across, FlagAt, WriteAt, BarrierAt,
       LockAt, DonorAt, FrozenAt, AfterRow
  <2> QED BY <2>1, <2>2, <2>3, <2>4, <2>5, <2>6, <2>7, <2>8, <2>9
<1>4. \A k \in 1 .. 9 : Order(c, k)
  BY MoveExtRows DEF Order, SetAt, FlushAt, Shutdowns, Resizes, Work
<1> QED BY <1>3, <1>4, MoveExtRows DEF Sound, Held, FlagAt, WriteAt, BarrierAt,
        LockAt, DonorAt, FrozenAt

LEMMA MigrateRows ==
  LET h == Handler["MIGRATE"]
  IN  /\ Len(h) = 7
      /\ h[1] = <<"check", "ret">> /\ h[2] = <<"want", "ret">>
      /\ h[3] = <<"lock", "go">> /\ h[4] = <<"work", "go">>
      /\ h[5] = <<"work", "go">> /\ h[6] = <<"unlock", "go">>
      /\ h[7] = <<"drop", "go">>
BY DEF Handler, Migrate

LEMMA MigrateSound == Sound("MIGRATE")
<1> DEFINE c == "MIGRATE"
<1>1. \A k \in 1 .. 7 : Row(c, k)
  <2>1. Row(c, 1)
    BY MigrateRows DEF Row, Across, FlagAt, WriteAt, BarrierAt,
       LockAt, DonorAt, FrozenAt, AfterRow
  <2>2. Row(c, 2)
    BY MigrateRows DEF Row, Across, FlagAt, WriteAt, BarrierAt,
       LockAt, DonorAt, FrozenAt, AfterRow
  <2>3. Row(c, 3)
    BY MigrateRows DEF Row, Across, FlagAt, WriteAt, BarrierAt,
       LockAt, DonorAt, FrozenAt, AfterRow
  <2>4. Row(c, 4)
    BY MigrateRows DEF Row, Across, FlagAt, WriteAt, BarrierAt,
       LockAt, DonorAt, FrozenAt, AfterRow
  <2>5. Row(c, 5)
    BY MigrateRows DEF Row, Across, FlagAt, WriteAt, BarrierAt,
       LockAt, DonorAt, FrozenAt, AfterRow
  <2>6. Row(c, 6)
    BY MigrateRows DEF Row, Across, FlagAt, WriteAt, BarrierAt,
       LockAt, DonorAt, FrozenAt, AfterRow
  <2>7. Row(c, 7)
    BY MigrateRows DEF Row, Across, FlagAt, WriteAt, BarrierAt,
       LockAt, DonorAt, FrozenAt, AfterRow
  <2> QED BY <2>1, <2>2, <2>3, <2>4, <2>5, <2>6, <2>7
<1>2. \A k \in 1 .. 7 : Order(c, k)
  BY MigrateRows DEF Order, SetAt, FlushAt, Shutdowns, Resizes, Work
<1> QED BY <1>1, <1>2, MigrateRows DEF Sound, Held, FlagAt, WriteAt, BarrierAt,
        LockAt, DonorAt, FrozenAt

LEMMA AllocDaBlksRows ==
  LET h == Handler["ALLOC_DA_BLKS"]
  IN  /\ Len(h) = 4
      /\ h[1] = <<"check", "ret">> /\ h[2] = <<"want", "ret">>
      /\ h[3] = <<"work", "go">> /\ h[4] = <<"drop", "go">>
BY DEF Handler, AllocDaBlks

LEMMA AllocDaBlksSound == Sound("ALLOC_DA_BLKS")
<1> DEFINE c == "ALLOC_DA_BLKS"
<1>1. \A k \in 1 .. 4 : Row(c, k)
  <2>1. Row(c, 1)
    BY AllocDaBlksRows DEF Row, Across, FlagAt, WriteAt, BarrierAt,
       LockAt, DonorAt, FrozenAt, AfterRow
  <2>2. Row(c, 2)
    BY AllocDaBlksRows DEF Row, Across, FlagAt, WriteAt, BarrierAt,
       LockAt, DonorAt, FrozenAt, AfterRow
  <2>3. Row(c, 3)
    BY AllocDaBlksRows DEF Row, Across, FlagAt, WriteAt, BarrierAt,
       LockAt, DonorAt, FrozenAt, AfterRow
  <2>4. Row(c, 4)
    BY AllocDaBlksRows DEF Row, Across, FlagAt, WriteAt, BarrierAt,
       LockAt, DonorAt, FrozenAt, AfterRow
  <2> QED BY <2>1, <2>2, <2>3, <2>4
<1>2. \A k \in 1 .. 4 : Order(c, k)
  BY AllocDaBlksRows DEF Order, SetAt, FlushAt, Shutdowns, Resizes, Work
<1> QED BY <1>1, <1>2, AllocDaBlksRows DEF Sound, Held, FlagAt, WriteAt, BarrierAt,
        LockAt, DonorAt, FrozenAt

LEMMA FlipBlockBitRows ==
  LET h == Handler["FLIP_BLOCK_BIT"]
  IN  /\ Len(h) = 2
      /\ h[1] = <<"check", "ret">> /\ h[2] = <<"work", "go">>
BY DEF Handler, FlipBlockBit

LEMMA FlipBlockBitSound == Sound("FLIP_BLOCK_BIT")
<1> DEFINE c == "FLIP_BLOCK_BIT"
<1>1. \A k \in 1 .. 2 : Row(c, k)
  <2>1. Row(c, 1)
    BY FlipBlockBitRows DEF Row, Across, FlagAt, WriteAt, BarrierAt,
       LockAt, DonorAt, FrozenAt, AfterRow
  <2>2. Row(c, 2)
    BY FlipBlockBitRows DEF Row, Across, FlagAt, WriteAt, BarrierAt,
       LockAt, DonorAt, FrozenAt, AfterRow
  <2> QED BY <2>1, <2>2
<1>2. \A k \in 1 .. 2 : Order(c, k)
  BY FlipBlockBitRows DEF Order, SetAt, FlushAt, Shutdowns, Resizes, Work
<1> QED BY <1>1, <1>2, FlipBlockBitRows DEF Sound, Held, FlagAt, WriteAt, BarrierAt,
        LockAt, DonorAt, FrozenAt

LEMMA CheckpointRows ==
  LET h == Handler["CHECKPOINT"]
  IN  /\ Len(h) = 4
      /\ h[1] = <<"check", "ret">> /\ h[2] = <<"barrier", "go">>
      /\ h[3] = <<"flush", "go">> /\ h[4] = <<"unbarrier", "go">>
BY DEF Handler, Checkpoint, FlushJournal

LEMMA CheckpointSound == Sound("CHECKPOINT")
<1> DEFINE c == "CHECKPOINT"
<1>1. \A k \in 1 .. 4 : Row(c, k)
  <2>1. Row(c, 1)
    BY CheckpointRows DEF Row, Across, FlagAt, WriteAt, BarrierAt,
       LockAt, DonorAt, FrozenAt, AfterRow
  <2>2. Row(c, 2)
    BY CheckpointRows DEF Row, Across, FlagAt, WriteAt, BarrierAt,
       LockAt, DonorAt, FrozenAt, AfterRow
  <2>3. Row(c, 3)
    BY CheckpointRows DEF Row, Across, FlagAt, WriteAt, BarrierAt,
       LockAt, DonorAt, FrozenAt, AfterRow
  <2>4. Row(c, 4)
    BY CheckpointRows DEF Row, Across, FlagAt, WriteAt, BarrierAt,
       LockAt, DonorAt, FrozenAt, AfterRow
  <2> QED BY <2>1, <2>2, <2>3, <2>4
<1>2. \A k \in 1 .. 4 : Order(c, k)
  BY CheckpointRows DEF Order, SetAt, FlushAt, Shutdowns, Resizes, Work
<1> QED BY <1>1, <1>2, CheckpointRows DEF Sound, Held, FlagAt, WriteAt, BarrierAt,
        LockAt, DonorAt, FrozenAt

LEMMA CheckpointDryRunRows ==
  LET h == Handler["CHECKPOINT_DRY_RUN"]
  IN  /\ Len(h) = 1
      /\ h[1] = <<"check", "ret">>
BY DEF Handler, CheckpointDryRun

LEMMA CheckpointDryRunSound == Sound("CHECKPOINT_DRY_RUN")
<1> DEFINE c == "CHECKPOINT_DRY_RUN"
<1>1. \A k \in 1 .. 1 : Row(c, k)
  <2>1. Row(c, 1)
    BY CheckpointDryRunRows DEF Row, Across, FlagAt, WriteAt, BarrierAt,
       LockAt, DonorAt, FrozenAt, AfterRow
  <2> QED BY <2>1
<1>2. \A k \in 1 .. 1 : Order(c, k)
  BY CheckpointDryRunRows DEF Order, SetAt, FlushAt, Shutdowns, Resizes, Work
<1> QED BY <1>1, <1>2, CheckpointDryRunRows DEF Sound, Held, FlagAt, WriteAt, BarrierAt,
        LockAt, DonorAt, FrozenAt

LEMMA ShutdownDefaultRows ==
  LET h == Handler["SHUTDOWN_DEFAULT"]
  IN  /\ Len(h) = 7
      /\ h[1] = <<"check", "ret">> /\ h[2] = <<"alive", "ret">>
      /\ h[3] = <<"freeze", "go">> /\ h[4] = <<"drain", "ret">>
      /\ h[5] = <<"setflag", "go">> /\ h[6] = <<"thaw", "go">>
      /\ h[7] = <<"nodiscard", "go">>
BY DEF Handler, ShutdownDefault, Asked

LEMMA ShutdownDefaultSound == Sound("SHUTDOWN_DEFAULT")
<1> DEFINE c == "SHUTDOWN_DEFAULT"
<1>1. \A k \in 1 .. 7 : Row(c, k)
  <2>1. Row(c, 1)
    BY ShutdownDefaultRows DEF Row, Across, FlagAt, WriteAt, BarrierAt,
       LockAt, DonorAt, FrozenAt, AfterRow
  <2>2. Row(c, 2)
    BY ShutdownDefaultRows DEF Row, Across, FlagAt, WriteAt, BarrierAt,
       LockAt, DonorAt, FrozenAt, AfterRow
  <2>3. Row(c, 3)
    BY ShutdownDefaultRows DEF Row, Across, FlagAt, WriteAt, BarrierAt,
       LockAt, DonorAt, FrozenAt, AfterRow
  <2>4. Row(c, 4)
    BY ShutdownDefaultRows DEF Row, Across, FlagAt, WriteAt, BarrierAt,
       LockAt, DonorAt, FrozenAt, AfterRow
  <2>5. Row(c, 5)
    BY ShutdownDefaultRows DEF Row, Across, FlagAt, WriteAt, BarrierAt,
       LockAt, DonorAt, FrozenAt, AfterRow
  <2>6. Row(c, 6)
    BY ShutdownDefaultRows DEF Row, Across, FlagAt, WriteAt, BarrierAt,
       LockAt, DonorAt, FrozenAt, AfterRow
  <2>7. Row(c, 7)
    BY ShutdownDefaultRows DEF Row, Across, FlagAt, WriteAt, BarrierAt,
       LockAt, DonorAt, FrozenAt, AfterRow
  <2> QED BY <2>1, <2>2, <2>3, <2>4, <2>5, <2>6, <2>7
<1>2. \A k \in 1 .. 7 : Order(c, k)
  BY ShutdownDefaultRows DEF Order, SetAt, FlushAt, Shutdowns, Resizes, Work
<1> QED BY <1>1, <1>2, ShutdownDefaultRows DEF Sound, Held, FlagAt, WriteAt, BarrierAt,
        LockAt, DonorAt, FrozenAt

LEMMA ShutdownLogflushRows ==
  LET h == Handler["SHUTDOWN_LOGFLUSH"]
  IN  /\ Len(h) = 6
      /\ h[1] = <<"check", "ret">> /\ h[2] = <<"alive", "ret">>
      /\ h[3] = <<"setflag", "go">> /\ h[4] = <<"commit", "go">>
      /\ h[5] = <<"abort", "go">> /\ h[6] = <<"nodiscard", "go">>
BY DEF Handler, ShutdownLogflush, Asked

LEMMA ShutdownLogflushSound == Sound("SHUTDOWN_LOGFLUSH")
<1> DEFINE c == "SHUTDOWN_LOGFLUSH"
<1>1. \A k \in 1 .. 6 : Row(c, k)
  <2>1. Row(c, 1)
    BY ShutdownLogflushRows DEF Row, Across, FlagAt, WriteAt, BarrierAt,
       LockAt, DonorAt, FrozenAt, AfterRow
  <2>2. Row(c, 2)
    BY ShutdownLogflushRows DEF Row, Across, FlagAt, WriteAt, BarrierAt,
       LockAt, DonorAt, FrozenAt, AfterRow
  <2>3. Row(c, 3)
    BY ShutdownLogflushRows DEF Row, Across, FlagAt, WriteAt, BarrierAt,
       LockAt, DonorAt, FrozenAt, AfterRow
  <2>4. Row(c, 4)
    BY ShutdownLogflushRows DEF Row, Across, FlagAt, WriteAt, BarrierAt,
       LockAt, DonorAt, FrozenAt, AfterRow
  <2>5. Row(c, 5)
    BY ShutdownLogflushRows DEF Row, Across, FlagAt, WriteAt, BarrierAt,
       LockAt, DonorAt, FrozenAt, AfterRow
  <2>6. Row(c, 6)
    BY ShutdownLogflushRows DEF Row, Across, FlagAt, WriteAt, BarrierAt,
       LockAt, DonorAt, FrozenAt, AfterRow
  <2> QED BY <2>1, <2>2, <2>3, <2>4, <2>5, <2>6
<1>2. \A k \in 1 .. 6 : Order(c, k)
  BY ShutdownLogflushRows DEF Order, SetAt, FlushAt, Shutdowns, Resizes, Work
<1> QED BY <1>1, <1>2, ShutdownLogflushRows DEF Sound, Held, FlagAt, WriteAt, BarrierAt,
        LockAt, DonorAt, FrozenAt

LEMMA ShutdownNologflushRows ==
  LET h == Handler["SHUTDOWN_NOLOGFLUSH"]
  IN  /\ Len(h) = 5
      /\ h[1] = <<"check", "ret">> /\ h[2] = <<"alive", "ret">>
      /\ h[3] = <<"setflag", "go">> /\ h[4] = <<"abort", "go">>
      /\ h[5] = <<"nodiscard", "go">>
BY DEF Handler, ShutdownNologflush, Asked

LEMMA ShutdownNologflushSound == Sound("SHUTDOWN_NOLOGFLUSH")
<1> DEFINE c == "SHUTDOWN_NOLOGFLUSH"
<1>1. \A k \in 1 .. 5 : Row(c, k)
  <2>1. Row(c, 1)
    BY ShutdownNologflushRows DEF Row, Across, FlagAt, WriteAt, BarrierAt,
       LockAt, DonorAt, FrozenAt, AfterRow
  <2>2. Row(c, 2)
    BY ShutdownNologflushRows DEF Row, Across, FlagAt, WriteAt, BarrierAt,
       LockAt, DonorAt, FrozenAt, AfterRow
  <2>3. Row(c, 3)
    BY ShutdownNologflushRows DEF Row, Across, FlagAt, WriteAt, BarrierAt,
       LockAt, DonorAt, FrozenAt, AfterRow
  <2>4. Row(c, 4)
    BY ShutdownNologflushRows DEF Row, Across, FlagAt, WriteAt, BarrierAt,
       LockAt, DonorAt, FrozenAt, AfterRow
  <2>5. Row(c, 5)
    BY ShutdownNologflushRows DEF Row, Across, FlagAt, WriteAt, BarrierAt,
       LockAt, DonorAt, FrozenAt, AfterRow
  <2> QED BY <2>1, <2>2, <2>3, <2>4, <2>5
<1>2. \A k \in 1 .. 5 : Order(c, k)
  BY ShutdownNologflushRows DEF Order, SetAt, FlushAt, Shutdowns, Resizes, Work
<1> QED BY <1>1, <1>2, ShutdownNologflushRows DEF Sound, Held, FlagAt, WriteAt, BarrierAt,
        LockAt, DonorAt, FrozenAt

(* Every handler of the table, at every row.                               *)
LEMMA AllSound == \A c \in DOMAIN Handler : Sound(c)
<1>1. DOMAIN Handler = {"GROUP_EXTEND", "GROUP_ADD", "RESIZE_FS", "SETFSLABEL",
        "MOVE_EXT", "MIGRATE", "ALLOC_DA_BLKS", "FLIP_BLOCK_BIT", "CHECKPOINT",
        "CHECKPOINT_DRY_RUN", "SHUTDOWN_DEFAULT", "SHUTDOWN_LOGFLUSH",
        "SHUTDOWN_NOLOGFLUSH"}
  BY DEF Handler
<1> QED BY <1>1, GroupExtendSound, GroupAddSound, ResizeFsSound, SetLabelSound,
           MoveExtSound, MigrateSound, AllocDaBlksSound, FlipBlockBitSound,
           CheckpointSound, CheckpointDryRunSound, ShutdownDefaultSound,
           ShutdownLogflushSound, ShutdownNologflushSound

-----------------------------------------------------------------------------
(* What a call holds                                                       *)

Types ==
  /\ resizing \subseteq Threads /\ writers \subseteq Threads
  /\ freezers \subseteq Threads /\ donors \subseteq Threads
  /\ handles \subseteq Threads
  /\ pc \in [Threads -> Nat]
  /\ cmd \in [Threads -> DOMAIN Handler \cup {"none"}]
  /\ \A t \in Threads : pc[t] # 0 =>
       cmd[t] \in DOMAIN Handler /\ pc[t] <= Len(Handler[cmd[t]]) + 1

Holds(t) ==
  /\ t \in resizing <=> pc[t] \in FlagAt(cmd[t])
  /\ t \in writers  <=> pc[t] \in WriteAt(cmd[t])
  /\ barrier = t    <=> pc[t] \in BarrierAt(cmd[t])
  /\ ilock = t      <=> pc[t] \in LockAt(cmd[t])
  /\ t \in donors   <=> pc[t] \in DonorAt(cmd[t])
  /\ t \in freezers <=> pc[t] \in FrozenAt(cmd[t])
  /\ t \in handles  => At(t, Work)

OneResizer == \A t, u \in resizing : t = u

HoldsInv == Types /\ OneResizer /\ \A t \in Threads : Holds(t)

(* A call that is at a row, and the row it is at.                          *)
LEMMA AtRow ==
  ASSUME Types, NEW t \in Threads, Inside(t)
  PROVE  /\ cmd[t] \in DOMAIN Handler /\ Len(Handler[cmd[t]]) \in Nat
         /\ pc[t] \in 1 .. Len(Handler[cmd[t]])
         /\ Row(cmd[t], pc[t]) /\ After(t) = AfterRow(cmd[t], pc[t])
         /\ After(t) \in Nat /\ pc[t] + 1 \in Nat
         /\ After(t) <= Len(Handler[cmd[t]]) + 1
<1>1. cmd[t] \in DOMAIN Handler /\ pc[t] \in Nat /\ pc[t] # 0
  BY DEF Types, Inside
<1>2. Len(Handler[cmd[t]]) \in Nat /\ pc[t] \in 1 .. Len(Handler[cmd[t]])
  BY <1>1, AllSound DEF Sound, Inside, Rows
<1>3. Row(cmd[t], pc[t])
  BY <1>1, <1>2, AllSound DEF Sound
<1>4. After(t) = AfterRow(cmd[t], pc[t])
  BY DEF After, AfterRow, Exit, Rows
<1>5. AfterRow(cmd[t], pc[t]) \in pc[t] + 1 .. Len(Handler[cmd[t]]) + 1
  BY <1>3 DEF Row
<1> QED BY <1>1, <1>2, <1>3, <1>4, <1>5

LEMMA NoneHolds ==
  /\ FlagAt("none") = {} /\ WriteAt("none") = {} /\ BarrierAt("none") = {}
  /\ LockAt("none") = {} /\ DonorAt("none") = {} /\ FrozenAt("none") = {}
BY DEF FlagAt, WriteAt, BarrierAt, LockAt, DonorAt, FrozenAt

LEMMA NothingAtEnds ==
  ASSUME NEW c \in DOMAIN Handler \cup {"none"}
  PROVE  /\ 0 \notin Held(c) /\ 1 \notin Held(c)
         /\ c # "none" => Len(Handler[c]) + 1 \notin Held(c)
<1>1. CASE c = "none"
  BY <1>1, NoneHolds DEF Held
<1>2. CASE c \in DOMAIN Handler
  BY <1>2, AllSound DEF Sound
<1> QED BY <1>1, <1>2

LEMMA InitHolds == Init => HoldsInv
<1> SUFFICES ASSUME Init PROVE HoldsInv
  OBVIOUS
<1>1. Types /\ OneResizer
  BY ScenariosAssumption DEF Init, Types, OneResizer
<1>2. \A t \in Threads : 0 \notin Held(cmd[t])
  BY <1>1, NothingAtEnds DEF Types
<1>3. \A t \in Threads : Holds(t)
  BY <1>2, NamesAssumption DEF Init, Holds, Held, NoThread
<1> QED BY <1>1, <1>3 DEF HoldsInv

(* A thread whose call and locks a step leaves alone still holds them.     *)
LEMMA OthersHold ==
  ASSUME NEW u, Holds(u), pc'[u] = pc[u], cmd' = cmd,
         u \in resizing' <=> u \in resizing, u \in writers' <=> u \in writers,
         barrier' = u <=> barrier = u, ilock' = u <=> ilock = u,
         u \in donors' <=> u \in donors, u \in freezers' <=> u \in freezers,
         u \in handles' => u \in handles
  PROVE  Holds(u)'
BY DEF Holds, At, Inside, Rows, Step

Moves(t, n) == pc' = [pc EXCEPT ![t] = n] /\ cmd' = cmd

(* What a thread holds once it is at n, and that nobody else's holdings    *)
(* change.                                                                 *)
Fits(t, n) ==
  /\ t \in resizing' <=> n \in FlagAt(cmd[t])
  /\ t \in writers'  <=> n \in WriteAt(cmd[t])
  /\ barrier' = t    <=> n \in BarrierAt(cmd[t])
  /\ ilock' = t      <=> n \in LockAt(cmd[t])
  /\ t \in donors'   <=> n \in DonorAt(cmd[t])
  /\ t \in freezers' <=> n \in FrozenAt(cmd[t])
OnlyOwn(t) ==
  /\ resizing' \subseteq Threads /\ writers' \subseteq Threads
  /\ freezers' \subseteq Threads /\ donors' \subseteq Threads
  /\ handles' \subseteq Threads /\ t \notin handles'
  /\ \A u \in Threads \ {t} :
       /\ u \in resizing' <=> u \in resizing
       /\ u \in writers'  <=> u \in writers
       /\ barrier' = u <=> barrier = u
       /\ ilock' = u <=> ilock = u
       /\ u \in donors'   <=> u \in donors
       /\ u \in freezers' <=> u \in freezers
       /\ u \in handles' => u \in handles

LEMMA MoveHolds ==
  ASSUME HoldsInv, NEW t \in Threads, Inside(t), NEW n \in {pc[t] + 1, After(t)},
         Moves(t, n), OneResizer', Fits(t, n), OnlyOwn(t)
  PROVE  HoldsInv'
<1>1. /\ cmd[t] \in DOMAIN Handler /\ n \in Nat
      /\ n <= Len(Handler[cmd[t]]) + 1
  BY AtRow DEF HoldsInv
<1>2. pc' \in [Threads -> Nat] /\ pc'[t] = n /\ cmd' = cmd
      /\ \A u \in Threads \ {t} : pc'[u] = pc[u]
  BY <1>1 DEF Moves, HoldsInv, Types
<1>3. Types'
  BY <1>1, <1>2 DEF HoldsInv, Types, OnlyOwn
<1>4. Holds(t)'
  BY <1>2 DEF Holds, Fits, OnlyOwn
<1>5. ASSUME NEW u \in Threads \ {t} PROVE Holds(u)'
  BY <1>2, <1>5, OthersHold DEF HoldsInv, OnlyOwn
<1> QED BY <1>3, <1>4, <1>5 DEF HoldsInv

(* A row that neither takes nor gives back what is held on S.              *)
LEMMA SameSide ==
  ASSUME NEW S, NEW takes, NEW gives, NEW c, NEW k, NEW n \in {k + 1, AfterRow(c, k)},
         Across(S, takes, gives, c, k), Handler[c][k][1] \notin {takes, gives}
  PROVE  k \in S <=> n \in S
BY DEF Across

(* What the row at which t stands says of what t holds now and after it.   *)
LEMMA Through ==
  ASSUME HoldsInv, NEW t \in Threads, Inside(t), NEW n \in {pc[t] + 1, After(t)}
  PROVE  /\ Step(t) \notin {"begin", "end"} => (t \in resizing <=> n \in FlagAt(cmd[t]))
         /\ Step(t) \notin {"want", "drop"} => (t \in writers <=> n \in WriteAt(cmd[t]))
         /\ Step(t) \notin {"barrier", "unbarrier"} =>
              (barrier = t <=> n \in BarrierAt(cmd[t]))
         /\ Step(t) \notin {"lock", "unlock"} => (ilock = t <=> n \in LockAt(cmd[t]))
         /\ Step(t) \notin {"fdget", "fdput"} => (t \in donors <=> n \in DonorAt(cmd[t]))
         /\ Step(t) \notin {"freeze", "drain", "thaw"} =>
              (t \in freezers <=> n \in FrozenAt(cmd[t]))
         /\ Step(t) \notin Work => t \notin handles
<1>1. Holds(t) /\ Row(cmd[t], pc[t]) /\ After(t) = AfterRow(cmd[t], pc[t])
  BY AtRow DEF HoldsInv
<1> DEFINE Same(S) == pc[t] \in S <=> n \in S
<1>2. /\ Step(t) \notin {"begin", "end"} => Same(FlagAt(cmd[t]))
      /\ Step(t) \notin {"want", "drop"} => Same(WriteAt(cmd[t]))
      /\ Step(t) \notin {"barrier", "unbarrier"} => Same(BarrierAt(cmd[t]))
      /\ Step(t) \notin {"lock", "unlock"} => Same(LockAt(cmd[t]))
      /\ Step(t) \notin {"fdget", "fdput"} => Same(DonorAt(cmd[t]))
      /\ Step(t) \notin {"freeze", "drain", "thaw"} => Same(FrozenAt(cmd[t]))
  <2>1. /\ Across(FlagAt(cmd[t]), "begin", "end", cmd[t], pc[t])
        /\ Across(WriteAt(cmd[t]), "want", "drop", cmd[t], pc[t])
        /\ Across(BarrierAt(cmd[t]), "barrier", "unbarrier", cmd[t], pc[t])
        /\ Across(LockAt(cmd[t]), "lock", "unlock", cmd[t], pc[t])
        /\ Across(DonorAt(cmd[t]), "fdget", "fdput", cmd[t], pc[t])
        /\ Step(t) # "drain" => Across(FrozenAt(cmd[t]), "freeze", "thaw", cmd[t], pc[t])
    BY <1>1 DEF Row, Step
  <2>2. n \in {pc[t] + 1, AfterRow(cmd[t], pc[t])}
    BY <1>1
  <2>3. ASSUME NEW S, NEW takes, NEW gives, Across(S, takes, gives, cmd[t], pc[t]),
               Step(t) \notin {takes, gives}
        PROVE  Same(S)
    BY <2>2, <2>3, SameSide DEF Step
  <2> HIDE DEF Same
  <2> QED BY <2>1, <2>3
<1> QED BY <1>1, <1>2 DEF Holds, At

LEMMA Taken ==
  ASSUME HoldsInv, NEW t \in Threads, Inside(t)
  PROVE  /\ Step(t) = "begin" =>
              pc[t] + 1 \in FlagAt(cmd[t]) /\ After(t) \notin FlagAt(cmd[t]) /\ t \notin resizing
         /\ Step(t) = "end" => pc[t] + 1 \notin FlagAt(cmd[t]) /\ t \in resizing
         /\ Step(t) = "want" =>
              pc[t] + 1 \in WriteAt(cmd[t]) /\ After(t) \notin WriteAt(cmd[t]) /\ t \notin writers
         /\ Step(t) = "drop" => pc[t] + 1 \notin WriteAt(cmd[t])
         /\ Step(t) = "fdget" =>
              pc[t] + 1 \in DonorAt(cmd[t]) /\ After(t) \notin DonorAt(cmd[t]) /\ t \notin donors
         /\ Step(t) = "fdput" => pc[t] + 1 \notin DonorAt(cmd[t])
         /\ Step(t) = "barrier" => pc[t] + 1 \in BarrierAt(cmd[t])
         /\ Step(t) = "unbarrier" => pc[t] + 1 \notin BarrierAt(cmd[t]) /\ barrier = t
         /\ Step(t) = "lock" => pc[t] + 1 \in LockAt(cmd[t])
         /\ Step(t) = "unlock" => pc[t] + 1 \notin LockAt(cmd[t]) /\ ilock = t
         /\ Step(t) = "freeze" => pc[t] + 1 \in FrozenAt(cmd[t])
         /\ Step(t) = "drain" =>
              pc[t] + 1 \in FrozenAt(cmd[t]) /\ After(t) \notin FrozenAt(cmd[t]) /\ t \in freezers
         /\ Step(t) = "thaw" => pc[t] + 1 \notin FrozenAt(cmd[t])
<1>1. Holds(t) /\ Row(cmd[t], pc[t]) /\ After(t) = AfterRow(cmd[t], pc[t])
  BY AtRow DEF HoldsInv
<1> QED BY <1>1 DEF Row, Across, Step, Holds

(* A row that takes and gives back nothing.                                *)
Keepers == {"begin", "end", "want", "drop", "barrier", "unbarrier", "lock",
            "unlock", "fdget", "fdput", "freeze", "drain", "thaw"}
LEMMA PassHolds ==
  ASSUME HoldsInv, NEW t \in Threads, Inside(t), Step(t) \notin Keepers,
         NEW n \in {pc[t] + 1, After(t)}, Moves(t, n),
         t \notin handles, UNCHANGED <<resizing, locks>>
  PROVE  HoldsInv'
<1>1. UNCHANGED <<resizing, writers, freezers, ilock, donors, handles, barrier>>
  BY DEF locks
<1>2. OneResizer' /\ OnlyOwn(t)
  BY <1>1 DEF HoldsInv, Types, OneResizer, OnlyOwn
<1>3. Fits(t, n)
  BY <1>1, Through DEF Keepers, Fits
<1> QED BY <1>2, <1>3, MoveHolds

LEMMA CallHolds ==
  ASSUME HoldsInv, NEW t \in Threads, Call(t)
  PROVE  HoldsInv'
<1>1. /\ Types /\ OneResizer /\ pc[t] = 0 /\ cmd[t] \in DOMAIN Handler
      /\ pc' = [pc EXCEPT ![t] = 1] /\ cmd' = cmd
      /\ UNCHANGED <<resizing, writers, freezers, ilock, donors, handles, barrier>>
  BY DEF HoldsInv, Types, Call, flags, locks
<1>2. 0 \notin Held(cmd[t]) /\ 1 \notin Held(cmd[t]) /\ 1 <= Len(Handler[cmd[t]]) + 1
  BY <1>1, NothingAtEnds, AllSound DEF Sound
<1>3. Types' /\ OneResizer'
  BY <1>1, <1>2 DEF Types, OneResizer
<1>4. Holds(t)'
  BY <1>1, <1>2 DEF Types, HoldsInv, Holds, Held, At, Inside
<1>5. ASSUME NEW u \in Threads, u # t PROVE Holds(u)'
  BY <1>1, <1>5, OthersHold DEF Types, HoldsInv
<1> QED BY <1>3, <1>4, <1>5 DEF HoldsInv

LEMMA StepHolds ==
  ASSUME HoldsInv, NEW t \in Threads, Locked(t) \/ Free(t) \/ WorkFails(t)
  PROVE  HoldsInv'
<1> USE DEF Moves, At
<1>0. Types /\ OneResizer /\ Holds(t) /\ Inside(t)
  BY DEF HoldsInv, Holds, Locked, Free, WorkFails, Check, Begin, End, Want, Drop,
     GetDonor, PutDonor, LockInode, UnlockInode, Skip, Due, StartHandle, StopHandle,
     LockUpdates, Flush, UnlockUpdates, Lazy, Writable, Alive, Freeze, Drain,
     SetShutdown, Thaw, ForceCommit, AbortJournal, ClearDiscard
<1>1. Row(cmd[t], pc[t]) /\ After(t) = AfterRow(cmd[t], pc[t])
  BY <1>0, AtRow
<1>2. /\ t # NoThread /\ (\A u \in Threads : u # NoThread)
      /\ Step(t) \notin Work => t \notin handles
  BY <1>0, NamesAssumption DEF Holds
<1>3. CASE Check(t)
  <2>1. /\ Step(t) \notin Keepers /\ t \notin handles /\ UNCHANGED <<resizing, locks>>
        /\ Moves(t, pc[t] + 1) \/ Moves(t, After(t))
    BY <1>2, <1>3 DEF Check, Advance, Fail, Leave, Keepers, Work, flags, locks, call
  <2> QED BY <1>0, <2>1, PassHolds
<1>4. CASE Skip(t)
  <2>1. /\ Step(t) \notin Keepers /\ t \notin handles /\ UNCHANGED <<resizing, locks>>
        /\ Moves(t, pc[t] + 1) \/ Moves(t, After(t))
    BY <1>2, <1>4 DEF Skip, Advance, Fail, Leave, Keepers, Work, flags, locks, call
  <2> QED BY <1>0, <2>1, PassHolds
<1>5. CASE WorkFails(t)
  <2>1. /\ Step(t) \notin Keepers /\ t \notin handles /\ UNCHANGED <<resizing, locks>>
        /\ Moves(t, pc[t] + 1) \/ Moves(t, After(t))
    BY <1>2, <1>5 DEF WorkFails, Due, Advance, Fail, Leave, Keepers, Work, flags, locks,
       call
  <2> QED BY <1>0, <2>1, PassHolds
<1>6. CASE Flush(t)
  <2>1. /\ Step(t) \notin Keepers /\ t \notin handles /\ UNCHANGED <<resizing, locks>>
        /\ Moves(t, pc[t] + 1) \/ Moves(t, After(t))
    BY <1>2, <1>6 DEF Flush, Advance, Fail, Leave, Keepers, Work, flags, locks, call
  <2> QED BY <1>0, <2>1, PassHolds
<1>7. CASE Lazy(t)
  <2>1. /\ Step(t) \notin Keepers /\ t \notin handles /\ UNCHANGED <<resizing, locks>>
        /\ Moves(t, pc[t] + 1) \/ Moves(t, After(t))
    BY <1>2, <1>7 DEF Lazy, Advance, Fail, Leave, Keepers, Work, flags, locks, call
  <2> QED BY <1>0, <2>1, PassHolds
<1>8. CASE Writable(t)
  <2>1. /\ Step(t) \notin Keepers /\ t \notin handles /\ UNCHANGED <<resizing, locks>>
        /\ Moves(t, pc[t] + 1) \/ Moves(t, After(t))
    BY <1>2, <1>8 DEF Writable, Advance, Fail, Leave, Keepers, Work, flags, locks, call
  <2> QED BY <1>0, <2>1, PassHolds
<1>9. CASE Alive(t)
  <2>1. /\ Step(t) \notin Keepers /\ t \notin handles /\ UNCHANGED <<resizing, locks>>
        /\ Moves(t, pc[t] + 1) \/ Moves(t, After(t))
    BY <1>2, <1>9 DEF Alive, Advance, Fail, Leave, Keepers, Work, flags, locks, call
  <2> QED BY <1>0, <2>1, PassHolds
<1>10. CASE SetShutdown(t)
  <2>1. /\ Step(t) \notin Keepers /\ t \notin handles /\ UNCHANGED <<resizing, locks>>
        /\ Moves(t, pc[t] + 1) \/ Moves(t, After(t))
    BY <1>2, <1>10 DEF SetShutdown, Advance, Fail, Leave, Keepers, Work, flags, locks, call
  <2> QED BY <1>0, <2>1, PassHolds
<1>11. CASE ForceCommit(t)
  <2>1. /\ Step(t) \notin Keepers /\ t \notin handles /\ UNCHANGED <<resizing, locks>>
        /\ Moves(t, pc[t] + 1) \/ Moves(t, After(t))
    BY <1>2, <1>11 DEF ForceCommit, Advance, Fail, Leave, Keepers, Work, flags, locks, call
  <2> QED BY <1>0, <2>1, PassHolds
<1>12. CASE AbortJournal(t)
  <2>1. /\ Step(t) \notin Keepers /\ t \notin handles /\ UNCHANGED <<resizing, locks>>
        /\ Moves(t, pc[t] + 1) \/ Moves(t, After(t))
    BY <1>2, <1>12 DEF AbortJournal, Advance, Fail, Leave, Keepers, Work, flags, locks, call
  <2> QED BY <1>0, <2>1, PassHolds
<1>13. CASE ClearDiscard(t)
  <2>1. /\ Step(t) \notin Keepers /\ t \notin handles /\ UNCHANGED <<resizing, locks>>
        /\ Moves(t, pc[t] + 1) \/ Moves(t, After(t))
    BY <1>2, <1>13 DEF ClearDiscard, Advance, Fail, Leave, Keepers, Work, flags, locks, call
  <2> QED BY <1>0, <2>1, PassHolds
<1>14. CASE Begin(t)
  <2>1. /\ Step(t) = "begin"
        /\ UNCHANGED <<writers, freezers, ilock, donors, handles, barrier>>
        /\ \/ Moves(t, pc[t] + 1) /\ resizing = {} /\ resizing' = {t}
           \/ Moves(t, After(t)) /\ resizing' = resizing
    BY <1>14 DEF Begin, Advance, Fail, flags, locks, MayBegin
  <2>2. OneResizer' /\ OnlyOwn(t)
    BY <1>0, <1>2, <2>1, Taken DEF HoldsInv, Types, OneResizer, OnlyOwn, Work
  <2>3. CASE Moves(t, pc[t] + 1) /\ resizing = {} /\ resizing' = {t}
    <3>1. Fits(t, pc[t] + 1)
      BY <1>0, <2>1, <2>3, Through, Taken DEF Fits
    <3> QED BY <1>0, <2>2, <2>3, <3>1, MoveHolds
  <2>4. CASE Moves(t, After(t)) /\ resizing' = resizing
    <3>1. Fits(t, After(t))
      BY <1>0, <2>1, <2>4, Through, Taken DEF Fits
    <3> QED BY <1>0, <2>2, <2>4, <3>1, MoveHolds
  <2> QED BY <2>1, <2>3, <2>4
<1>15. CASE End(t)
  <2>1. /\ Step(t) = "end" /\ Moves(t, pc[t] + 1)
        /\ resizing' = {}
        /\ UNCHANGED <<writers, freezers, ilock, donors, handles, barrier>>
    BY <1>15 DEF End, Advance, flags, locks
  <2>2. OneResizer' /\ OnlyOwn(t)
    BY <1>0, <1>2, <2>1, Taken DEF HoldsInv, Types, OneResizer, OnlyOwn, Work
  <2>3. Fits(t, pc[t] + 1)
    BY <1>0, <1>2, <2>1, Through, Taken DEF Fits
  <2> QED BY <1>0, <2>1, <2>2, <2>3, MoveHolds
<1>16. CASE Want(t)
  <2>1. /\ Step(t) = "want"
        /\ UNCHANGED <<resizing, freezers, ilock, donors, handles, barrier>>
        /\ \/ Moves(t, pc[t] + 1) /\ writers' = writers \cup {t}
           \/ Moves(t, After(t)) /\ writers' = writers
    BY <1>16 DEF Want, Advance, Fail, flags, locks
  <2>2. OneResizer' /\ OnlyOwn(t)
    BY <1>0, <1>2, <2>1, Taken DEF HoldsInv, Types, OneResizer, OnlyOwn, Work
  <2>3. CASE Moves(t, pc[t] + 1) /\ writers' = writers \cup {t}
    <3>1. Fits(t, pc[t] + 1)
      BY <1>0, <2>1, <2>3, Through, Taken DEF Fits
    <3> QED BY <1>0, <2>2, <2>3, <3>1, MoveHolds
  <2>4. CASE Moves(t, After(t)) /\ writers' = writers
    <3>1. Fits(t, After(t))
      BY <1>0, <2>1, <2>4, Through, Taken DEF Fits
    <3> QED BY <1>0, <2>2, <2>4, <3>1, MoveHolds
  <2> QED BY <2>1, <2>3, <2>4
<1>17. CASE Drop(t)
  <2>1. /\ Step(t) = "drop" /\ Moves(t, pc[t] + 1)
        /\ writers' = writers \ {t}
        /\ UNCHANGED <<resizing, freezers, ilock, donors, handles, barrier>>
    BY <1>17 DEF Drop, Advance, flags, locks
  <2>2. OneResizer' /\ OnlyOwn(t)
    BY <1>0, <1>2, <2>1, Taken DEF HoldsInv, Types, OneResizer, OnlyOwn, Work
  <2>3. Fits(t, pc[t] + 1)
    BY <1>0, <1>2, <2>1, Through, Taken DEF Fits
  <2> QED BY <1>0, <2>1, <2>2, <2>3, MoveHolds
<1>18. CASE GetDonor(t)
  <2>1. /\ Step(t) = "fdget"
        /\ UNCHANGED <<resizing, writers, freezers, ilock, handles, barrier>>
        /\ \/ Moves(t, pc[t] + 1) /\ donors' = donors \cup {t}
           \/ Moves(t, After(t)) /\ donors' = donors
    BY <1>18 DEF GetDonor, Advance, Fail, flags, locks
  <2>2. OneResizer' /\ OnlyOwn(t)
    BY <1>0, <1>2, <2>1, Taken DEF HoldsInv, Types, OneResizer, OnlyOwn, Work
  <2>3. CASE Moves(t, pc[t] + 1) /\ donors' = donors \cup {t}
    <3>1. Fits(t, pc[t] + 1)
      BY <1>0, <2>1, <2>3, Through, Taken DEF Fits
    <3> QED BY <1>0, <2>2, <2>3, <3>1, MoveHolds
  <2>4. CASE Moves(t, After(t)) /\ donors' = donors
    <3>1. Fits(t, After(t))
      BY <1>0, <2>1, <2>4, Through, Taken DEF Fits
    <3> QED BY <1>0, <2>2, <2>4, <3>1, MoveHolds
  <2> QED BY <2>1, <2>3, <2>4
<1>19. CASE PutDonor(t)
  <2>1. /\ Step(t) = "fdput" /\ Moves(t, pc[t] + 1)
        /\ donors' = donors \ {t}
        /\ UNCHANGED <<resizing, writers, freezers, ilock, handles, barrier>>
    BY <1>19 DEF PutDonor, Advance, flags, locks
  <2>2. OneResizer' /\ OnlyOwn(t)
    BY <1>0, <1>2, <2>1, Taken DEF HoldsInv, Types, OneResizer, OnlyOwn, Work
  <2>3. Fits(t, pc[t] + 1)
    BY <1>0, <1>2, <2>1, Through, Taken DEF Fits
  <2> QED BY <1>0, <2>1, <2>2, <2>3, MoveHolds
<1>20. CASE LockInode(t)
  <2>1. /\ Step(t) = "lock" /\ Moves(t, pc[t] + 1)
        /\ ilock = NoThread /\ ilock' = t
        /\ UNCHANGED <<resizing, writers, freezers, donors, handles, barrier>>
    BY <1>20 DEF LockInode, Advance, flags, locks
  <2>2. OneResizer' /\ OnlyOwn(t)
    BY <1>0, <1>2, <2>1, Taken DEF HoldsInv, Types, OneResizer, OnlyOwn, Work
  <2>3. Fits(t, pc[t] + 1)
    BY <1>0, <1>2, <2>1, Through, Taken DEF Fits
  <2> QED BY <1>0, <2>1, <2>2, <2>3, MoveHolds
<1>21. CASE UnlockInode(t)
  <2>1. /\ Step(t) = "unlock" /\ Moves(t, pc[t] + 1)
        /\ ilock' = NoThread
        /\ UNCHANGED <<resizing, writers, freezers, donors, handles, barrier>>
    BY <1>21 DEF UnlockInode, Advance, flags, locks
  <2>2. OneResizer' /\ OnlyOwn(t)
    BY <1>0, <1>2, <2>1, Taken DEF HoldsInv, Types, OneResizer, OnlyOwn, Work
  <2>3. Fits(t, pc[t] + 1)
    BY <1>0, <1>2, <2>1, Through, Taken DEF Fits
  <2> QED BY <1>0, <2>1, <2>2, <2>3, MoveHolds
<1>22. CASE LockUpdates(t)
  <2>1. /\ Step(t) = "barrier" /\ Moves(t, pc[t] + 1)
        /\ barrier = NoThread /\ barrier' = t
        /\ UNCHANGED <<resizing, writers, freezers, ilock, donors, handles>>
    BY <1>22 DEF LockUpdates, Advance, flags, locks
  <2>2. OneResizer' /\ OnlyOwn(t)
    BY <1>0, <1>2, <2>1, Taken DEF HoldsInv, Types, OneResizer, OnlyOwn, Work
  <2>3. Fits(t, pc[t] + 1)
    BY <1>0, <1>2, <2>1, Through, Taken DEF Fits
  <2> QED BY <1>0, <2>1, <2>2, <2>3, MoveHolds
<1>23. CASE UnlockUpdates(t)
  <2>1. /\ Step(t) = "unbarrier" /\ Moves(t, pc[t] + 1)
        /\ barrier' = NoThread
        /\ UNCHANGED <<resizing, writers, freezers, ilock, donors, handles>>
    BY <1>23 DEF UnlockUpdates, Advance, flags, locks
  <2>2. OneResizer' /\ OnlyOwn(t)
    BY <1>0, <1>2, <2>1, Taken DEF HoldsInv, Types, OneResizer, OnlyOwn, Work
  <2>3. Fits(t, pc[t] + 1)
    BY <1>0, <1>2, <2>1, Through, Taken DEF Fits
  <2> QED BY <1>0, <2>1, <2>2, <2>3, MoveHolds
<1>24. CASE Freeze(t)
  <2>1. /\ Step(t) = "freeze" /\ Moves(t, pc[t] + 1)
        /\ freezers' = freezers \cup {t}
        /\ UNCHANGED <<resizing, writers, ilock, donors, handles, barrier>>
    BY <1>24 DEF Freeze, Advance, flags, locks
  <2>2. OneResizer' /\ OnlyOwn(t)
    BY <1>0, <1>2, <2>1, Taken DEF HoldsInv, Types, OneResizer, OnlyOwn, Work
  <2>3. Fits(t, pc[t] + 1)
    BY <1>0, <1>2, <2>1, Through, Taken DEF Fits
  <2> QED BY <1>0, <2>1, <2>2, <2>3, MoveHolds
<1>25. CASE Drain(t)
  <2>1. /\ Step(t) = "drain"
        /\ UNCHANGED <<resizing, writers, ilock, donors, handles, barrier>>
        /\ \/ Moves(t, pc[t] + 1) /\ freezers' = freezers
           \/ Moves(t, After(t)) /\ freezers' = freezers \ {t}
    BY <1>25 DEF Drain, Advance, Fail, flags, locks
  <2>2. OneResizer' /\ OnlyOwn(t)
    BY <1>0, <1>2, <2>1, Taken DEF HoldsInv, Types, OneResizer, OnlyOwn, Work
  <2>3. CASE Moves(t, pc[t] + 1) /\ freezers' = freezers
    <3>1. Fits(t, pc[t] + 1)
      BY <1>0, <2>1, <2>3, Through, Taken DEF Fits
    <3> QED BY <1>0, <2>2, <2>3, <3>1, MoveHolds
  <2>4. CASE Moves(t, After(t)) /\ freezers' = freezers \ {t}
    <3>1. Fits(t, After(t))
      BY <1>0, <2>1, <2>4, Through, Taken DEF Fits
    <3> QED BY <1>0, <2>2, <2>4, <3>1, MoveHolds
  <2> QED BY <2>1, <2>3, <2>4
<1>26. CASE Thaw(t)
  <2>1. /\ Step(t) = "thaw" /\ Moves(t, pc[t] + 1)
        /\ freezers' = freezers \ {t}
        /\ UNCHANGED <<resizing, writers, ilock, donors, handles, barrier>>
    BY <1>26 DEF Thaw, Advance, flags, locks
  <2>2. OneResizer' /\ OnlyOwn(t)
    BY <1>0, <1>2, <2>1, Taken DEF HoldsInv, Types, OneResizer, OnlyOwn, Work
  <2>3. Fits(t, pc[t] + 1)
    BY <1>0, <1>2, <2>1, Through, Taken DEF Fits
  <2> QED BY <1>0, <2>1, <2>2, <2>3, MoveHolds
<1>27. CASE StartHandle(t)
  <2>1. UNCHANGED <<resizing, writers, freezers, ilock, donors, barrier, pc, cmd>>
        /\ handles' = handles \cup {t} /\ Step(t) \in Work
    BY <1>27 DEF StartHandle, Due, flags, call
  <2>2. Types' /\ OneResizer'
    BY <1>0, <2>1 DEF Types, OneResizer
  <2>3. ASSUME NEW u \in Threads PROVE Holds(u)'
    BY <1>0, <2>1 DEF HoldsInv, Holds, Inside, Rows, Step
  <2> QED BY <2>2, <2>3 DEF HoldsInv
<1>28. CASE StopHandle(t)
  <2>1. /\ Step(t) \in Work /\ Moves(t, pc[t] + 1) /\ handles' = handles \ {t}
        /\ UNCHANGED <<resizing, writers, freezers, ilock, donors, barrier>>
    BY <1>0, <1>28 DEF StopHandle, Holds, flags
  <2>2. OneResizer' /\ OnlyOwn(t)
    BY <1>0, <2>1 DEF HoldsInv, Types, OneResizer, OnlyOwn
  <2>3. Fits(t, pc[t] + 1)
    BY <1>0, <2>1, Through DEF Fits, Work
  <2> QED BY <1>0, <2>1, <2>2, <2>3, MoveHolds
<1> QED BY <1>3, <1>4, <1>5, <1>6, <1>7, <1>8, <1>9, <1>10, <1>11, <1>12, <1>13, <1>14,
           <1>15, <1>16, <1>17, <1>18, <1>19, <1>20, <1>21, <1>22, <1>23, <1>24, <1>25,
           <1>26, <1>27, <1>28 DEF Locked, Free

LEMMA NextHolds == HoldsInv /\ [Next]_vars => HoldsInv'
<1> SUFFICES ASSUME HoldsInv, [Next]_vars PROVE HoldsInv'
  OBVIOUS
<1>1. CASE Commit \/ CommitFails \/ RemountReadonly \/ UNCHANGED vars
  <2>1. UNCHANGED <<resizing, writers, freezers, ilock, donors, handles, barrier, pc, cmd>>
    BY <1>1 DEF Commit, CommitFails, RemountReadonly, vars, flags, locks, call
  <2> QED BY <2>1 DEF HoldsInv, Types, OneResizer, Holds, At, Inside, Rows, Step
<1> QED BY <1>1, CallHolds, StepHolds DEF Next

LEMMA HoldsAlways == Spec => []HoldsInv
BY InitHolds, NextHolds, PTL DEF Spec

(* Whichever exit a call takes, whatever the others do meanwhile, it       *)
(* leaves no flag set, no lock, barrier or freeze behind, and no reference.*)
THEOREM ExitsRelease == Spec => []Released
<1>1. HoldsInv => Released
  <2> SUFFICES ASSUME HoldsInv, NEW t \in Threads, Finished(t)
               PROVE  /\ t \notin resizing \cup writers \cup freezers \cup donors \cup handles
                      /\ t \notin {ilock, barrier}
    BY DEF Released
  <2>1. cmd[t] \in DOMAIN Handler /\ pc[t] = Len(Handler[cmd[t]]) + 1
    BY AllSound DEF HoldsInv, Types, Finished, Rows, Sound
  <2>2. pc[t] \notin Held(cmd[t])
    BY <2>1, NothingAtEnds, AllSound DEF Sound
  <2>3. t \notin handles
    <3>1. Rows(t) \in Nat /\ pc[t] = Rows(t) + 1
      BY <2>1, AllSound DEF Sound, Rows
    <3> QED BY <3>1 DEF HoldsInv, Holds, At, Inside
  <2> QED BY <2>2, <2>3 DEF HoldsInv, Holds, Held
<1> QED BY <1>1, HoldsAlways, PTL


-----------------------------------------------------------------------------
(* One call at a time moves                                                *)

Acts(t) == Locked(t) \/ Free(t) \/ WorkFails(t)

(* What a step of t's own does to its position.                            *)
LEMMA OwnStep ==
  ASSUME HoldsInv, NEW t \in Threads, Acts(t)
  PROVE  /\ Inside(t) /\ cmd' = cmd
         /\ \A u \in Threads \ {t} : pc'[u] = pc[u]
         /\ \/ StartHandle(t) /\ pc' = pc
            \/ ~StartHandle(t) /\ pc' \in [Threads -> Nat] /\ pc'[t] \in {pc[t] + 1, After(t)}
<1>1. Types /\ Holds(t) /\ Inside(t)
  BY DEF Acts, HoldsInv, Holds, At, Locked, Free, WorkFails, Check, Begin, End, Want, Drop,
     GetDonor, PutDonor, LockInode, UnlockInode, Skip, Due, StartHandle, StopHandle,
     LockUpdates, Flush, UnlockUpdates, Lazy, Writable, Alive, Freeze, Drain,
     SetShutdown, Thaw, ForceCommit, AbortJournal, ClearDiscard
<1>2. pc \in [Threads -> Nat] /\ pc[t] + 1 \in Nat /\ After(t) \in Nat
  BY <1>1, AtRow DEF Types
<1>3. /\ cmd' = cmd
      /\ \/ StartHandle(t) /\ pc' = pc
         \/ pc' = [pc EXCEPT ![t] = pc[t] + 1]
         \/ pc' = [pc EXCEPT ![t] = After(t)]
  BY DEF Acts, Locked, Free, WorkFails, Check, Begin, End, Want, Drop,
     GetDonor, PutDonor, LockInode, UnlockInode, Skip, StartHandle, StopHandle,
     LockUpdates, Flush, UnlockUpdates, Lazy, Writable, Alive, Freeze, Drain,
     SetShutdown, Thaw, ForceCommit, AbortJournal, ClearDiscard,
     Advance, Fail, Leave, call
<1>4. StartHandle(t) => pc' = pc
  BY DEF StartHandle, call
<1> QED BY <1>1, <1>2, <1>3, <1>4

(* The rows that the invariants single out, and the actions that are       *)
(* taken there.                                                            *)
LEMMA ActAt ==
  ASSUME HoldsInv, NEW t \in Threads, Acts(t)
  PROVE  /\ Step(t) = "drain" => Drain(t)
         /\ Step(t) = "setflag" => SetShutdown(t)
         /\ Step(t) = "commit" => ForceCommit(t)
         /\ Step(t) = "abort" => AbortJournal(t)
         /\ Step(t) = "nodiscard" => ClearDiscard(t)
         /\ Step(t) = "flush" => Flush(t)
         /\ Step(t) = "want" => Want(t)
<1>1. t \in handles => Step(t) \in Work
  BY DEF HoldsInv, Holds, At
<1> QED BY <1>1 DEF Acts, At, Locked, Free, WorkFails, Check, Begin, End, Want, Drop,
     GetDonor, PutDonor, LockInode, UnlockInode, Skip, Due, StartHandle, StopHandle,
     LockUpdates, Flush, UnlockUpdates, Lazy, Writable, Alive, Freeze, Drain,
     SetShutdown, Thaw, ForceCommit, AbortJournal, ClearDiscard, Work

LEMMA OrderAt ==
  ASSUME HoldsInv, NEW t \in Threads, Inside(t)
  PROVE  Order(cmd[t], pc[t])
BY AtRow, AllSound DEF HoldsInv, Sound

(* A thread moves by its own step, or by making its call.                  *)
LEMMA WhoMoves ==
  ASSUME HoldsInv, [Next]_vars, NEW t \in Threads
  PROVE  /\ cmd' = cmd
         /\ pc'[t] = pc[t] \/ (Call(t) /\ pc[t] = 0 /\ pc'[t] = 1) \/ Acts(t)
<1>1. ASSUME NEW u \in Threads, Call(u) PROVE
         cmd' = cmd /\ (pc'[t] = pc[t] \/ (Call(t) /\ pc[t] = 0 /\ pc'[t] = 1))
  BY <1>1 DEF Call, HoldsInv, Types
<1>2. ASSUME NEW u \in Threads, Acts(u) PROVE cmd' = cmd /\ (pc'[t] = pc[t] \/ Acts(t))
  BY <1>2, OwnStep
<1>3. CASE Commit \/ CommitFails \/ RemountReadonly \/ UNCHANGED vars
  BY <1>3 DEF Commit, CommitFails, RemountReadonly, vars, call
<1> QED BY <1>1, <1>2, <1>3 DEF Next, Acts

(* What a thread holds changes only with the thread's own position; a      *)
(* handle it opens is its own, and comes without a move.                   *)
OwnersKeep == \A u \in Threads : pc'[u] = pc[u] =>
  /\ u \in resizing' <=> u \in resizing
  /\ u \in writers'  <=> u \in writers
  /\ barrier' = u <=> barrier = u
  /\ ilock' = u <=> ilock = u
  /\ u \in donors'   <=> u \in donors
  /\ u \in freezers' <=> u \in freezers
  /\ u \in handles => u \in handles'

(* No call loses what it holds to another, nor gains anything by another's *)
(* step: clear_bit_unlock clears EXT4_FLAGS_RESIZING and                   *)
(* jbd2_journal_unlock_updates lifts the barrier without a look at who set *)
(* them, and yet, on every exit of every handler and whatever order the    *)
(* calls come in, each is given back by the call that took it.             *)
THEOREM NobodyReleasesForAnother == Spec => [][OwnersKeep]_vars
<1>1. HoldsInv /\ HoldsInv' /\ [Next]_vars => OwnersKeep
  <2> SUFFICES ASSUME HoldsInv, HoldsInv', [Next]_vars,
                      NEW u \in Threads, pc'[u] = pc[u]
               PROVE  /\ u \in resizing' <=> u \in resizing
                      /\ u \in writers'  <=> u \in writers
                      /\ barrier' = u <=> barrier = u
                      /\ ilock' = u <=> ilock = u
                      /\ u \in donors'   <=> u \in donors
                      /\ u \in freezers' <=> u \in freezers
                      /\ u \in handles => u \in handles'
    BY DEF OwnersKeep
  <2>1. cmd' = cmd
    BY WhoMoves
  <2>2. Holds(u) /\ Holds(u)'
    BY DEF HoldsInv
  <2>3. u \in handles => u \in handles'
    <3>1. ASSUME NEW t \in Threads, Acts(t) PROVE u \in handles => u \in handles'
      <4>1. CASE StopHandle(t)
        <5>1. t # u
          BY <4>1 DEF StopHandle, HoldsInv, Types
        <5> QED BY <4>1, <5>1 DEF StopHandle
      <4>2. CASE StartHandle(t)
        BY <4>2 DEF StartHandle
      <4> QED BY <3>1, <4>1, <4>2
              DEF Acts, Locked, Free, WorkFails, Check, Begin, End, Want, Drop,
                  GetDonor, PutDonor, LockInode, UnlockInode, Skip, LockUpdates,
                  Flush, UnlockUpdates, Lazy, Writable, Alive, Freeze, Drain,
                  SetShutdown, Thaw, ForceCommit, AbortJournal, ClearDiscard, locks
    <3>2. ASSUME NEW t \in Threads, Call(t) PROVE handles' = handles
      BY <3>2 DEF Call, locks
    <3>3. CASE Commit \/ CommitFails \/ RemountReadonly \/ UNCHANGED vars
      BY <3>3 DEF Commit, CommitFails, RemountReadonly, vars, locks
    <3> QED BY <3>1, <3>2, <3>3 DEF Next, Acts
  <2> QED BY <2>1, <2>2, <2>3 DEF Holds
<1> QED BY <1>1, HoldsAlways, PTL DEF Spec

(* Two calls are never both between begin and end of a resize, both        *)
(* between the raising and the lifting of the barrier, or both inside the  *)
(* inode lock: the tables of the handlers and the tests of the bits and    *)
(* locks agree, on error paths too.                                        *)
OneInside == \A t, u \in Threads :
  \/ t = u
  \/ /\ pc[t] \notin FlagAt(cmd[t]) \/ pc[u] \notin FlagAt(cmd[u])
     /\ pc[t] \notin BarrierAt(cmd[t]) \/ pc[u] \notin BarrierAt(cmd[u])
     /\ pc[t] \notin LockAt(cmd[t]) \/ pc[u] \notin LockAt(cmd[u])

THEOREM CriticalSectionsExclude == Spec => []OneInside
<1>1. HoldsInv => OneInside
  BY DEF HoldsInv, Holds, OneResizer, OneInside
<1> QED BY <1>1, HoldsAlways, PTL

-----------------------------------------------------------------------------
(* Nothing guarded is left to write                                        *)

Calm == aborted # NoThread \/ ("guarded" \notin txn /\ handles \cap writers = {})

(* A step adds to what waits to be written only when it closes a handle,   *)
(* and no handle is opened and no write access taken for it meanwhile.     *)
LEMMA CalmKept ==
  ASSUME HoldsInv, Calm, [Next]_vars, shutdown # {} \/ writers = {}
  PROVE  Calm'
<1>1. ASSUME NEW t \in Threads, Call(t) PROVE Calm'
  BY <1>1 DEF Call, Calm, locks
<1>2. CASE Commit \/ CommitFails \/ RemountReadonly \/ UNCHANGED vars
  BY <1>2 DEF Commit, CommitFails, RemountReadonly, Persist, Calm, NoThread,
              vars, flags, locks, store
<1>3. ASSUME NEW t \in Threads, Acts(t) PROVE Calm'
  <2>1. CASE StartHandle(t)
    BY <2>1 DEF StartHandle, Due, MayStart, Calm, store
  <2>2. CASE StopHandle(t)
    BY <2>2 DEF StopHandle, Guarded, Calm
  <2>3. CASE Want(t)
    <3>1. t \notin handles
      BY <2>3 DEF Want, At, HoldsInv, Holds, Work
    <3> QED BY <2>3, <3>1 DEF Want, Calm, store
  <2>4. CASE Flush(t)
    BY <2>4 DEF Flush, Persist, Calm, locks, store
  <2>5. CASE Drain(t)
    BY <2>5 DEF Drain, Persist, Calm, store
  <2>6. CASE ForceCommit(t)
    BY <2>6 DEF ForceCommit, Persist, Calm, locks, store
  <2>7. CASE AbortJournal(t)
    <3>1. t # NoThread
      BY NamesAssumption
    <3> QED BY <2>7, <3>1 DEF AbortJournal, Calm, locks
  <2>8. CASE Drop(t)
    BY <2>8 DEF Drop, Calm, store
  <2> QED BY <1>3, <2>1, <2>2, <2>3, <2>4, <2>5, <2>6, <2>7, <2>8
          DEF Acts, Locked, Free, WorkFails, Check, Begin, End,
     GetDonor, PutDonor, LockInode, UnlockInode, Skip, LockUpdates, UnlockUpdates,
     Lazy, Writable, Alive, Freeze, SetShutdown, Thaw, ClearDiscard, Calm, locks, store
<1> QED BY <1>1, <1>2, <1>3 DEF Next, Acts

(* A device that is frozen has no writers and is calm.                     *)
FrozenCalm == \A t \in freezers : pc[t] # 4 => writers = {} /\ Calm

(* A call that has set the shutdown flag goes on to its end: it aborts the *)
(* journal, or it set the flag while the device was frozen.                *)
Stays(t) ==
  /\ cmd[t] \in Shutdowns /\ pc[t] > SetAt(cmd[t])
  /\ cmd[t] = "SHUTDOWN_DEFAULT" => Calm
  /\ cmd[t] = "SHUTDOWN_LOGFLUSH" /\ pc[t] > 5 => aborted # NoThread
  /\ cmd[t] = "SHUTDOWN_NOLOGFLUSH" /\ pc[t] > 4 => aborted # NoThread
  /\ pc[t] > Len(Handler[cmd[t]]) => ~discard
QuietInv ==
  /\ FrozenCalm
  /\ shutdown \subseteq Threads /\ \A t \in shutdown : Stays(t)

LEMMA FrozenCalmKept ==
  ASSUME HoldsInv, FrozenCalm, [Next]_vars
  PROVE  FrozenCalm'
<1> SUFFICES ASSUME NEW t \in freezers', pc'[t] # 4 PROVE writers' = {} /\ Calm'
  BY DEF FrozenCalm
<1>1. HoldsInv' /\ t \in Threads
  BY NextHolds DEF HoldsInv, Types
<1>2. cmd' = cmd /\ pc'[t] \in FrozenAt(cmd[t])
  BY <1>1, WhoMoves DEF HoldsInv, Holds
<1>3. cmd[t] = "SHUTDOWN_DEFAULT" /\ pc'[t] \in {5, 6}
  BY <1>2 DEF FrozenAt
<1>4. CASE t \in freezers /\ pc[t] # 4
  <2>1. writers = {} /\ Calm
    BY <1>4 DEF FrozenCalm
  <2>2. writers' = {}
    <3>1. ~MayWrite
      BY <1>4 DEF MayWrite
    <3> QED BY <2>1, <3>1 DEF Next, Call, Locked, Free, WorkFails, Check, Begin, End,
     Want, Drop, GetDonor, PutDonor, LockInode, UnlockInode, Skip, StartHandle, StopHandle,
     LockUpdates, Flush, UnlockUpdates, Lazy, Writable, Alive, Freeze, Drain,
     SetShutdown, Thaw, ForceCommit, AbortJournal, ClearDiscard, Commit, CommitFails,
     RemountReadonly, vars, locks
  <2> QED BY <2>1, <2>2, CalmKept
<1>5. CASE ~(t \in freezers /\ pc[t] # 4)
  <2>1. t \in freezers <=> pc[t] \in 4 .. 6
    BY <1>1, <1>3 DEF HoldsInv, Holds, FrozenAt
  <2>2. pc[t] \in Nat /\ pc'[t] # pc[t] /\ pc'[t] # 1
    BY <1>1, <1>3, <1>5, <2>1 DEF HoldsInv, Types
  <2>3. Acts(t) /\ Inside(t)
    BY <1>1, <2>2, WhoMoves, OwnStep
  <2>4. Row("SHUTDOWN_DEFAULT", pc[t]) /\ After(t) = AfterRow("SHUTDOWN_DEFAULT", pc[t])
    BY <1>1, <1>3, <2>3, AtRow DEF HoldsInv
  <2>5. pc'[t] \in {pc[t] + 1, After(t)}
    BY <1>1, <2>2, <2>3, OwnStep
  <2>6. pc[t] = 4
    BY <1>1, <1>3, <1>5, <2>1, <2>2, <2>4, <2>5, <2>3, ShutdownDefaultRows
       DEF AfterRow, Inside, Rows
  <2>7. Step(t) = "drain"
    BY <1>3, <2>6, ShutdownDefaultRows DEF Step
  <2>8. Drain(t)
    BY <1>1, <2>3, <2>7, ActAt
  <2> QED BY <2>8 DEF Drain, Persist, Calm, store
<1> QED BY <1>4, <1>5

LEMMA StaysKept ==
  ASSUME HoldsInv, QuietInv, [Next]_vars, NEW t \in shutdown'
  PROVE  t \in Threads /\ Stays(t)'
<1>1. /\ HoldsInv' /\ cmd' = cmd
      /\ aborted # NoThread => aborted' # NoThread
      /\ ~discard => ~discard'
  <2>1. (aborted # NoThread => aborted' # NoThread) /\ (~discard => ~discard')
    BY DEF Next, Call, Locked, Free, WorkFails, Check, Begin, End, NoThread,
     Want, Drop, GetDonor, PutDonor, LockInode, UnlockInode, Skip, StartHandle, StopHandle,
     LockUpdates, Flush, UnlockUpdates, Lazy, Writable, Alive, Freeze, Drain, Persist,
     SetShutdown, Thaw, ForceCommit, AbortJournal, ClearDiscard, Commit, CommitFails,
     RemountReadonly, vars, flags, store
  <2> QED BY <2>1, NextHolds, WhoMoves DEF HoldsInv, Types, vars, call, Next
<1>2. t \in shutdown \/ (t \in Threads /\ SetShutdown(t) /\ Acts(t))
  BY DEF Next, Acts, Call, Locked, Free, WorkFails, Check, Begin, End,
     Want, Drop, GetDonor, PutDonor, LockInode, UnlockInode, Skip, StartHandle, StopHandle,
     LockUpdates, Flush, UnlockUpdates, Lazy, Writable, Alive, Freeze, Drain,
     SetShutdown, Thaw, ForceCommit, AbortJournal, ClearDiscard, Commit, CommitFails,
     RemountReadonly, vars, flags
<1>3. CASE t \in shutdown
  <2>1. t \in Threads /\ Stays(t) /\ pc[t] \in Nat /\ SetAt(cmd[t]) \in Nat \ {0}
    <3>1. t \in Threads /\ Stays(t)
      BY <1>3 DEF QuietInv
    <3> QED BY <3>1 DEF HoldsInv, Types, SetAt, Stays, Shutdowns
  <2>2. CASE pc'[t] = pc[t]
    BY <1>1, <1>3, <2>1, <2>2, CalmKept DEF Stays
  <2>3. CASE pc'[t] # pc[t]
    <3>1. Acts(t) /\ Inside(t) /\ pc'[t] \in {pc[t] + 1, After(t)}
      BY <2>1, <2>3, WhoMoves, OwnStep DEF Stays
    <3>2. /\ Order(cmd[t], pc[t]) /\ Row(cmd[t], pc[t])
          /\ After(t) = AfterRow(cmd[t], pc[t])
          /\ pc[t] \in 1 .. Len(Handler[cmd[t]]) /\ Len(Handler[cmd[t]]) \in Nat
      BY <2>1, <3>1, OrderAt, AtRow DEF HoldsInv
    <3>3. pc'[t] = pc[t] + 1
      <4>1. Handler[cmd[t]][pc[t]][2] = "go"
        BY <2>1, <3>2 DEF Stays, Order
      <4> QED BY <3>1, <3>2, <4>1 DEF AfterRow
    <3>4. pc[t] = Len(Handler[cmd[t]]) => ~discard'
      BY <2>1, <3>1, <3>2, ActAt DEF Stays, Order, Step, ClearDiscard
    <3>5. Step(t) = "abort" => aborted' # NoThread
      BY <2>1, <3>1, ActAt, NamesAssumption DEF AbortJournal
    <3>6. Calm => Calm'
      BY <1>3, CalmKept
    <3> QED BY <1>1, <2>1, <3>2, <3>3, <3>4, <3>5, <3>6 DEF Stays, Order, Step
  <2> QED BY <2>1, <2>2, <2>3
<1>4. CASE t \in Threads /\ SetShutdown(t) /\ Acts(t)
  <2>1. /\ Inside(t) /\ Step(t) = "setflag" /\ pc'[t] = pc[t] + 1
        /\ aborted' = aborted /\ txn' = txn /\ handles' = handles /\ writers' = writers
    BY <1>4 DEF SetShutdown, At, Advance, store, locks, HoldsInv, Types
  <2>2. /\ Order(cmd[t], pc[t]) /\ pc[t] \in 1 .. Len(Handler[cmd[t]])
        /\ Len(Handler[cmd[t]]) \in Nat
    BY <1>4, <2>1, OrderAt, AtRow DEF HoldsInv
  <2>3. pc[t] = SetAt(cmd[t]) /\ cmd[t] \in Shutdowns
    BY <2>1, <2>2 DEF Order, Step, SetAt, Shutdowns
  <2>4. pc[t] # Len(Handler[cmd[t]])
    BY <2>1, <2>2, <2>3 DEF Order, Step
  <2>5. ASSUME cmd[t] = "SHUTDOWN_DEFAULT" PROVE Calm
    <3>1. t \in freezers /\ pc[t] = 5
      BY <1>4, <2>3, <2>5 DEF HoldsInv, Holds, FrozenAt, SetAt
    <3> QED BY <3>1 DEF QuietInv, FrozenCalm
  <2> QED BY <1>1, <1>4, <2>1, <2>2, <2>3, <2>4, <2>5 DEF Stays, SetAt, Shutdowns, Calm
<1> QED BY <1>2, <1>3, <1>4

LEMMA QuietAlways == Spec => []QuietInv
<1>1. Init => QuietInv
  BY DEF Init, QuietInv, FrozenCalm
<1>2. HoldsInv /\ QuietInv /\ [Next]_vars => QuietInv'
  BY FrozenCalmKept, StaysKept DEF QuietInv
<1> QED BY <1>1, <1>2, HoldsAlways, PTL DEF Spec

(* While the device is frozen, and once a call that shut the file system   *)
(* down has returned, no guarded change waits to be written and none is    *)
(* under way, unless the journal was aborted; a frozen device has no       *)
(* writers, and after the shutdown nothing is discarded.                   *)
THEOREM FrozenOrShutIsQuiet == Spec => []Quiet
<1>1. HoldsInv /\ QuietInv => Quiet
  <2> SUFFICES ASSUME HoldsInv, QuietInv PROVE Quiet
    OBVIOUS
  <2>1. Frozen => writers = {} /\ Calm
    <3> SUFFICES ASSUME NEW t \in freezers, ~At(t, {"drain"}) PROVE pc[t] # 4
      BY DEF Frozen, QuietInv, FrozenCalm
    <3>1. t \in Threads /\ cmd[t] = "SHUTDOWN_DEFAULT"
      <4>1. t \in Threads /\ pc[t] \in FrozenAt(cmd[t])
        BY DEF HoldsInv, Types, Holds
      <4> QED BY <4>1 DEF FrozenAt
    <3> QED BY <3>1, ShutdownDefaultRows DEF At, Inside, Rows, Step
  <2>2. ShutDown => Calm /\ ~discard
    <3> SUFFICES ASSUME NEW t \in shutdown, Finished(t) PROVE Calm /\ ~discard
      BY DEF ShutDown
    <3>1. /\ t \in Threads /\ pc[t] \in Nat
          /\ Stays(t) /\ pc[t] > Len(Handler[cmd[t]])
      BY DEF QuietInv, Finished, Rows, HoldsInv, Types
    <3>2. ~discard
      BY <3>1 DEF Stays
    <3>3. cmd[t] = "SHUTDOWN_LOGFLUSH" => pc[t] > 5
      BY <3>1, ShutdownLogflushRows
    <3>4. cmd[t] = "SHUTDOWN_NOLOGFLUSH" => pc[t] > 4
      BY <3>1, ShutdownNologflushRows
    <3>5. Calm
      BY <3>1, <3>3, <3>4 DEF Stays, Shutdowns, Calm
    <3> QED BY <3>2, <3>5
  <2> QED BY <2>1, <2>2 DEF Quiet, Calm
<1> QED BY <1>1, HoldsAlways, QuietAlways, PTL

-----------------------------------------------------------------------------
(* Success is durable                                                      *)

Errors == {"ok", "refused", "busy", "rofs", "badf", "failed", "nomem"}

(* What a step of another thread, or none, leaves alone of t.              *)
LEMMA OthersKeep ==
  ASSUME HoldsInv, err \in [Threads -> Errors], [Next]_vars,
         NEW t \in Threads, ~Acts(t), ~Call(t)
  PROVE  /\ pc'[t] = pc[t] /\ err'[t] = err[t]
         /\ t \in shutdown' => t \in shutdown
         /\ aborted \notin {NoThread, t} => aborted' \notin {NoThread, t}
         /\ aborted' = t => aborted = t
         /\ t \in owe' => t \in owe
<1>1. ASSUME NEW u \in Threads, u # t, Call(u)
      PROVE  /\ err' = err /\ shutdown' = shutdown /\ aborted' = aborted
             /\ t \in owe' => t \in owe
  BY <1>1 DEF Call, flags
<1>2. ASSUME NEW u \in Threads, u # t, Acts(u)
      PROVE  /\ err'[t] = err[t] /\ shutdown' \in {shutdown, shutdown \cup {u}}
             /\ aborted' = aborted \/ (aborted = NoThread /\ aborted' = u)
             /\ t \in owe' => t \in owe
  BY <1>2 DEF Acts, Locked, Free, WorkFails, Check, Begin, End, Want, Drop,
     GetDonor, PutDonor, LockInode, UnlockInode, Skip, StartHandle, StopHandle,
     LockUpdates, Flush, UnlockUpdates, Lazy, Writable, Alive, Freeze, Drain, Persist,
     SetShutdown, Thaw, ForceCommit, AbortJournal, ClearDiscard,
     Advance, Fail, Leave, flags, store, call
<1>3. CASE Commit \/ CommitFails \/ RemountReadonly \/ UNCHANGED vars
  <2>1. t # "error" /\ t # NoThread
    BY NamesAssumption
  <2> QED BY <1>3, <2>1 DEF Commit, CommitFails, RemountReadonly, Persist, NoThread,
                            vars, flags, call, store
<1>4. pc'[t] = pc[t]
  BY WhoMoves
<1>5. t # NoThread /\ \A u \in Threads : u # NoThread
  BY NamesAssumption
<1> QED BY <1>1, <1>2, <1>3, <1>4, <1>5 DEF Next, Acts

(* A step of t's own goes on to the next row, or fails, or is one of the   *)
(* two that return early without an error; an error stays.                 *)
LEMMA OwnErr ==
  ASSUME HoldsInv, err \in [Threads -> Errors], NEW t \in Threads, Acts(t)
  PROVE  /\ err' \in [Threads -> Errors] /\ (err[t] # "ok" => err'[t] = err[t])
         /\ \/ StartHandle(t)
            \/ pc'[t] = pc[t] + 1
            \/ pc'[t] = After(t) /\ err'[t] # "ok"
            \/ pc'[t] = After(t) /\ Step(t) \in {"writable", "alive"}
<1>1. pc \in [Threads -> Nat]
  BY DEF HoldsInv, Types
<1>2. ASSUME NEW e \in Errors \ {"ok"}, Fail(t, e)
      PROVE  /\ err' \in [Threads -> Errors] /\ (err[t] # "ok" => err'[t] = err[t])
             /\ pc'[t] = After(t) /\ err'[t] # "ok"
  BY <1>1, <1>2 DEF Fail
<1>3. CASE Advance(t)
  BY <1>1, <1>3 DEF Advance
<1>4. CASE Writable(t) \/ Alive(t)
  BY <1>1, <1>4 DEF Writable, Alive, Leave, Advance, At
<1>5. CASE StopHandle(t)
  BY <1>1, <1>5 DEF StopHandle, Errors
<1>6. CASE StartHandle(t)
  BY <1>6 DEF StartHandle, call
<1>7. \/ StartHandle(t) \/ StopHandle(t) \/ Advance(t) \/ Writable(t) \/ Alive(t)
      \/ \E e \in Errors \ {"ok"} : Fail(t, e)
  BY DEF Acts, Locked, Free, WorkFails, Check, Begin, End, Want, Drop,
     GetDonor, PutDonor, LockInode, UnlockInode, Skip,
     LockUpdates, Flush, UnlockUpdates, Lazy, Freeze, Drain,
     SetShutdown, Thaw, ForceCommit, AbortJournal, ClearDiscard, Errors
<1> QED BY <1>2, <1>3, <1>4, <1>5, <1>6, <1>7

(* A call that is still owed something: the flush, or the commit, is yet   *)
(* to come, or it was missed and the call tells so, or somebody else       *)
(* aborted the journal, or somebody else has shut down.                    *)
Owes(t) ==
  /\ cmd[t] \in Flushing /\ pc[t] # 0
  /\ FlushAt(cmd[t]) # 0 => pc[t] <= FlushAt(cmd[t]) \/ err[t] # "ok"
  /\ cmd[t] = "SHUTDOWN_DEFAULT" => pc[t] <= 4 \/ (pc[t] = 8 /\ t \notin shutdown)
  /\ cmd[t] = "SHUTDOWN_LOGFLUSH" =>
       pc[t] <= 4 \/ (pc[t] = 7 /\ t \notin shutdown) \/ aborted \notin {NoThread, t}
DurableInv ==
  /\ err \in [Threads -> Errors]
  /\ owe \subseteq Threads /\ \A t \in owe : Owes(t)
  /\ \A t \in Threads : cmd[t] = "SHUTDOWN_LOGFLUSH" /\ aborted = t => pc[t] > 5

LEMMA ErrTyped ==
  ASSUME HoldsInv, err \in [Threads -> Errors], [Next]_vars
  PROVE  err' \in [Threads -> Errors]
BY OwnErr DEF Next, Acts, Call, Commit, CommitFails, RemountReadonly, vars, call

(* What a call owes when it has just been made, or has just closed a       *)
(* handle: its flush is still ahead.                                       *)
LEMMA NewlyOwes ==
  ASSUME HoldsInv, NEW t \in Threads, t \in owe', t \notin owe, Call(t) \/ Acts(t)
  PROVE  Owes(t)'
<1>1. CASE Call(t)
  <2>1. pc'[t] = 1 /\ cmd' = cmd /\ cmd[t] \in Flushing
    BY <1>1 DEF Call, HoldsInv, Types
  <2> QED BY <2>1 DEF Owes, FlushAt, Flushing
<1>2. CASE Acts(t)
  <2>1. StopHandle(t) /\ cmd[t] \in Flushing /\ Step(t) # "overhead"
    BY <1>2 DEF Acts, Locked, Free, WorkFails, Check, Begin, End, Want, Drop,
     GetDonor, PutDonor, LockInode, UnlockInode, Skip, StartHandle, StopHandle,
     LockUpdates, Flush, UnlockUpdates, Lazy, Writable, Alive, Freeze, Drain, Persist,
     SetShutdown, Thaw, ForceCommit, AbortJournal, ClearDiscard, store
  <2>2. /\ Step(t) \in {"work", "grow"} /\ Inside(t)
        /\ pc'[t] = pc[t] + 1 /\ pc[t] \in Nat /\ cmd' = cmd
    BY <2>1 DEF StopHandle, HoldsInv, Types, Holds, At, Work
  <2>3. Order(cmd[t], pc[t])
    BY <2>2, OrderAt
  <2>4. FlushAt(cmd[t]) \in Nat \ {0} /\ cmd[t] \notin Shutdowns
    <3>1. cmd[t] \notin Shutdowns
      BY <2>2, <2>3 DEF Order, Step, Work
    <3> QED BY <2>1, <3>1 DEF FlushAt, Flushing, Shutdowns
  <2>5. pc[t] < FlushAt(cmd[t])
    BY <2>2, <2>3, <2>4 DEF Order, Step
  <2> QED BY <2>1, <2>2, <2>4, <2>5 DEF Owes, Shutdowns
<1> QED BY <1>1, <1>2

(* A step of its own, of a call that stays owed something.                 *)
LEMMA StillOwes ==
  ASSUME HoldsInv, QuietInv, DurableInv, NEW t \in owe, t \in owe', Acts(t)
  PROVE  Owes(t)'
<1>1. /\ t \in Threads /\ Owes(t) /\ Inside(t) /\ cmd' = cmd
      /\ pc[t] \in Nat /\ err \in [Threads -> Errors]
  BY OwnStep DEF DurableInv, HoldsInv, Types
<1>2. /\ Order(cmd[t], pc[t]) /\ After(t) = AfterRow(cmd[t], pc[t])
      /\ pc[t] \in 1 .. Len(Handler[cmd[t]])
      /\ After(t) \in Nat /\ After(t) <= Len(Handler[cmd[t]]) + 1
  BY <1>1, OrderAt, AtRow DEF HoldsInv
<1>3. CASE StartHandle(t)
  BY <1>1, <1>3 DEF StartHandle, Owes, flags, store, call
<1> SUFFICES ASSUME ~StartHandle(t) PROVE Owes(t)'
  BY <1>3
<1>4. /\ pc'[t] \in {pc[t] + 1, After(t)} /\ (err[t] # "ok" => err'[t] # "ok")
      /\ \/ pc'[t] = pc[t] + 1
         \/ err'[t] # "ok"
         \/ Step(t) \in {"writable", "alive"}
  BY <1>1, OwnStep, OwnErr
<1>5. CASE FlushAt(cmd[t]) # 0
  <2>1. FlushAt(cmd[t]) \in Nat /\ cmd[t] \notin Shutdowns
    BY <1>5 DEF FlushAt, Shutdowns
  <2>2. pc'[t] <= FlushAt(cmd[t]) \/ err'[t] # "ok"
    <3>1. CASE pc[t] = FlushAt(cmd[t])
      <4>1. Flush(t)
        BY <1>1, <1>2, <1>5, <3>1, ActAt DEF Order, Step
      <4>2. Fail(t, "failed")
        BY <4>1 DEF Flush, Persist
      <4> QED BY <1>1, <4>2 DEF Fail
    <3>2. CASE pc[t] < FlushAt(cmd[t])
      <4>1. Step(t) \notin {"writable", "alive"}
        BY <1>2, <1>5, <3>2 DEF Order, Step
      <4> QED BY <1>1, <1>4, <2>1, <3>2, <4>1
    <3>3. CASE pc[t] > FlushAt(cmd[t])
      BY <1>1, <1>4, <1>5, <2>1, <3>3 DEF Owes
    <3> QED BY <1>1, <2>1, <3>1, <3>2, <3>3
  <2>3. pc'[t] # 0
    BY <1>1, <1>2, <1>4, AtRow DEF HoldsInv, Row
  <2> QED BY <1>1, <2>1, <2>2, <2>3 DEF Owes, Shutdowns
<1>6. CASE cmd[t] = "SHUTDOWN_DEFAULT"
  <2>1. pc[t] <= 4 /\ t \notin shutdown /\ Step(t) # "setflag"
    BY <1>1, <1>2, <1>6, ShutdownDefaultRows
       DEF Owes, QuietInv, Stays, SetAt, Step, Inside, Rows
  <2>2. ~SetShutdown(t)
    BY <2>1 DEF SetShutdown, At
  <2>3. shutdown' = shutdown
    BY <2>2 DEF Acts, Locked, Free, WorkFails, Check, Begin, End, Want, Drop,
     GetDonor, PutDonor, LockInode, UnlockInode, Skip, StartHandle, StopHandle,
     LockUpdates, Flush, UnlockUpdates, Lazy, Writable, Alive, Freeze, Drain,
     Thaw, ForceCommit, AbortJournal, ClearDiscard, flags
  <2>4. CASE pc[t] = 4
    <3>1. Drain(t)
      BY <1>1, <1>6, <2>4, ActAt, ShutdownDefaultRows DEF Step
    <3>2. Fail(t, "failed")
      BY <3>1 DEF Drain, Persist
    <3>3. pc'[t] = 8
      <4>1. AfterRow("SHUTDOWN_DEFAULT", 4) = 8
        BY ShutdownDefaultRows DEF AfterRow
      <4>2. pc'[t] = After(t)
        BY <1>1, <3>2 DEF Fail, HoldsInv, Types
      <4> QED BY <1>2, <1>6, <2>4, <4>1, <4>2
    <3> QED BY <1>1, <1>6, <2>1, <2>3, <3>3 DEF Owes, FlushAt
  <2>5. CASE pc[t] \in 1 .. 3
    <3>1. pc'[t] \in 1 .. 4 \cup {8}
      BY <1>2, <1>4, <1>6, <2>5, ShutdownDefaultRows DEF AfterRow
    <3> QED BY <1>1, <1>6, <2>1, <2>3, <3>1 DEF Owes, FlushAt
  <2> QED BY <1>1, <1>2, <2>1, <2>4, <2>5
<1>7. CASE cmd[t] = "SHUTDOWN_LOGFLUSH"
  <2>1. pc[t] \in 1 .. 6 /\ (pc[t] <= 4 \/ aborted \notin {NoThread, t})
    BY <1>1, <1>2, <1>7, ShutdownLogflushRows DEF Owes
  <2>2. aborted # NoThread => aborted' = aborted
    BY DEF Acts, Locked, Free, WorkFails, Check, Begin, End, Want, Drop,
     GetDonor, PutDonor, LockInode, UnlockInode, Skip, StartHandle, StopHandle,
     LockUpdates, Flush, UnlockUpdates, Lazy, Writable, Alive, Freeze, Drain, Persist,
     SetShutdown, Thaw, ForceCommit, AbortJournal, ClearDiscard, store
  <2>3. CASE aborted \notin {NoThread, t}
    <3>1. pc'[t] # 0
      BY <1>1, <1>2, <1>4, AtRow DEF HoldsInv, Row
    <3> QED BY <1>1, <1>7, <2>2, <2>3, <3>1 DEF Owes, FlushAt
  <2>4. CASE pc[t] = 4 /\ aborted \in {NoThread, t}
    <3>1. ForceCommit(t)
      BY <1>1, <1>7, <2>4, ActAt, ShutdownLogflushRows DEF Step
    <3>2. aborted # NoThread
      BY <3>1 DEF ForceCommit, Persist
    <3> QED BY <1>1, <1>7, <2>4, <3>2 DEF DurableInv
  <2>5. CASE pc[t] = 3
    BY <1>1, <1>2, <1>4, <1>7, <2>5, ShutdownLogflushRows DEF Owes, FlushAt, AfterRow
  <2>6. CASE pc[t] \in 1 .. 2
    <3>1. pc'[t] \in 1 .. 4 \cup {7} /\ Step(t) # "setflag"
      BY <1>2, <1>4, <1>7, <2>6, ShutdownLogflushRows DEF AfterRow, Step
    <3>2. t \notin shutdown
      BY <1>1, <1>7, <2>6 DEF QuietInv, Stays, SetAt, Shutdowns
    <3>3. t \notin shutdown'
      BY <3>1, <3>2 DEF Acts, Locked, Free, WorkFails, Check, Begin, End, Want, Drop,
       GetDonor, PutDonor, LockInode, UnlockInode, Skip, StartHandle, StopHandle,
       LockUpdates, Flush, UnlockUpdates, Lazy, Writable, Alive, Freeze, Drain, At,
       SetShutdown, Thaw, ForceCommit, AbortJournal, ClearDiscard, flags
    <3> QED BY <1>1, <1>7, <3>1, <3>3 DEF Owes, FlushAt
  <2> QED BY <2>1, <2>3, <2>4, <2>5, <2>6
<1> QED BY <1>1, <1>5, <1>6, <1>7 DEF Owes, Flushing, FlushAt

LEMMA DurableKept ==
  ASSUME HoldsInv, QuietInv, DurableInv, [Next]_vars
  PROVE  DurableInv'
<1>1. err \in [Threads -> Errors] /\ err' \in [Threads -> Errors] /\ cmd' = cmd
  <2>1. cmd' = cmd
    BY OwnStep DEF Next, Acts, Call, Commit, CommitFails, RemountReadonly, vars, call
  <2> QED BY <2>1, ErrTyped DEF DurableInv
<1>2. owe' \subseteq Threads
  BY DEF DurableInv, Next, Call, Locked, Free, WorkFails, Check, Begin, End, Want, Drop,
     GetDonor, PutDonor, LockInode, UnlockInode, Skip, StartHandle, StopHandle,
     LockUpdates, Flush, UnlockUpdates, Lazy, Writable, Alive, Freeze, Drain, Persist,
     SetShutdown, Thaw, ForceCommit, AbortJournal, ClearDiscard, Commit, CommitFails,
     RemountReadonly, vars, store
<1>3. ASSUME NEW t \in owe' PROVE Owes(t)'
  <2>1. t \in Threads
    BY <1>2, <1>3
  <2>2. CASE Acts(t)
    BY <1>3, <2>1, <2>2, NewlyOwes, StillOwes
  <2>3. CASE Call(t)
    <3>1. t \notin owe
      BY <2>3 DEF Call, DurableInv, Owes
    <3> QED BY <1>3, <2>1, <2>3, <3>1, NewlyOwes
  <2>4. CASE ~Acts(t) /\ ~Call(t)
    <3>1. t \in owe /\ Owes(t) /\ pc'[t] = pc[t] /\ err'[t] = err[t]
          /\ (t \in shutdown' => t \in shutdown)
          /\ (aborted \notin {NoThread, t} => aborted' \notin {NoThread, t})
      BY <1>1, <1>3, <2>1, <2>4, OthersKeep DEF DurableInv
    <3> QED BY <1>1, <3>1 DEF Owes
  <2> QED BY <2>2, <2>3, <2>4
<1>4. ASSUME NEW t \in Threads, cmd[t] = "SHUTDOWN_LOGFLUSH", aborted' = t
      PROVE  pc'[t] > 5
  <2>1. pc[t] \in Nat /\ t # NoThread
    BY NamesAssumption DEF HoldsInv, Types
  <2>2. CASE ~Acts(t) /\ ~Call(t)
    BY <1>1, <1>4, <2>2, OthersKeep DEF DurableInv
  <2>3. CASE Call(t)
    BY <1>4, <2>1, <2>3 DEF Call, DurableInv
  <2>4. CASE Acts(t)
    <3>1. Inside(t) /\ pc'[t] \in {pc[t], pc[t] + 1, After(t)}
      BY <2>4, OwnStep
    <3>2. After(t) \in Nat /\ After(t) >= pc[t]
      BY <3>1, AtRow DEF HoldsInv, Row
    <3>3. CASE aborted = t
      BY <1>4, <2>1, <3>1, <3>2, <3>3 DEF DurableInv
    <3>4. CASE AbortJournal(t)
      <4>1. Order(cmd[t], pc[t]) /\ Step(t) = "abort" /\ pc'[t] = pc[t] + 1
        BY <3>1, <3>4, OrderAt DEF AbortJournal, At, Advance, HoldsInv, Types
      <4> QED BY <1>4, <4>1 DEF Order, Step
    <3>5. aborted = t \/ AbortJournal(t)
      BY <1>4, <2>1, <2>4 DEF Acts, Locked, Free, WorkFails, Check, Begin, End, Want, Drop,
       GetDonor, PutDonor, LockInode, UnlockInode, Skip, StartHandle, StopHandle,
       LockUpdates, Flush, UnlockUpdates, Lazy, Writable, Alive, Freeze, Drain, Persist,
       SetShutdown, Thaw, ForceCommit, ClearDiscard, store
    <3> QED BY <3>3, <3>4, <3>5
  <2> QED BY <2>2, <2>3, <2>4
<1> QED BY <1>1, <1>2, <1>3, <1>4 DEF DurableInv

LEMMA DurableAlways == Spec => []DurableInv
<1>1. Init => DurableInv
  BY NamesAssumption DEF Init, DurableInv, Errors, NoThread
<1> QED BY <1>1, DurableKept, HoldsAlways, QuietAlways, PTL DEF Spec

(* A resize, a checkpoint or a shutdown that flushes and returns success   *)
(* has everything on disk that was complete when it was made, and what it  *)
(* did itself, unless it left the shutdown to another or another had       *)
(* aborted the journal before its commit.                                  *)
THEOREM SuccessReachesDisk == Spec => []SuccessIsDurable
<1>1. HoldsInv /\ DurableInv => SuccessIsDurable
  <2> SUFFICES ASSUME HoldsInv, DurableInv, NEW t \in Threads,
                      Finished(t), err[t] = "ok", t \in owe
               PROVE  /\ cmd[t] \in {"SHUTDOWN_DEFAULT", "SHUTDOWN_LOGFLUSH"}
                      /\ t \in shutdown => aborted \notin {NoThread, t}
    BY DEF SuccessIsDurable
  <2>1. Owes(t) /\ pc[t] > Len(Handler[cmd[t]]) /\ pc[t] \in Nat
    BY DEF DurableInv, Finished, Rows, HoldsInv, Types
  <2>2. FlushAt(cmd[t]) = 0
    <3>1. FlushAt(cmd[t]) \in Nat /\ Len(Handler[cmd[t]]) \in Nat
      BY <2>1, AllSound DEF FlushAt, Sound, Owes, HoldsInv, Types
    <3> SUFFICES ASSUME FlushAt(cmd[t]) # 0 PROVE Len(Handler[cmd[t]]) > FlushAt(cmd[t])
      BY <2>1, <3>1 DEF Owes
    <3>2. CASE cmd[t] = "GROUP_EXTEND"
      BY <3>2, GroupExtendRows DEF FlushAt
    <3>3. CASE cmd[t] = "GROUP_ADD"
      BY <3>3, GroupAddRows DEF FlushAt
    <3>4. CASE cmd[t] = "RESIZE_FS"
      BY <3>4, ResizeFsRows DEF FlushAt
    <3>5. CASE cmd[t] = "CHECKPOINT"
      BY <3>5, CheckpointRows DEF FlushAt
    <3> QED BY <3>2, <3>3, <3>4, <3>5 DEF FlushAt
  <2>3. cmd[t] \in {"SHUTDOWN_DEFAULT", "SHUTDOWN_LOGFLUSH"}
    BY <2>1, <2>2 DEF Owes, FlushAt, Flushing
  <2>4. CASE cmd[t] = "SHUTDOWN_DEFAULT"
    BY <2>1, <2>4, ShutdownDefaultRows DEF Owes
  <2>5. CASE cmd[t] = "SHUTDOWN_LOGFLUSH"
    BY <2>1, <2>5, ShutdownLogflushRows DEF Owes
  <2> QED BY <2>3, <2>4, <2>5
<1> QED BY <1>1, HoldsAlways, DurableAlways, PTL

-----------------------------------------------------------------------------
(* A resize is complete                                                    *)

(* The groups a call has added lie between the count it read when it was   *)
(* made and the count now; those of a call that has passed its request for *)
(* lazy initialisation without an error have been asked for, and RESIZE_FS *)
(* has updated the overhead after that.                                    *)
Counted ==
  /\ ngroups \in Nat /\ overhead \in Nat /\ overhead <= ngroups
  /\ o_group \in [Threads -> Nat] /\ added \in [Threads -> SUBSET Nat]
  /\ \A t \in Threads :
       /\ o_group[t] <= ngroups
       /\ \A g \in added[t] : o_group[t] <= g /\ g < ngroups
Completes(t) ==
  /\ added[t] # {} =>
       /\ cmd[t] \in Resizes /\ pc[t] > 4
       /\ cmd[t] = "GROUP_ADD" => pc[t] > 5 /\ \E g \in Nat : added[t] = {g}
       /\ pc[t] > 10 /\ err[t] \in {"ok", "busy"} => added[t] \subseteq asked
  /\ cmd[t] \in Resizes /\ pc[t] <= 10 => err[t] # "busy"
  /\ cmd[t] = "RESIZE_FS" /\ pc[t] > 14 /\ err[t] = "ok" =>
       ro \/ \A g \in added[t] : overhead > g
ResizeInv == Counted /\ \A t \in Threads : Completes(t)

LEMMA ResizeRows ==
  ASSUME NEW c \in Resizes
  PROVE  /\ Len(Handler[c]) \in Nat /\ Len(Handler[c]) >= 11
         /\ c = "RESIZE_FS" => Len(Handler[c]) = 15
<1>1. CASE c = "GROUP_ADD"
  BY <1>1, GroupAddRows
<1>2. CASE c = "RESIZE_FS"
  BY <1>2, ResizeFsRows
<1> QED BY <1>1, <1>2 DEF Resizes

(* What no step ever takes back.                                           *)
LEMMA OnlyGrows ==
  ASSUME HoldsInv, Counted, [Next]_vars
  PROVE  /\ asked \subseteq asked' /\ (ro => ro')
         /\ ngroups' \in {ngroups, ngroups + 1} /\ overhead' \in {overhead, ngroups}
  BY DEF Counted, Next, Call, Locked, Free, WorkFails, Check, Begin, End, Want, Drop,
     GetDonor, PutDonor, LockInode, UnlockInode, Skip, StartHandle, StopHandle,
     LockUpdates, Flush, UnlockUpdates, Lazy, Writable, Alive, Freeze, Drain, Persist,
     SetShutdown, Thaw, ForceCommit, AbortJournal, ClearDiscard, Commit, CommitFails,
     RemountReadonly, NewOverhead, vars, flags, store

(* Only a call's own steps touch what it has added.                        *)
LEMMA AddedBy ==
  ASSUME HoldsInv, Counted, [Next]_vars, NEW t \in Threads
  PROVE  /\ \/ added'[t] = added[t]
            \/ /\ Acts(t) /\ StopHandle(t) /\ Step(t) = "grow"
               /\ ngroups' = ngroups + 1 /\ added'[t] = added[t] \cup {ngroups}
         /\ \/ o_group'[t] = o_group[t]
            \/ Call(t) /\ o_group'[t] = ngroups
         /\ o_group' \in [Threads -> Nat] /\ added' \in [Threads -> SUBSET Nat]
<1>1. ASSUME NEW u \in Threads, Call(u)
      PROVE  added' = added /\ o_group' = [o_group EXCEPT ![u] = ngroups]
  BY <1>1 DEF Call
<1>2. CASE Commit \/ CommitFails \/ RemountReadonly \/ UNCHANGED vars
  BY <1>2 DEF Commit, CommitFails, RemountReadonly, vars, call, Counted
<1>3. ASSUME NEW u \in Threads, StopHandle(u)
      PROVE  /\ o_group' = o_group
             /\ \/ added' = added
                \/ /\ Step(u) = "grow" /\ ngroups' = ngroups + 1
                   /\ added' = [added EXCEPT ![u] = @ \cup {ngroups}]
  BY <1>3 DEF StopHandle
<1>4. ASSUME NEW u \in Threads, Acts(u), ~StopHandle(u)
      PROVE  added' = added /\ o_group' = o_group
  BY <1>4 DEF Acts, Locked, Free, WorkFails, Check, Begin, End, Want, Drop,
     GetDonor, PutDonor, LockInode, UnlockInode, Skip, StartHandle,
     LockUpdates, Flush, UnlockUpdates, Lazy, Writable, Alive, Freeze, Drain,
     SetShutdown, Thaw, ForceCommit, AbortJournal, ClearDiscard,
     Advance, Fail, Leave, call
<1>5. StopHandle(t) => Acts(t)
  BY DEF Acts, Free
<1> QED BY <1>1, <1>2, <1>3, <1>4, <1>5 DEF Next, Acts, Counted

LEMMA CountedKept ==
  ASSUME HoldsInv, ResizeInv, [Next]_vars
  PROVE  Counted'
<1>1. Counted
  BY DEF ResizeInv
<1>2. /\ ngroups' \in {ngroups, ngroups + 1} /\ overhead' \in {overhead, ngroups}
      /\ o_group' \in [Threads -> Nat] /\ added' \in [Threads -> SUBSET Nat]
  <2>1. ASSUME NEW t \in Threads
        PROVE  o_group' \in [Threads -> Nat] /\ added' \in [Threads -> SUBSET Nat]
    BY <1>1, AddedBy
  <2>2. CASE Threads = {}
    <3>1. added' = added /\ o_group' = o_group
      BY <1>1, <2>2 DEF Next, Commit, CommitFails, RemountReadonly, vars, call
    <3> QED BY <1>1, <3>1, OnlyGrows DEF Counted
  <2> QED BY <1>1, <2>1, <2>2, OnlyGrows
<1>3. ASSUME NEW t \in Threads
      PROVE  /\ o_group'[t] <= ngroups'
             /\ \A g \in added'[t] : o_group'[t] <= g /\ g < ngroups'
  <2>1. /\ o_group[t] \in Nat /\ o_group[t] <= ngroups /\ added[t] \in SUBSET Nat
        /\ \A g \in added[t] : o_group[t] <= g /\ g < ngroups
        /\ ngroups \in Nat
    BY <1>1 DEF Counted
  <2>2. CASE o_group'[t] # o_group[t]
    <3>1. Call(t) /\ o_group'[t] = ngroups
      BY <1>1, <2>2, AddedBy
    <3>2. added[t] = {} /\ added' = added
      BY <3>1 DEF Call, ResizeInv, Completes
    <3> QED BY <1>2, <2>1, <3>1, <3>2
  <2>3. CASE o_group'[t] = o_group[t]
    <3>1. \/ added'[t] = added[t]
          \/ ngroups' = ngroups + 1 /\ added'[t] = added[t] \cup {ngroups}
      BY <1>1, AddedBy
    <3> QED BY <1>2, <2>1, <2>3, <3>1
  <2> QED BY <2>2, <2>3
<1> QED BY <1>1, <1>2, <1>3 DEF Counted

(* At its lazy row a call asks for all of its groups, or has an error.     *)
LEMMA LazyAsks ==
  ASSUME HoldsInv, DurableInv, ResizeInv, NEW t \in Threads, Acts(t), Step(t) = "lazy",
         added[t] # {}
  PROVE  added[t] \subseteq asked' \/ err'[t] \notin {"ok", "busy"}
<1>1. /\ Inside(t) /\ Order(cmd[t], pc[t]) /\ pc[t] \in Nat
      /\ err \in [Threads -> Errors] /\ t \notin handles
  BY OwnStep, OrderAt DEF DurableInv, HoldsInv, Types, Holds, At, Work
<1>2. cmd[t] \in Resizes /\ pc[t] = 10 /\ err[t] # "busy" /\ Completes(t)
  BY <1>1 DEF ResizeInv, Completes, Order, Step
<1>3. Skip(t) \/ Lazy(t)
  BY <1>1 DEF Acts, At, Locked, Free, WorkFails, Check, Begin, End, Want, Drop,
     GetDonor, PutDonor, LockInode, UnlockInode, Due, StartHandle, StopHandle,
     LockUpdates, Flush, UnlockUpdates, Writable, Alive, Freeze, Drain,
     SetShutdown, Thaw, ForceCommit, AbortJournal, ClearDiscard, Work
<1>4. CASE Skip(t)
  BY <1>1, <1>2, <1>4 DEF Skip, Advance
<1>5. CASE Lazy(t) /\ Fail(t, "nomem")
  BY <1>1, <1>5 DEF Lazy, Fail
<1>6. CASE Lazy(t) /\ asked' = asked \cup FirstNew(t) .. ngroups - 1
  <2>1. /\ added[t] \subseteq Nat /\ ngroups \in Nat /\ o_group[t] \in Nat
        /\ \A g \in added[t] : o_group[t] <= g /\ g < ngroups
    BY DEF ResizeInv, Counted
  <2>2. CASE cmd[t] = "GROUP_ADD"
    <3>1. PICK g \in Nat : added[t] = {g}
      BY <1>2, <2>2 DEF Completes
    <3>2. Min({g, ngroups}) = g
      BY <2>1, <3>1, Least
    <3>3. FirstNew(t) = g
      <4>1. added[t] \cup {ngroups} = {g, ngroups}
        BY <3>1
      <4> QED BY <2>2, <3>2, <4>1 DEF FirstNew
    <3> QED BY <1>6, <2>1, <3>1, <3>3
  <2>3. CASE cmd[t] = "RESIZE_FS"
    <3>1. FirstNew(t) = o_group[t]
      BY <2>3 DEF FirstNew
    <3> QED BY <1>6, <2>1, <3>1
  <2> QED BY <1>2, <2>2, <2>3 DEF Resizes
<1> QED BY <1>3, <1>4, <1>5, <1>6 DEF Lazy

(* At the row that updates the overhead, RESIZE_FS covers its groups or    *)
(* has an error.                                                           *)
LEMMA OverheadCovers ==
  ASSUME HoldsInv, DurableInv, ResizeInv, NEW t \in Threads, Acts(t),
         Step(t) = "overhead", ~StartHandle(t)
  PROVE  (\A g \in added[t] : overhead' > g) \/ err'[t] # "ok"
<1>1. Counted /\ err \in [Threads -> Errors]
  BY DEF ResizeInv, DurableInv
<1>2. StopHandle(t) \/ WorkFails(t)
  BY DEF Acts, At, Locked, Free, Check, Begin, End, Want, Drop, Skip,
     GetDonor, PutDonor, LockInode, UnlockInode, Lazy,
     LockUpdates, Flush, UnlockUpdates, Writable, Alive, Freeze, Drain,
     SetShutdown, Thaw, ForceCommit, AbortJournal, ClearDiscard
<1>3. CASE StopHandle(t)
  BY <1>1, <1>3 DEF StopHandle, NewOverhead, Counted
<1>4. CASE WorkFails(t)
  BY <1>1, <1>4 DEF WorkFails, Fail
<1> QED BY <1>2, <1>3, <1>4

(* Only who finds the resize flag set is told that it is busy.             *)
LEMMA BusyAtBegin ==
  ASSUME HoldsInv, NEW t \in Threads, Acts(t), err \in [Threads -> Errors],
         err[t] = "ok", err'[t] = "busy"
  PROVE  Begin(t) /\ Fail(t, "busy")
<1>1. ASSUME NEW e, Fail(t, e) PROVE e = "busy"
  BY <1>1 DEF Fail
<1>2. ~Advance(t) /\ ~Leave(t) /\ ~StopHandle(t) /\ ~StartHandle(t)
  BY DEF Advance, Leave, StopHandle, StartHandle, call
<1> QED BY <1>1, <1>2 DEF Acts, Locked, Free, WorkFails, Check, Begin, End, Want, Drop,
     GetDonor, PutDonor, LockInode, UnlockInode, Skip,
     LockUpdates, Flush, UnlockUpdates, Lazy, Writable, Alive, Freeze, Drain,
     SetShutdown, Thaw, ForceCommit, AbortJournal, ClearDiscard

LEMMA CompletesByOwn ==
  ASSUME HoldsInv, DurableInv, ResizeInv, [Next]_vars, NEW t \in Threads, Acts(t)
  PROVE  Completes(t)'
<1>1. /\ Completes(t) /\ Counted /\ Inside(t) /\ cmd' = cmd /\ pc[t] \in Nat
      /\ err \in [Threads -> Errors]
      /\ err' \in [Threads -> Errors] /\ (err[t] # "ok" => err'[t] = err[t])
  BY OwnStep, OwnErr DEF DurableInv, ResizeInv, HoldsInv, Types
<1>2. /\ Order(cmd[t], pc[t]) /\ After(t) = AfterRow(cmd[t], pc[t])
      /\ pc[t] \in 1 .. Len(Handler[cmd[t]]) /\ Len(Handler[cmd[t]]) \in Nat
      /\ After(t) \in pc[t] + 1 .. Len(Handler[cmd[t]]) + 1
  BY <1>1, OrderAt, AtRow DEF HoldsInv, Row
<1>3. /\ asked \subseteq asked' /\ (ro => ro')
      /\ \A g \in added[t] : overhead > g => overhead' > g
  BY <1>1, OnlyGrows DEF Counted
<1>4. CASE StartHandle(t)
  <2>1. UNCHANGED <<pc, cmd, err, added>>
    BY <1>4 DEF StartHandle, call
  <2> QED BY <1>1, <1>3, <2>1 DEF Completes
<1> SUFFICES ASSUME ~StartHandle(t) PROVE Completes(t)'
  BY <1>4
<1>5. /\ pc'[t] \in {pc[t] + 1, After(t)} /\ pc'[t] > pc[t] /\ pc'[t] \in Nat
      /\ \/ pc'[t] = pc[t] + 1
         \/ err'[t] # "ok"
         \/ Step(t) \in {"writable", "alive"}
  BY <1>1, <1>2, OwnStep, OwnErr
<1>6. cmd[t] \in Resizes /\ pc'[t] <= 10 => err'[t] # "busy"
  <2> SUFFICES ASSUME cmd[t] \in Resizes, pc'[t] <= 10, err'[t] = "busy" PROVE FALSE
    OBVIOUS
  <2>1. err[t] = "ok" /\ pc[t] < 10
    BY <1>1, <1>5 DEF Completes
  <2>2. Begin(t) /\ Fail(t, "busy")
    BY <1>1, <2>1, BusyAtBegin
  <2>3. Step(t) = "begin" /\ pc'[t] = After(t)
    BY <1>1, <2>2 DEF Begin, At, Fail, HoldsInv, Types
  <2>4. After(t) = Len(Handler[cmd[t]]) + 1
    BY <1>2, <2>1, <2>3 DEF Order, AfterRow, Step
  <2>5. Len(Handler[cmd[t]]) >= 11
    BY ResizeRows
  <2> QED BY <1>2, <2>3, <2>4, <2>5
<1>7. CASE added'[t] # added[t]
  <2>1. /\ StopHandle(t) /\ Step(t) = "grow" /\ added'[t] = added[t] \cup {ngroups}
        /\ ngroups \in Nat
    BY <1>1, <1>7, AddedBy DEF Counted
  <2>2. pc'[t] = pc[t] + 1
    BY <1>1, <2>1 DEF StopHandle, HoldsInv, Types
  <2>3. cmd[t] \in Resizes /\ pc[t] < 10 /\ (cmd[t] = "GROUP_ADD" => pc[t] = 5)
    BY <1>2, <2>1 DEF Order, Step
  <2>4. cmd[t] = "GROUP_ADD" => added'[t] = {ngroups}
    BY <1>1, <2>1, <2>3 DEF Completes
  <2>5. pc'[t] > 4 /\ pc'[t] <= 10
    BY <1>1, <1>2, <2>1, <2>2, <2>3 DEF Order, Step
  <2> QED BY <1>1, <1>6, <2>1, <2>2, <2>3, <2>4, <2>5 DEF Completes
<1>8. CASE added'[t] = added[t] /\ added[t] = {}
  BY <1>1, <1>6, <1>8 DEF Completes
<1>9. CASE added'[t] = added[t] /\ added[t] # {}
  <2>1. /\ cmd[t] \in Resizes /\ pc[t] > 4
        /\ cmd[t] = "GROUP_ADD" => pc[t] > 5 /\ \E g \in Nat : added[t] = {g}
    BY <1>1, <1>9 DEF Completes
  <2>2. /\ Step(t) # "alive"
        /\ Step(t) = "writable" => cmd[t] = "RESIZE_FS" /\ pc[t] = 12
    <3>1. Step(t) # "alive" /\ (Step(t) = "writable" => cmd[t] = "RESIZE_FS")
      BY <1>2, <2>1 DEF Order, Step, Resizes, Shutdowns
    <3>2. cmd[t] = "RESIZE_FS" => pc[t] \in 1 .. 15
      BY <1>2, <2>1, ResizeRows
    <3>3. cmd[t] = "RESIZE_FS" /\ Step(t) = "writable" => pc[t] = 12
      <4>1. cmd[t] = "RESIZE_FS" /\ Step(t) = "writable" =>
              ~(pc[t] < 10) /\ pc[t] \notin {10, 11, 13, 14, 15}
        BY <1>2, <2>1 DEF Order, Step
      <4> QED BY <3>2, <4>1
    <3> QED BY <3>1, <3>3
  <2>3. ASSUME pc'[t] > 10, err'[t] \in {"ok", "busy"} PROVE added[t] \subseteq asked'
    <3>1. CASE pc[t] > 10
      BY <1>1, <1>3, <1>9, <2>3, <3>1 DEF Completes
    <3>2. CASE pc[t] = 10
      BY <1>2, <1>9, <2>1, <2>3, <3>2, LazyAsks DEF Order, Step
    <3>3. CASE pc[t] < 10
      <4>1. err'[t] = "busy"
        BY <1>1, <1>5, <2>2, <2>3, <3>3
      <4>2. err[t] = "ok"
        BY <1>1, <2>1, <3>3, <4>1 DEF Completes
      <4>3. Step(t) = "begin"
        BY <1>1, <4>1, <4>2, BusyAtBegin DEF Begin, At
      <4> QED BY <1>1, <1>2, <2>1, <3>3, <4>3 DEF Order, Step
    <3> QED BY <1>1, <3>1, <3>2, <3>3
  <2>4. ASSUME cmd[t] = "RESIZE_FS", pc'[t] > 14, err'[t] = "ok"
        PROVE  ro' \/ \A g \in added[t] : overhead' > g
    <3>1. err[t] = "ok"
      BY <1>1, <2>4
    <3>2. CASE pc[t] > 14
      BY <1>1, <1>3, <2>4, <3>1, <3>2 DEF Completes
    <3>3. CASE pc[t] = 14
      BY <1>2, <2>4, <3>3, OverheadCovers DEF Order, Step
    <3>4. CASE pc[t] < 14
      <4>1. Step(t) = "writable" /\ pc'[t] # pc[t] + 1
        BY <1>1, <1>5, <2>2, <2>4, <3>4
      <4>2. Writable(t)
        <5>1. t \notin handles
          BY <4>1 DEF HoldsInv, Holds, At, Work
        <5> QED BY <4>1, <5>1 DEF Acts, At, Locked, Free, WorkFails, Check, Begin, End,
                   Want, Drop,
             GetDonor, PutDonor, LockInode, UnlockInode, Skip, Due, StartHandle, StopHandle,
             LockUpdates, Flush, UnlockUpdates, Lazy, Alive, Freeze, Drain,
             SetShutdown, Thaw, ForceCommit, AbortJournal, ClearDiscard, Work
      <4>3. ro
        BY <4>1, <4>2 DEF Writable, Advance, HoldsInv, Types
      <4> QED BY <1>3, <4>3
    <3> QED BY <1>1, <3>2, <3>3, <3>4
  <2> QED BY <1>1, <1>5, <1>6, <1>9, <2>1, <2>3, <2>4 DEF Completes
<1> QED BY <1>7, <1>8, <1>9

LEMMA CompletesKept ==
  ASSUME HoldsInv, DurableInv, ResizeInv, [Next]_vars, NEW t \in Threads
  PROVE  Completes(t)'
<1>1. CASE Acts(t)
  BY <1>1, CompletesByOwn
<1>2. Counted /\ Completes(t) /\ cmd' = cmd
  BY WhoMoves DEF ResizeInv
<1>3. /\ asked \subseteq asked' /\ (ro => ro')
      /\ \A g \in added[t] : overhead > g => overhead' > g
  BY <1>2, OnlyGrows DEF Counted
<1>4. CASE Call(t) /\ ~Acts(t)
  <2>1. pc[t] = 0 /\ pc'[t] = 1 /\ err' = err /\ added' = added
    BY <1>4 DEF Call, HoldsInv, Types
  <2> QED BY <1>2, <1>3, <2>1 DEF Completes, Resizes
<1>5. CASE ~Call(t) /\ ~Acts(t)
  <2>1. pc'[t] = pc[t] /\ err'[t] = err[t]
    BY <1>5, OthersKeep DEF DurableInv
  <2>2. added'[t] = added[t]
    BY <1>2, <1>5, AddedBy
  <2> QED BY <1>2, <1>3, <2>1, <2>2 DEF Completes
<1> QED BY <1>1, <1>4, <1>5

LEMMA ResizeAlways == Spec => []ResizeInv
<1>1. Init => ResizeInv
  BY GroupsAssumption DEF Init, ResizeInv, Counted, Completes
<1>2. HoldsInv /\ DurableInv /\ ResizeInv /\ [Next]_vars => ResizeInv'
  BY CountedKept, CompletesKept DEF ResizeInv
<1> QED BY <1>1, <1>2, HoldsAlways, DurableAlways, PTL DEF Spec

(* A resize that goes well, but for the overhead update that comes last,   *)
(* has asked for the lazy initialisation of all of its groups, and a       *)
(* RESIZE_FS that succeeds leaves an overhead that counts them.            *)
THEOREM ResizesComplete == Spec => []ResizeComplete
<1>1. HoldsInv /\ DurableInv /\ ResizeInv => ResizeComplete
  <2> SUFFICES ASSUME HoldsInv, ResizeInv, NEW t \in Threads, Finished(t)
               PROVE  /\ err[t] \in {"ok", "busy"} => added[t] \subseteq asked
                      /\ err[t] = "ok" /\ cmd[t] = "RESIZE_FS" =>
                           ro \/ \A g \in added[t] : overhead > g
    BY DEF ResizeComplete
  <2>1. Completes(t) /\ pc[t] > Len(Handler[cmd[t]]) /\ pc[t] \in Nat
    BY DEF ResizeInv, Finished, Rows, HoldsInv, Types
  <2>2. ASSUME cmd[t] \in Resizes PROVE pc[t] > 10 /\ (cmd[t] = "RESIZE_FS" => pc[t] > 14)
    <3>1. /\ Len(Handler[cmd[t]]) \in Nat /\ Len(Handler[cmd[t]]) >= 11
          /\ cmd[t] = "RESIZE_FS" => Len(Handler[cmd[t]]) = 15
      BY <2>2, ResizeRows
    <3>2. \A n \in Nat : pc[t] > n /\ n >= 11 => pc[t] > 10 /\ (n = 15 => pc[t] > 14)
      BY <2>1
    <3> QED BY <2>1, <3>1, <3>2
  <2> QED BY <2>1, <2>2 DEF Completes, Resizes
<1> QED BY <1>1, HoldsAlways, DurableAlways, ResizeAlways, PTL

=============================================================================
