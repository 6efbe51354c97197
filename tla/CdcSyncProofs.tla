---------------------------- MODULE CdcSyncProofs ----------------------------
(* Proofs about change data capture.                                         *)
EXTENDS CdcSync, WellFoundedInduction, TLAPS

USE CdcAssumption

-----------------------------------------------------------------------------
(* The largest member of a set.                                              *)

(* A set of natural numbers has a smallest member.                           *)
LEMMA MinExists ==
    ASSUME NEW T, T \subseteq Nat, T # {}
    PROVE  \E x \in T : \A y \in T : x <= y
<1>1. \E x \in T : \A y \in T : ~(<<y, x>> \in OpToRel(<, Nat))
  BY NatLessThanWellFounded, WFMin
<1>2. PICK x \in T : \A y \in T : ~(<<y, x>> \in OpToRel(<, Nat))
  BY <1>1
<1>3. \A y \in T : ~(y < x)
  BY <1>2 DEF OpToRel
<1> QED  BY <1>3

(* MaxOf of a bounded set is its largest member.                             *)
LEMMA MaxIs ==
    ASSUME NEW S, NEW n \in Nat, S \subseteq 0..n, S # {}
    PROVE  MaxOf(S) \in S /\ \A m \in S : m <= MaxOf(S)
<1> DEFINE T == {m \in Nat : n - m \in S}
<1>1. PICK z \in S : TRUE
  OBVIOUS
<1>2. n - z \in T
  BY <1>1
<1>3. PICK t \in T : \A y \in T : t <= y
  <2>1. T \subseteq Nat /\ T # {}
    BY <1>2
  <2> HIDE DEF T
  <2> QED  BY <2>1, MinExists
<1>4. n - t \in S
  OBVIOUS
<1>5. ASSUME NEW y \in S  PROVE  y <= n - t
  <2>1. n - y \in T
    OBVIOUS
  <2>2. t <= n - y
    BY <1>3, <2>1
  <2> QED  BY <2>2
<1> QED  BY <1>4, <1>5 DEF MaxOf

-----------------------------------------------------------------------------
(* Steps by what they do.                                                    *)

(* Every step but a stutter is a change of the source, a step of the run, or *)
(* a fault, which may come after the rows have landed.                       *)
LEMMA StepCases ==
    ASSUME [Next]_vars, NEW P,
           UNCHANGED vars => P,
           \A k \in Keys : Write(k) => P,
           \A k \in Keys : Delete(k) => P,
           \A full \in FullRefresh : Begin(full) => P,
           ReadPreMax => P,
           \A k \in Keys : ScanRow(k) => P,
           ScanEnd => P,
           \A k \in Keys : ShuttleRow(k) => P,
           ShuttleEnd => P,
           RunQuery => P,
           \A k \in Keys : JoinRow(k) => P,
           JoinEnd => P,
           Commit => P,
           SetState => P,
           \A kind : Fault(kind) /\ UNCHANGED <<target, doubled, reloaded>> => P,
           \A kind : phase = "loaded" /\ Fault(kind) /\ Land => P
    PROVE  P
BY DEF Next, Step, ReadFails, CommitFails, AckLost, SetFails, Crash

(* The log grows by one event.                                               *)
Logged(k, o) == log' = Append(log, [key |-> k, op |-> o])

LEMMA LogGrows ==
    ASSUME CdcTypeOK, NEW k \in Keys, NEW o \in {"U", "D"}, Logged(k, o)
    PROVE  /\ Len(log) \in Nat /\ Len(log') = Len(log) + 1
           /\ \A i \in 1..Len(log) : log'[i] = log[i] /\ log[i].key \in Keys /\ log[i].op \in {"U", "D"}
           /\ log'[Len(log) + 1] = [key |-> k, op |-> o]
           /\ log' \in Seq([key : Keys, op : {"U", "D"}])
<1>1. log \in Seq([key : Keys, op : {"U", "D"}])
  BY DEF CdcTypeOK
<1> DEFINE E == [key : Keys, op : {"U", "D"}]
           e == [key |-> k, op |-> o]
<1>2. e \in E
  OBVIOUS
<1>3. \A x \in E : x.key \in Keys /\ x.op \in {"U", "D"}
  OBVIOUS
<1>4. log \in Seq(E) /\ log' = Append(log, e)
  BY <1>1 DEF Logged
<1> HIDE DEF E, e
<1>5. Len(log) \in Nat /\ Len(log') = Len(log) + 1 /\ log' \in Seq(E)
  BY <1>2, <1>4
<1>6. \A i \in 1..Len(log) : log'[i] = log[i] /\ log[i] \in E
  BY <1>2, <1>4
<1>7. log'[Len(log) + 1] = e
  BY <1>2, <1>4
<1> QED  BY <1>3, <1>5, <1>6, <1>7 DEF E, e

(* Nothing happens to the events there are.                                  *)
LEMMA EventsStay ==
    ASSUME CdcTypeOK, NEW k \in Keys, NEW o \in {"U", "D"}, Logged(k, o),
           NEW l \in Keys, NEW c \in Nat, NEW n \in Nat, n <= Len(log)
    PROVE  /\ {i \in c..n : i > 0 /\ log'[i].key = l} = Events(l, c, n)
           /\ {i \in Events(l, c, n) : log'[i].op # "D"} = Updates(l, c, n)
           /\ {i \in Events(l, c, n) : log'[i].op = "D"} = Deletes(l, c, n)
<1>1. \A i \in c..n : i > 0 => i \in 1..Len(log)
  BY LogGrows
<1>2. \A i \in c..n : i > 0 => log'[i] = log[i]
  BY <1>1, LogGrows
<1> QED  BY <1>2 DEF Events, Updates, Deletes

(* The events of a key are natural numbers of the interval asked for.        *)
LEMMA EventsAre ==
    ASSUME NEW k, NEW c \in Nat, NEW n \in Nat
    PROVE  /\ Events(k, c, n) \subseteq 0..n /\ Events(k, c, n) \subseteq Nat
           /\ Updates(k, c, n) \subseteq Events(k, c, n)
           /\ Deletes(k, c, n) \subseteq Events(k, c, n)
           /\ \A i \in Events(k, c, n) : c <= i /\ i <= n /\ 1 <= i /\ log[i].key = k
           /\ \A i : i \in 1..n /\ c <= i /\ log[i].key = k => i \in Events(k, c, n)
BY DEF Events, Updates, Deletes

(* The last update and the last delete of a key.                             *)
LEMMA LastUpdate ==
    ASSUME NEW k, NEW c \in Nat, NEW n \in Nat, Updates(k, c, n) # {}
    PROVE  /\ MaxOf(Updates(k, c, n)) \in Updates(k, c, n)
           /\ \A i \in Updates(k, c, n) : i <= MaxOf(Updates(k, c, n))
<1>1. Updates(k, c, n) \subseteq 0..n
  BY EventsAre
<1> QED  BY <1>1, MaxIs

LEMMA LastDelete ==
    ASSUME NEW k, NEW c \in Nat, NEW n \in Nat, Deletes(k, c, n) # {}
    PROVE  /\ MaxOf(Deletes(k, c, n)) \in Deletes(k, c, n)
           /\ \A i \in Deletes(k, c, n) : i <= MaxOf(Deletes(k, c, n))
<1>1. Deletes(k, c, n) \subseteq 0..n
  BY EventsAre
<1> QED  BY <1>1, MaxIs

(* Without an event from c on.                                               *)
LEMMA QuietIs ==
    ASSUME CdcTypeOK, NEW k, NEW c \in Nat
    PROVE  Quiet(k, c) <=> \A i \in 1..Len(log) : c <= i => log[i].key # k
<1>1. Len(log) \in Nat
  BY DEF CdcTypeOK
<1>2. Events(k, c, Len(log)) = {i \in 1..Len(log) : c <= i /\ log[i].key = k}
  BY <1>1 DEF Events
<1> QED  BY <1>2 DEF Quiet

(* Who is quiet from a later event on than another.                          *)
LEMMA QuietLater ==
    ASSUME CdcTypeOK, NEW k, NEW c \in Nat, NEW d \in Nat, c <= d, Quiet(k, c)
    PROVE  Quiet(k, d)
<1>1. Len(log) \in Nat
  BY DEF CdcTypeOK
<1> QED  BY <1>1, QuietIs

(* The rows of a key.                                                        *)
LEMMA RowIs ==
    ASSUME NEW k, NEW v, NEW c, NEW o
    PROVE  /\ Row(k, v, c, o).key = k /\ Row(k, v, c, o).content = v
           /\ Row(k, v, c, o).cid = c /\ Row(k, v, c, o).op = o
BY DEF Row

(* The delete rows of a query, one of each key that was deleted.             *)
LEMMA DeleteRowsAre ==
    ASSUME CdcTypeOK, cursor # Unset, NEW n \in Nat, n <= Len(log)
    PROVE  \A r \in DeleteRows(n) :
              /\ r.key \in Keys /\ r.content = Blank /\ r.op = "D" /\ r \in RowType
              /\ r.cid = MaxOf(Deletes(r.key, cursor, n))
              /\ r.cid \in Deletes(r.key, cursor, n)
              /\ \A i \in Deletes(r.key, cursor, n) : i <= r.cid
              /\ r = Row(r.key, Blank, r.cid, "D")
<1>1. cursor \in Nat
  BY DEF CdcTypeOK
<1>2. SUFFICES ASSUME NEW k \in Keys, Deletes(k, cursor, n) # {},
                      NEW r, r = Row(k, Blank, MaxOf(Deletes(k, cursor, n)), "D")
               PROVE  /\ r.key \in Keys /\ r.content = Blank /\ r.op = "D" /\ r \in RowType
                      /\ r.cid = MaxOf(Deletes(r.key, cursor, n))
                      /\ r.cid \in Deletes(r.key, cursor, n)
                      /\ \A i \in Deletes(r.key, cursor, n) : i <= r.cid
                      /\ r = Row(r.key, Blank, r.cid, "D")
  BY DEF DeleteRows
<1>3. MaxOf(Deletes(k, cursor, n)) \in Nat
  BY <1>1, <1>2, LastDelete, EventsAre
<1>4. r.key = k /\ r.content = Blank /\ r.op = "D" /\ r.cid = MaxOf(Deletes(k, cursor, n))
  BY <1>2, RowIs
<1>5. r \in RowType
  BY <1>2, <1>3 DEF Row, RowType
<1> QED  BY <1>1, <1>2, <1>4, <1>5, LastDelete

(* The rows of a fetched key.                                                *)
LEMMA UpdateRowsAre ==
    ASSUME CdcTypeOK, cursor # Unset, snap <= Len(log), NEW k \in Keys,
           Updates(k, cursor, snap) # {}
    PROVE  \A r \in UpdateRows(k) :
              /\ r.key = k /\ r.content \in source[k] /\ r.op = "U" /\ r \in RowType
              /\ r.cid = MaxOf(Updates(k, cursor, snap))
              /\ r.cid \in Updates(k, cursor, snap)
              /\ \A i \in Updates(k, cursor, snap) : i <= r.cid
              /\ r = Row(k, r.content, r.cid, "U")
<1>1. cursor \in Nat /\ snap \in Nat /\ source[k] \subseteq Nat
  BY DEF CdcTypeOK
<1>2. /\ MaxOf(Updates(k, cursor, snap)) \in Nat
      /\ MaxOf(Updates(k, cursor, snap)) \in Updates(k, cursor, snap)
      /\ \A i \in Updates(k, cursor, snap) : i <= MaxOf(Updates(k, cursor, snap))
  BY <1>1, LastUpdate, EventsAre
<1>3. SUFFICES ASSUME NEW v \in source[k],
                      NEW r, r = Row(k, v, MaxOf(Updates(k, cursor, snap)), "U")
               PROVE  /\ r.key = k /\ r.content \in source[k] /\ r.op = "U" /\ r \in RowType
                      /\ r.cid = MaxOf(Updates(k, cursor, snap))
                      /\ r.cid \in Updates(k, cursor, snap)
                      /\ \A i \in Updates(k, cursor, snap) : i <= r.cid
                      /\ r = Row(k, r.content, r.cid, "U")
  BY DEF UpdateRows
<1>4. r.key = k /\ r.content = v /\ r.op = "U" /\ r.cid = MaxOf(Updates(k, cursor, snap))
  BY <1>3, RowIs
<1>5. r \in RowType
  BY <1>1, <1>2, <1>3 DEF Row, RowType
<1> QED  BY <1>2, <1>3, <1>4, <1>5

(* The rows of a scan.                                                       *)
LEMMA ScanRowsAre ==
    ASSUME CdcTypeOK, NEW k \in Keys
    PROVE  /\ \A r \in ScanRows(k) :
                 /\ r.key = k /\ r.content \in source[k] /\ r.op = "none" /\ r.cid = 0
                 /\ r \in RowType /\ r = Row(k, r.content, 0, "none")
           /\ \A v \in source[k] : Row(k, v, 0, "none") \in ScanRows(k)
<1>1. source[k] \subseteq Nat
  BY DEF CdcTypeOK
<1> QED  BY <1>1 DEF ScanRows, Row, RowType

(* The row of a key that survives is one of the last.                        *)
LEMMA WinnerIs ==
    ASSUME CdcTypeOK, BatchInv, NEW k, Of(k) # {}
    PROVE  Winner(k) \in Of(k) /\ \A q \in Of(k) : q.cid <= Winner(k).cid
<1>1. Len(log) \in Nat /\ \A r \in Of(k) : r.cid \in 0..Len(log)
  BY DEF CdcTypeOK, BatchInv, Of, RowType
<1> DEFINE S == {r.cid : r \in Of(k)}
<1>2. S \subseteq 0..Len(log) /\ S # {}
  BY <1>1
<1>3. PICK m \in S : \A n \in S : n <= m
  <2> HIDE DEF S
  <2> QED  BY <1>1, <1>2, MaxIs
<1>4. \E r \in Of(k) : \A q \in Of(k) : q.cid <= r.cid
  BY <1>3
<1> QED  BY <1>4 DEF Winner

(* What landing leaves.                                                      *)
LEMMA MergedTypes ==
    ASSUME CdcTypeOK, BatchInv
    PROVE  Merged \in [Keys -> SUBSET (Nat \union {Blank})]
<1>1. \A r \in batch : r.content \in Nat \union {Blank}
  BY DEF CdcTypeOK, RowType
<1>2. ASSUME NEW k \in Keys, Of(k) # {}
      PROVE  /\ MergedMSSQL(k) \subseteq Nat \union {Blank}
             /\ MergedSQL(k) \subseteq Nat \union {Blank}
  <2>1. Winner(k) \in batch
    BY <1>2, WinnerIs DEF Of
  <2> QED  BY <1>1, <2>1 DEF MergedMSSQL, MergedSQL, Of
<1>3. \A k \in Keys : target[k] \subseteq Nat \union {Blank}
  BY DEF CdcTypeOK
<1> QED  BY <1>2, <1>3 DEF Merged

(* The watermark of an incremental run.                                      *)
LEMMA NextWatermarkIs ==
    ASSUME CdcTypeOK, BatchInv, cursor # Unset, cursor <= Len(log)
    PROVE  /\ NextWatermark \in Nat /\ NextWatermark <= Len(log)
           /\ batch = {} => NextWatermark = cursor
           /\ batch # {} => /\ \E r \in batch : r.cid = NextWatermark
                            /\ \A r \in batch : r.cid <= NextWatermark
<1>1. Len(log) \in Nat /\ cursor \in Nat /\ \A r \in batch : r.cid \in 0..Len(log)
  BY DEF CdcTypeOK, BatchInv, RowType
<1>2. CASE batch = {}
  BY <1>1, <1>2 DEF NextWatermark
<1>3. CASE batch # {}
  <2> DEFINE S == {r.cid : r \in batch}
  <2>1. S \subseteq 0..Len(log) /\ S # {}
    BY <1>1, <1>3
  <2>2. NextWatermark = MaxOf(S)
    BY <1>3 DEF NextWatermark
  <2>3. MaxOf(S) \in S /\ \A m \in S : m <= MaxOf(S)
    <3> HIDE DEF S
    <3> QED  BY <1>1, <2>1, MaxIs
  <2>4. (\E r \in batch : r.cid = MaxOf(S)) /\ \A r \in batch : r.cid <= MaxOf(S)
    <3>1. PICK r \in batch : r.cid = MaxOf(S)
      BY <2>3
    <3> QED  BY <2>3, <3>1
  <2> HIDE DEF S
  <2> QED  BY <1>1, <1>3, <2>1, <2>2, <2>3, <2>4
<1> QED  BY <1>2, <1>3

-----------------------------------------------------------------------------
(* The invariant of a read, part by part.                                    *)

(* The types.                                                                *)
LEMMA TypeStep ==
    ASSUME ReadInv, [Next]_vars
    PROVE  CdcTypeOK'
<1> USE DEF external
<1>0. CdcTypeOK /\ BatchInv /\ WatermarkInv /\ JoinInv
  BY DEF ReadInv
<1>n. Len(log) \in Nat
  BY <1>0 DEF CdcTypeOK
<1>1. ASSUME UNCHANGED vars  PROVE CdcTypeOK'
  BY <1>0, <1>1 DEF vars, CdcTypeOK
<1>2. ASSUME NEW k \in Keys, Write(k)  PROVE CdcTypeOK'
  <2>1. log' \in Seq([key : Keys, op : {"U", "D"}])
    BY <1>0, <1>2, LogGrows DEF Write, Logged
  <2>2. source' \in [Keys -> SUBSET Nat]
    BY <1>0, <1>2, <1>n DEF Write, CdcTypeOK
  <2> QED  BY <1>0, <1>2, <2>1, <2>2 DEF Write, CdcTypeOK
<1>3. ASSUME NEW k \in Keys, Delete(k)  PROVE CdcTypeOK'
  <2>1. log' \in Seq([key : Keys, op : {"U", "D"}])
    BY <1>0, <1>3, LogGrows DEF Delete, Logged
  <2>2. source' \in [Keys -> SUBSET Nat]
    BY <1>0, <1>3 DEF Delete, CdcTypeOK
  <2> QED  BY <1>0, <1>3, <2>1, <2>2 DEF Delete, CdcTypeOK
<1>4. ASSUME NEW full \in FullRefresh, Begin(full)  PROVE CdcTypeOK'
  BY <1>0, <1>4 DEF Begin, CdcTypeOK
<1>5. ASSUME ReadPreMax  PROVE CdcTypeOK'
  BY <1>0, <1>5, <1>n DEF ReadPreMax, CdcTypeOK
<1>6. ASSUME NEW k \in Keys, ScanRow(k)  PROVE CdcTypeOK'
  <2>1. batch' \subseteq RowType
    BY <1>0, <1>6, ScanRowsAre DEF ScanRow, CdcTypeOK
  <2> QED  BY <1>0, <1>6, <2>1 DEF ScanRow, CdcTypeOK
<1>7. ASSUME ScanEnd  PROVE CdcTypeOK'
  BY <1>0, <1>7 DEF ScanEnd, Return, FirstWatermark, CdcTypeOK
<1>8. ASSUME NEW k \in Keys, ShuttleRow(k)  PROVE CdcTypeOK'
  <2>1. target' \in [Keys -> SUBSET (Nat \union {Blank})]
    BY <1>0, <1>8 DEF ShuttleRow, CdcTypeOK
  <2>2. doubled' \subseteq Keys /\ unread' \subseteq Keys
    BY <1>0, <1>8 DEF ShuttleRow, CdcTypeOK
  <2>3. reloaded' \in BOOLEAN
    BY <1>0, <1>8 DEF ShuttleRow, CdcTypeOK
  <2> QED  BY <1>0, <1>8, <2>1, <2>2, <2>3 DEF ShuttleRow, CdcTypeOK
<1>9. ASSUME ShuttleEnd  PROVE CdcTypeOK'
  BY <1>0, <1>9 DEF ShuttleEnd, Return, FirstWatermark, CdcTypeOK
<1>10. ASSUME RunQuery  PROVE CdcTypeOK'
  <2>1. batch' \subseteq RowType
    BY <1>0, <1>10, <1>n, DeleteRowsAre DEF RunQuery
  <2> QED  BY <1>0, <1>10, <1>n, <2>1 DEF RunQuery, CdcTypeOK
<1>11. ASSUME NEW k \in Keys, JoinRow(k)  PROVE CdcTypeOK'
  <2>1. cursor # Unset /\ snap <= Len(log) /\ Updates(k, cursor, snap) # {}
    BY <1>0, <1>11 DEF JoinRow, WatermarkInv, JoinInv
  <2>2. batch' \subseteq RowType
    BY <1>0, <1>11, <2>1, UpdateRowsAre DEF JoinRow, CdcTypeOK
  <2> QED  BY <1>0, <1>11, <2>2 DEF JoinRow, CdcTypeOK
<1>12. ASSUME JoinEnd  PROVE CdcTypeOK'
  <2>1. cursor # Unset /\ cursor <= Len(log)
    BY <1>0, <1>12, <1>n DEF JoinEnd, WatermarkInv, CdcTypeOK
  <2>2. NextWatermark \in Nat
    BY <1>0, <2>1, NextWatermarkIs
  <2> QED  BY <1>0, <1>12, <2>2 DEF JoinEnd, Return, CdcTypeOK
<1>13. ASSUME Land  PROVE /\ target' \in [Keys -> SUBSET (Nat \union {Blank})]
                          /\ doubled' \subseteq Keys /\ reloaded' \in BOOLEAN
  BY <1>0, <1>13, MergedTypes DEF Land, CdcTypeOK
<1>14. ASSUME Commit  PROVE CdcTypeOK'
  BY <1>0, <1>13, <1>14 DEF Commit, CdcTypeOK
<1>15. ASSUME SetState  PROVE CdcTypeOK'
  BY <1>0, <1>15 DEF SetState, CdcTypeOK
<1>16. ASSUME NEW kind, Fault(kind), UNCHANGED <<target, doubled, reloaded>>  PROVE CdcTypeOK'
  BY <1>0, <1>16 DEF Fault, CdcTypeOK
<1>17. ASSUME NEW kind, Fault(kind), Land  PROVE CdcTypeOK'
  BY <1>0, <1>13, <1>17 DEF Fault, CdcTypeOK
<1> QED
  BY <1>1, <1>2, <1>3, <1>4, <1>5, <1>6, <1>7, <1>8, <1>9, <1>10, <1>11, <1>12, <1>14,
     <1>15, <1>16, <1>17, StepCases

(* The rows of the source and the events that wrote them: a write is the     *)
(* last event of its key, and so is a delete.                                *)
LEMMA SourceStep ==
    ASSUME ReadInv, [Next]_vars
    PROVE  SourceInv'
<1>0. CdcTypeOK /\ SourceInv
  BY DEF ReadInv
<1>n. Len(log) \in Nat /\ source \in [Keys -> SUBSET Nat]
  BY <1>0 DEF CdcTypeOK
<1>1. ASSUME UNCHANGED <<log, source>>  PROVE SourceInv'
  BY <1>0, <1>1 DEF SourceInv, RowLogged, GoneLogged, Quiet, Events, Deletes
<1>2. ASSUME NEW k \in Keys, NEW o \in {"U", "D"}, Logged(k, o),
             NEW j \in Keys, j # k, source'[j] = source[j]
      PROVE  RowLogged(j)' /\ GoneLogged(j)' /\ \A v, w \in source'[j] : v = w
  <2>0. log'[Len(log) + 1] = [key |-> k, op |-> o] /\ [key |-> k, op |-> o].key = k
    BY <1>0, <1>2, LogGrows
  <2>1. /\ Len(log') = Len(log) + 1 /\ log'[Len(log) + 1].key # j
        /\ \A i \in 1..Len(log) : log'[i] = log[i]
    <3>1. Len(log') = Len(log) + 1 /\ \A i \in 1..Len(log) : log'[i] = log[i]
      BY <1>0, <1>2, LogGrows
    <3> QED  BY <1>2, <2>0, <3>1
  <2>2. source[j] \subseteq Nat
    BY <1>n
  <2>3. \A i \in 1..Len(log)' : log'[i].key = j => i \in 1..Len(log) /\ log[i].key = j
    BY <1>n, <2>1
  <2>4. ASSUME NEW v \in source[j]
        PROVE  /\ v <= Len(log') /\ Quiet(j, v + 1)'
               /\ v > 0 => log'[v] = [key |-> j, op |-> "U"]
    <3>1. /\ v \in Nat /\ v + 1 \in Nat /\ v <= Len(log) /\ Quiet(j, v + 1)
          /\ v > 0 => log[v] = [key |-> j, op |-> "U"]
      BY <1>0, <2>2, <2>4 DEF SourceInv, RowLogged
    <3>2. \A i \in 1..Len(log) : v + 1 <= i => log[i].key # j
      BY <1>0, <3>1, QuietIs
    <3>3. \A i \in 1..Len(log)' : v + 1 <= i => log'[i].key # j
      BY <2>3, <3>2
    <3>4. Quiet(j, v + 1)'
      BY <2>1, <1>n, <3>1, <3>3 DEF Quiet, Events
    <3> QED  BY <1>n, <2>1, <3>1, <3>4
  <2>5. ASSUME source[j] = {}, NEW i \in Events(j, 1, Len(log))'
        PROVE  Deletes(j, i, Len(log))' # {}
    <3>1. i \in 1..Len(log)' /\ log'[i].key = j
      BY <1>n, <2>1, <2>5 DEF Events
    <3>2. i \in 1..Len(log) /\ i \in Events(j, 1, Len(log))
      BY <1>n, <2>3, <3>1 DEF Events
    <3>3. \A m \in Events(j, 1, Len(log)) : Deletes(j, m, Len(log)) # {}
      BY <1>0, <2>5 DEF SourceInv, GoneLogged
    <3>4. PICK d \in Deletes(j, i, Len(log)) : TRUE
      BY <3>2, <3>3
    <3>5. d \in 1..Len(log) /\ i <= d /\ log[d].key = j /\ log[d].op = "D"
      BY <1>n, <3>2, <3>4 DEF Deletes, Events
    <3>6. d \in Deletes(j, i, Len(log))'
      BY <1>n, <2>1, <3>2, <3>5 DEF Deletes, Events
    <3> QED  BY <3>6
  <2>6. \A v, w \in source'[j] : v = w
    BY <1>0, <1>2 DEF SourceInv
  <2> QED  BY <1>2, <2>4, <2>5, <2>6 DEF RowLogged, GoneLogged
<1>3. ASSUME NEW k \in Keys, Write(k)  PROVE SourceInv'
  <2>1. Logged(k, "U") /\ source' = [source EXCEPT ![k] = {Len(log) + 1}]
    BY <1>3 DEF Write, Logged
  <2>2. source'[k] = {Len(log) + 1} /\ \A j \in Keys \ {k} : source'[j] = source[j]
    BY <1>n, <2>1
  <2>3. Len(log') = Len(log) + 1 /\ log'[Len(log) + 1] = [key |-> k, op |-> "U"]
    BY <1>0, <2>1, LogGrows
  <2>5. RowLogged(k)'
    <3>1. SUFFICES ASSUME NEW v \in source'[k]
                   PROVE  /\ v <= Len(log') /\ Quiet(k, v + 1)'
                          /\ v > 0 => log'[v] = [key |-> k, op |-> "U"]
      BY DEF RowLogged
    <3>2. v = Len(log) + 1
      BY <2>2, <3>1
    <3>3. Quiet(k, v + 1)'
      BY <1>n, <2>3, <3>2 DEF Quiet, Events
    <3>4. v <= Len(log') /\ log'[v] = [key |-> k, op |-> "U"]
      BY <1>n, <2>3, <3>2
    <3> QED  BY <3>3, <3>4
  <2>6. GoneLogged(k)' /\ \A v, w \in source'[k] : v = w
    BY <2>2 DEF GoneLogged
  <2> QED  BY <1>2, <2>1, <2>2, <2>5, <2>6 DEF SourceInv
<1>4. ASSUME NEW k \in Keys, Delete(k)  PROVE SourceInv'
  <2>1. Logged(k, "D") /\ source' = [source EXCEPT ![k] = {}]
    BY <1>4 DEF Delete, Logged
  <2>2. source'[k] = {} /\ \A j \in Keys \ {k} : source'[j] = source[j]
    BY <1>n, <2>1
  <2>3. Len(log') = Len(log) + 1 /\ log'[Len(log) + 1] = [key |-> k, op |-> "D"]
    BY <1>0, <2>1, LogGrows
  <2>4. ASSUME NEW i \in Events(k, 1, Len(log))'  PROVE Deletes(k, i, Len(log))' # {}
    <3>1. i \in 1..Len(log) + 1
      BY <1>n, <2>3, <2>4 DEF Events
    <3>2. Len(log) + 1 \in Deletes(k, i, Len(log))'
      BY <1>n, <2>3, <3>1 DEF Events, Deletes
    <3> QED  BY <3>2
  <2>5. RowLogged(k)' /\ \A v, w \in source'[k] : v = w
    BY <2>2 DEF RowLogged
  <2>6. GoneLogged(k)'
    BY <2>4 DEF GoneLogged
  <2> QED  BY <1>2, <2>1, <2>2, <2>5, <2>6 DEF SourceInv
<1> QED
  <2>1. (\A k \in Keys : ~Write(k) /\ ~Delete(k)) => UNCHANGED <<log, source>>
    BY DEF Next, Step, vars, external, Begin, ReadPreMax, ScanRow, ScanEnd, ShuttleRow,
       ShuttleEnd, RunQuery, JoinRow, JoinEnd, Commit, SetState, Return, ReadFails,
       CommitFails, AckLost, SetFails, Crash, Fault
  <2> QED  BY <1>1, <1>3, <1>4, <2>1

(* A change wakes its key, and no other.                                     *)
LEMMA QuietGrows ==
    ASSUME CdcTypeOK, NEW k \in Keys, NEW o \in {"U", "D"}, Logged(k, o),
           NEW c \in Nat, c <= Len(log) + 1
    PROVE  /\ ~Quiet(k, c)'
           /\ \A l \in Keys : Quiet(l, c)' => l # k /\ Quiet(l, c)
<1>1. /\ Len(log) \in Nat /\ Len(log') = Len(log) + 1
      /\ \A i \in 1..Len(log) : log'[i] = log[i]
  BY LogGrows
<1>2. log'[Len(log) + 1].key = k
  <2>1. log'[Len(log) + 1] = [key |-> k, op |-> o]
    BY LogGrows
  <2> QED  BY <2>1
<1>3. Len(log) + 1 \in Events(k, c, Len(log))'
  BY <1>1, <1>2 DEF Events
<1>4. \A l \in Keys : Events(l, c, Len(log)) \subseteq Events(l, c, Len(log))'
  BY <1>1 DEF Events
<1> QED  BY <1>3, <1>4 DEF Quiet

(* The watermarks: what an incremental run will store is not before what it  *)
(* started from.                                                             *)
LEMMA WatermarkStep ==
    ASSUME ReadInv, [Next]_vars
    PROVE  WatermarkInv'
<1> USE DEF external, NotAfter
<1>0. CdcTypeOK /\ BatchInv /\ WatermarkInv /\ JoinInv
  BY DEF ReadInv
<1>n. /\ Len(log) \in Nat /\ preMax \in Nat /\ snap \in Nat
      /\ cursor \in Nat \union {Unset} /\ store \in Nat \union {Unset} /\ state \in Nat \union {Unset}
  BY <1>0 DEF CdcTypeOK
<1>1. ASSUME UNCHANGED vars  PROVE WatermarkInv'
  BY <1>0, <1>1 DEF vars, WatermarkInv
<1>g. ASSUME NEW k \in Keys, NEW o \in {"U", "D"}, Logged(k, o),
             UNCHANGED <<mode, store, state, preMax, snap, cursor, phase>>
      PROVE  WatermarkInv'
  <2>1. Len(log') = Len(log) + 1
    BY <1>0, <1>g, LogGrows
  <2> QED  BY <1>0, <1>n, <1>g, <2>1 DEF WatermarkInv
<1>2. ASSUME NEW k \in Keys, Write(k)  PROVE WatermarkInv'
  BY <1>g, <1>2 DEF Write, Logged
<1>3. ASSUME NEW k \in Keys, Delete(k)  PROVE WatermarkInv'
  BY <1>g, <1>3 DEF Delete, Logged
<1>4. ASSUME NEW full \in FullRefresh, Begin(full)  PROVE WatermarkInv'
  BY <1>0, <1>n, <1>4 DEF Begin, WatermarkInv
<1>5. ASSUME ReadPreMax  PROVE WatermarkInv'
  BY <1>0, <1>n, <1>5 DEF ReadPreMax, WatermarkInv
<1>6. ASSUME NEW k \in Keys, ScanRow(k)  PROVE WatermarkInv'
  BY <1>0, <1>6 DEF ScanRow, WatermarkInv
<1>7. ASSUME ScanEnd  PROVE WatermarkInv'
  BY <1>0, <1>n, <1>7 DEF ScanEnd, Return, FirstWatermark, WatermarkInv
<1>8. ASSUME NEW k \in Keys, ShuttleRow(k)  PROVE WatermarkInv'
  BY <1>0, <1>8 DEF ShuttleRow, WatermarkInv
<1>9. ASSUME ShuttleEnd  PROVE WatermarkInv'
  BY <1>0, <1>n, <1>9 DEF ShuttleEnd, Return, FirstWatermark, WatermarkInv
<1>10. ASSUME RunQuery  PROVE WatermarkInv'
  BY <1>0, <1>n, <1>10 DEF RunQuery, WatermarkInv
<1>11. ASSUME NEW k \in Keys, JoinRow(k)  PROVE WatermarkInv'
  BY <1>0, <1>11 DEF JoinRow, WatermarkInv
<1>12. ASSUME JoinEnd  PROVE WatermarkInv'
  <2>1. /\ phase = "join" /\ cursor # Unset /\ cursor = store /\ cursor <= snap
        /\ snap <= Len(log) /\ mode # "none" /\ cursor \in Nat /\ cursor <= Len(log)
    BY <1>0, <1>n, <1>12 DEF JoinEnd, WatermarkInv
  <2>2. ASSUME NEW r \in batch  PROVE cursor <= r.cid
    <3>1. r \in Of(r.key) /\ r.key \in Keys
      BY <1>0, <2>2 DEF Of, CdcTypeOK, RowType
    <3>2. CASE r \in DeleteRows(snap)
      <4>1. r.cid \in Deletes(r.key, cursor, snap)
        BY <1>0, <1>n, <2>1, <3>2, DeleteRowsAre
      <4> QED  BY <1>n, <2>1, <4>1 DEF Deletes, Events
    <3>3. CASE /\ Updates(r.key, cursor, snap) # {}
               /\ r.cid = MaxOf(Updates(r.key, cursor, snap))
      <4>1. r.cid \in Updates(r.key, cursor, snap)
        BY <1>n, <2>1, <3>3, LastUpdate
      <4> QED  BY <1>n, <2>1, <4>1 DEF Updates, Events
    <3> QED  BY <1>0, <2>1, <3>1, <3>2, <3>3 DEF JoinInv
  <2>3. NextWatermark \in Nat /\ NextWatermark <= Len(log) /\ cursor <= NextWatermark
    BY <1>0, <1>n, <2>1, <2>2, NextWatermarkIs
  <2> QED  BY <1>0, <1>n, <1>12, <2>1, <2>3 DEF JoinEnd, Return, WatermarkInv
<1>13. ASSUME Commit  PROVE WatermarkInv'
  BY <1>0, <1>13 DEF Commit, WatermarkInv
<1>14. ASSUME SetState  PROVE WatermarkInv'
  BY <1>0, <1>14 DEF SetState, WatermarkInv
<1>15. ASSUME NEW kind, Fault(kind)  PROVE WatermarkInv'
  BY <1>0, <1>n, <1>15 DEF Fault, WatermarkInv
<1> QED
  BY <1>1, <1>2, <1>3, <1>4, <1>5, <1>6, <1>7, <1>8, <1>9, <1>10, <1>11, <1>12, <1>13,
     <1>14, <1>15, StepCases

(* The rows of a key when rows of one key are added to the batch.            *)
LEMMA OfGrows ==
    ASSUME NEW k, NEW R, \A r \in R : r.key = k, batch' = batch \union R
    PROVE  /\ Of(k)' = Of(k) \union R
           /\ \A j : j # k => Of(j)' = Of(j)
BY DEF Of

(* The rows of a scan are those of the source or of keys changed since.      *)
LEMMA ScanStep ==
    ASSUME ReadInv, [Next]_vars
    PROVE  ScanInv'
<1> USE DEF external
<1>0. CdcTypeOK /\ BatchInv /\ WatermarkInv /\ ScanInv /\ SourceInv
  BY DEF ReadInv
<1>n. /\ Len(log) \in Nat /\ preMax \in Nat /\ preMax <= Len(log)
      /\ source \in [Keys -> SUBSET Nat]
  BY <1>0 DEF CdcTypeOK, WatermarkInv
<1>1. ASSUME phase' # "scan"  PROVE ScanInv'
  BY <1>1 DEF ScanInv
<1>2. ASSUME UNCHANGED vars  PROVE ScanInv'
  BY <1>0, <1>2 DEF vars, ScanInv, Quiet, Events, Of
<1>g. ASSUME NEW k \in Keys, NEW o \in {"U", "D"}, Logged(k, o),
             \A j \in Keys \ {k} : source'[j] = source[j],
             UNCHANGED <<scanned, batch, unread, preMax, phase>>
      PROVE  ScanInv'
  <2>1. \A l \in Keys : Quiet(l, preMax)' => l # k /\ Quiet(l, preMax)
    <3>1. \A c \in Nat : c <= Len(log) + 1 =>
             \A l \in Keys : Quiet(l, c)' => l # k /\ Quiet(l, c)
      BY <1>0, <1>g, QuietGrows
    <3> QED  BY <1>n, <1>g, <3>1 DEF Quiet, Events
  <2>2. \A l : Of(l)' = Of(l)
    BY <1>g DEF Of
  <2> QED  BY <1>0, <1>g, <2>1, <2>2 DEF ScanInv
<1>3. ASSUME NEW k \in Keys, Write(k)  PROVE ScanInv'
  <2>1. \A j \in Keys \ {k} : source'[j] = source[j]
    BY <1>n, <1>3 DEF Write
  <2> QED  BY <1>g, <1>3, <2>1 DEF Write, Logged
<1>4. ASSUME NEW k \in Keys, Delete(k)  PROVE ScanInv'
  <2>1. \A j \in Keys \ {k} : source'[j] = source[j]
    BY <1>n, <1>4 DEF Delete
  <2> QED  BY <1>g, <1>4, <2>1 DEF Delete, Logged
<1>5. ASSUME ReadPreMax  PROVE ScanInv'
  <2>1. batch' = {} /\ unread' = Keys
    BY <1>0, <1>5 DEF ReadPreMax, BatchInv
  <2>2. phase' = "scan" => scanned'
    BY <1>5 DEF ReadPreMax
  <2> QED  BY <2>1, <2>2 DEF ScanInv, Of
<1>6. ASSUME NEW k \in Keys, ScanRow(k)  PROVE ScanInv'
  <2>1. /\ phase = "scan" /\ k \in unread /\ unread' = unread \ {k}
        /\ batch' = batch \union ScanRows(k) /\ scanned' = scanned
        /\ UNCHANGED <<log, source, preMax>>
    BY <1>6 DEF ScanRow
  <2>2. /\ \A r \in ScanRows(k) : /\ r.key = k /\ r.content \in source[k]
                                  /\ r.op = "none" /\ r.cid = 0 /\ r = Row(k, r.content, 0, "none")
        /\ \A v \in source[k] : Row(k, v, 0, "none") \in ScanRows(k)
    BY <1>0, ScanRowsAre
  <2>3. Of(k) = {}
    BY <1>0, <2>1 DEF ScanInv, Of
  <2>4. Of(k)' = ScanRows(k) /\ \A j : j # k => Of(j)' = Of(j)
    BY <2>1, <2>2, <2>3, OfGrows
  <2>5. \A r, q \in ScanRows(k) : r = q
    BY <1>0, <2>2 DEF SourceInv
  <2>6. source[k] = {r.content : r \in ScanRows(k)}
    BY <2>2, RowIs
  <2>7. \A r \in batch' : r.key \notin unread' /\ r.op = "none" /\ r.cid = 0
    BY <1>0, <2>1, <2>2 DEF ScanInv
  <2>8. \A j : Quiet(j, preMax)' = Quiet(j, preMax)
    BY <2>1 DEF Quiet, Events
  <2>9. ASSUME NEW j \in Keys
        PROVE  /\ \A r, q \in Of(j)' : r = q
               /\ j \notin unread' /\ Quiet(j, preMax)' => source'[j] = {r.content : r \in Of(j)'}
    <3>1. CASE j = k
      BY <2>1, <2>4, <2>5, <2>6, <3>1
    <3>2. CASE j # k
      BY <1>0, <2>1, <2>4, <2>8, <3>2 DEF ScanInv
    <3> QED  BY <3>1, <3>2
  <2> QED  BY <1>0, <2>1, <2>7, <2>9 DEF ScanInv
<1>7. ASSUME \/ ScanEnd \/ ShuttleEnd \/ RunQuery \/ JoinEnd \/ Commit \/ SetState
             \/ \E full \in FullRefresh : Begin(full)
             \/ \E k \in Keys : ShuttleRow(k) \/ JoinRow(k)
             \/ \E kind : Fault(kind)
      PROVE  ScanInv'
  BY <1>1, <1>7 DEF ScanEnd, ShuttleEnd, Return, RunQuery, JoinEnd, Commit, SetState, Begin,
     ShuttleRow, JoinRow, Fault
<1> QED
  BY <1>2, <1>3, <1>4, <1>5, <1>6, <1>7, StepCases

(* An update and a delete of a key are never the same event.                 *)
LEMMA UpdatesNotDeletes ==
    ASSUME NEW k, NEW c, NEW n, NEW i, i \in Updates(k, c, n), i \in Deletes(k, c, n)
    PROVE  FALSE
BY DEF Updates, Deletes

(* The rows of an incremental run are those of the query.                    *)
LEMMA JoinStep ==
    ASSUME ReadInv, [Next]_vars
    PROVE  JoinInv'
<1> USE DEF external
<1>0. CdcTypeOK /\ BatchInv /\ WatermarkInv /\ JoinInv /\ SourceInv
  BY DEF ReadInv
<1>n. /\ Len(log) \in Nat /\ snap \in Nat /\ snap <= Len(log)
      /\ source \in [Keys -> SUBSET Nat]
      /\ phase = "join" => cursor \in Nat /\ cursor # Unset
  BY <1>0 DEF CdcTypeOK, WatermarkInv
<1>1. ASSUME phase' # "join"  PROVE JoinInv'
  BY <1>1 DEF JoinInv
<1>2. ASSUME UNCHANGED vars  PROVE JoinInv'
  <2>1. UNCHANGED <<phase, scanned, batch, unread, snap, cursor, log, source>>
    BY <1>2 DEF vars
  <2>2. \A l : /\ Updates(l, cursor, snap)' = Updates(l, cursor, snap)
               /\ Quiet(l, snap + 1)' = Quiet(l, snap + 1)
               /\ Of(l)' = Of(l)
    BY <2>1 DEF Updates, Events, Quiet, Of
  <2>3. DeleteRows(snap)' = DeleteRows(snap)
    BY <2>1 DEF DeleteRows, Deletes, Events
  <2> QED  BY <1>0, <2>1, <2>2, <2>3 DEF JoinInv
<1>g. ASSUME NEW k \in Keys, NEW o \in {"U", "D"}, Logged(k, o),
             \A j \in Keys \ {k} : source'[j] = source[j],
             UNCHANGED <<scanned, batch, unread, snap, cursor, phase>>,
             phase = "join"
      PROVE  JoinInv'
  <2>1. ASSUME NEW l \in Keys
        PROVE  /\ Updates(l, cursor, snap)' = Updates(l, cursor, snap)
               /\ Deletes(l, cursor, snap)' = Deletes(l, cursor, snap)
    <3>1. /\ {i \in cursor..snap : i > 0 /\ log'[i].key = l} = Events(l, cursor, snap)
          /\ {i \in Events(l, cursor, snap) : log'[i].op # "D"} = Updates(l, cursor, snap)
          /\ {i \in Events(l, cursor, snap) : log'[i].op = "D"} = Deletes(l, cursor, snap)
      BY <1>0, <1>n, <1>g, EventsStay
    <3>2. Events(l, cursor, snap)' = {i \in cursor..snap : i > 0 /\ log'[i].key = l}
      BY <1>g DEF Events
    <3>3. /\ Updates(l, cursor, snap)' = {i \in Events(l, cursor, snap)' : log'[i].op # "D"}
          /\ Deletes(l, cursor, snap)' = {i \in Events(l, cursor, snap)' : log'[i].op = "D"}
      BY DEF Updates, Deletes
    <3> QED  BY <3>1, <3>2, <3>3
  <2>2. DeleteRows(snap)' = DeleteRows(snap)
    BY <2>1 DEF DeleteRows
  <2>3. \A l \in Keys : Quiet(l, snap + 1)' => l # k /\ Quiet(l, snap + 1)
    <3>1. \A c \in Nat : c <= Len(log) + 1 =>
             \A l \in Keys : Quiet(l, c)' => l # k /\ Quiet(l, c)
      BY <1>0, <1>g, QuietGrows
    <3>2. snap + 1 \in Nat /\ snap + 1 <= Len(log) + 1
      BY <1>n
    <3> QED  BY <1>g, <3>1, <3>2 DEF Quiet, Events
  <2>4. \A l : Of(l)' = Of(l)
    BY <1>g DEF Of
  <2>5. ~scanned' /\ DeleteRows(snap)' \subseteq batch'
    BY <1>0, <1>g, <2>2 DEF JoinInv
  <2>6. ASSUME NEW l \in Keys
        PROVE  /\ l \in unread' => Updates(l, cursor, snap)' # {}
               /\ \A r \in Of(l)' :
                     \/ r.op = "D" /\ r \in DeleteRows(snap)'
                     \/ /\ r.op = "U" /\ l \notin unread'
                        /\ Updates(l, cursor, snap)' # {}
                        /\ r.cid = MaxOf(Updates(l, cursor, snap)')
               /\ \A r, q \in Of(l)' : r.op = "U" /\ q.op = "U" => r = q
    BY <1>0, <1>g, <2>1, <2>2, <2>4 DEF JoinInv
  <2>7. ASSUME NEW l \in Keys, l \notin unread', Updates(l, cursor, snap)' # {}, Quiet(l, snap + 1)'
        PROVE  source'[l] = {r.content : r \in {q \in Of(l)' : q.op = "U"}}
    BY <1>0, <1>g, <2>1, <2>3, <2>4, <2>7 DEF JoinInv
  <2> QED  BY <2>5, <2>6, <2>7 DEF JoinInv
<1>3. ASSUME NEW k \in Keys, Write(k), phase = "join"  PROVE JoinInv'
  <2>1. \A j \in Keys \ {k} : source'[j] = source[j]
    BY <1>n, <1>3 DEF Write
  <2> QED  BY <1>g, <1>3, <2>1 DEF Write, Logged
<1>4. ASSUME NEW k \in Keys, Delete(k), phase = "join"  PROVE JoinInv'
  <2>1. \A j \in Keys \ {k} : source'[j] = source[j]
    BY <1>n, <1>4 DEF Delete
  <2> QED  BY <1>g, <1>4, <2>1 DEF Delete, Logged
<1>5. ASSUME RunQuery  PROVE JoinInv'
  <2>1. /\ snap' = Len(log) /\ cursor' = cursor /\ log' = log /\ ~scanned'
        /\ unread' = {k \in Keys : Updates(k, cursor, Len(log)) # {}}
        /\ batch' = DeleteRows(Len(log)) /\ cursor # Unset
    BY <1>5 DEF RunQuery
  <2>2. DeleteRows(snap)' = DeleteRows(Len(log))
    BY <2>1 DEF DeleteRows, Deletes, Events
  <2>3. \A l : Updates(l, cursor, snap)' = Updates(l, cursor, Len(log))
    BY <2>1 DEF Updates, Events
  <2>4. \A r \in batch' : r.op = "D" /\ r \in DeleteRows(snap)'
    BY <1>0, <1>n, <2>1, <2>2, DeleteRowsAre
  <2>5. \A l : \A r \in Of(l)' : r \in batch'
    BY DEF Of
  <2>6. \A l : \A r \in Of(l)' : r.op = "D" /\ r \in DeleteRows(snap)'
    BY <2>4, <2>5
  <2>7. \A l \in Keys : l \in unread' <=> Updates(l, cursor, snap)' # {}
    BY <2>1, <2>3
  <2> QED  BY <2>1, <2>2, <2>6, <2>7 DEF JoinInv
<1>6. ASSUME NEW k \in Keys, JoinRow(k)  PROVE JoinInv'
  <2>1. /\ phase = "join" /\ k \in unread /\ unread' = unread \ {k}
        /\ batch' = batch \union UpdateRows(k) /\ scanned' = scanned
        /\ UNCHANGED <<log, source, snap, cursor, phase>>
    BY <1>6 DEF JoinRow
  <2>2. Updates(k, cursor, snap) # {}
    BY <1>0, <2>1 DEF JoinInv
  <2>3. /\ \A r \in UpdateRows(k) : /\ r.key = k /\ r.content \in source[k] /\ r.op = "U"
                                    /\ r.cid = MaxOf(Updates(k, cursor, snap))
                                    /\ r = Row(k, r.content, r.cid, "U")
    BY <1>0, <1>n, <2>1, <2>2, UpdateRowsAre
  <2>4. \A v \in source[k] : \E r \in UpdateRows(k) : r.content = v
    <3>1. ASSUME NEW v \in source[k]
          PROVE  Row(k, v, MaxOf(Updates(k, cursor, snap)), "U") \in UpdateRows(k)
      BY DEF UpdateRows
    <3> QED  BY <3>1, RowIs
  <2>5. Of(k)' = Of(k) \union UpdateRows(k) /\ \A j : j # k => Of(j)' = Of(j)
    BY <2>1, <2>3, OfGrows
  <2>6. \A r \in Of(k) : r.op = "D" /\ r \in DeleteRows(snap)
    BY <1>0, <2>1 DEF JoinInv
  <2>7. \A r, q \in UpdateRows(k) : r = q
    BY <1>0, <2>3 DEF SourceInv
  <2>8. source[k] = {r.content : r \in {q \in Of(k)' : q.op = "U"}}
    <3>1. {q \in Of(k)' : q.op = "U"} = UpdateRows(k)
      BY <2>3, <2>5, <2>6
    <3>2. source[k] = {r.content : r \in UpdateRows(k)}
      BY <2>3, <2>4
    <3> QED  BY <3>1, <3>2
  <2>9. /\ DeleteRows(snap)' = DeleteRows(snap)
        /\ \A l : Updates(l, cursor, snap)' = Updates(l, cursor, snap)
        /\ \A l : Quiet(l, snap + 1)' = Quiet(l, snap + 1)
    BY <2>1 DEF DeleteRows, Deletes, Updates, Events, Quiet
  <2>10. ASSUME NEW l \in Keys
         PROVE  /\ l \in unread' => Updates(l, cursor, snap)' # {}
                /\ \A r \in Of(l)' :
                      \/ r.op = "D" /\ r \in DeleteRows(snap)'
                      \/ /\ r.op = "U" /\ l \notin unread'
                         /\ Updates(l, cursor, snap)' # {}
                         /\ r.cid = MaxOf(Updates(l, cursor, snap)')
                /\ \A r, q \in Of(l)' : r.op = "U" /\ q.op = "U" => r = q
                /\ l \notin unread' /\ Updates(l, cursor, snap)' # {} /\ Quiet(l, snap + 1)' =>
                      source'[l] = {r.content : r \in {q \in Of(l)' : q.op = "U"}}
    <3>1. CASE l = k
      <4>1. \A r \in Of(k)' : \/ r.op = "D" /\ r \in DeleteRows(snap)
                              \/ r \in UpdateRows(k)
        BY <2>5, <2>6
      <4>2. \A r, q \in Of(k)' : r.op = "U" /\ q.op = "U" => r = q
        BY <2>7, <4>1
      <4> QED  BY <2>1, <2>2, <2>3, <2>8, <2>9, <3>1, <4>1, <4>2
    <3>2. CASE l # k
      BY <1>0, <2>1, <2>5, <2>9, <3>2 DEF JoinInv
    <3> QED  BY <3>1, <3>2
  <2>11. ~scanned' /\ DeleteRows(snap)' \subseteq batch'
    BY <1>0, <2>1, <2>9 DEF JoinInv
  <2> QED  BY <2>10, <2>11 DEF JoinInv
<1>7. ASSUME \/ ScanEnd \/ ShuttleEnd \/ ReadPreMax \/ JoinEnd \/ Commit \/ SetState
             \/ \E full \in FullRefresh : Begin(full)
             \/ \E k \in Keys : ShuttleRow(k) \/ ScanRow(k)
             \/ \E k \in Keys : phase # "join" /\ (Write(k) \/ Delete(k))
             \/ \E kind : Fault(kind)
      PROVE  JoinInv'
  BY <1>1, <1>7 DEF ScanEnd, ShuttleEnd, Return, ReadPreMax, JoinEnd, Commit, SetState, Begin,
     ShuttleRow, ScanRow, Fault, Write, Delete
<1> QED
  BY <1>2, <1>3, <1>4, <1>5, <1>6, <1>7, StepCases

(* The rows of a batch.                                                      *)
LEMMA BatchStep ==
    ASSUME ReadInv, [Next]_vars
    PROVE  BatchInv'
<1> USE DEF external
<1>0. CdcTypeOK /\ BatchInv /\ WatermarkInv /\ ScanInv /\ JoinInv /\ SourceInv
  BY DEF ReadInv
<1>n. /\ Len(log) \in Nat /\ snap \in Nat /\ snap <= Len(log)
      /\ source \in [Keys -> SUBSET Nat] /\ batch \subseteq RowType
  BY <1>0 DEF CdcTypeOK, WatermarkInv
<1>1. ASSUME batch' \subseteq batch, log' = log, scanned' => mode' # "shuttle",
             phase' = "shuttle" => mode' = "shuttle",
             phase' \in {"idle", "read", "shuttle", "landed"} => batch' = {}
      PROVE  BatchInv'
  <2>1. \A k : Of(k)' \subseteq Of(k)
    BY <1>1 DEF Of
  <2> QED  BY <1>0, <1>1, <2>1 DEF BatchInv
<1>2. ASSUME NEW k \in Keys, NEW o \in {"U", "D"}, Logged(k, o),
             UNCHANGED <<scanned, mode, batch, phase>>
      PROVE  BatchInv'
  <2>1. Len(log') = Len(log) + 1 /\ \A l : Of(l)' = Of(l)
    BY <1>0, <1>2, LogGrows DEF Of
  <2>2. \A r \in batch : r.cid \in Nat /\ r.cid <= Len(log)
                         /\ (r.op # "D" => r.content \in 0..Len(log))
    BY <1>0, <1>n DEF BatchInv, RowType
  <2>3. \A r \in batch' : r.cid <= Len(log') /\ (r.op # "D" => r.content \in 0..Len(log'))
    BY <1>n, <1>2, <2>1, <2>2
  <2> QED  BY <1>0, <1>2, <2>1, <2>3 DEF BatchInv
<1>3. ASSUME NEW k \in Keys, Write(k) \/ Delete(k)  PROVE BatchInv'
  BY <1>2, <1>3 DEF Write, Delete, Logged
<1>4. ASSUME \/ UNCHANGED vars
             \/ \E full \in FullRefresh : Begin(full)
             \/ ReadPreMax \/ ScanEnd \/ ShuttleEnd \/ JoinEnd \/ Commit \/ SetState
             \/ \E k \in Keys : ShuttleRow(k)
             \/ \E kind : Fault(kind)
      PROVE  BatchInv'
  <2>1. batch' \subseteq batch /\ log' = log
    BY <1>4 DEF vars, Begin, ReadPreMax, ScanEnd, ShuttleEnd, JoinEnd, Return,
       Commit, SetState, ShuttleRow, Fault
  <2>3. mode' = mode /\ (scanned' = scanned \/ scanned' = (mode # "shuttle"))
    BY <1>4 DEF vars, Begin, ReadPreMax, ScanEnd, ShuttleEnd, JoinEnd, Return,
       Commit, SetState, ShuttleRow, Fault
  <2>4. scanned' => mode' # "shuttle"
    BY <1>0, <2>3 DEF BatchInv
  <2>5. phase' = "shuttle" => mode' = "shuttle"
    BY <1>0, <1>4, <2>3 DEF BatchInv, vars, Begin, ReadPreMax, ScanEnd, ShuttleEnd, JoinEnd,
       Return, Commit, SetState, ShuttleRow, Fault
  <2>2. phase' \in {"idle", "read", "shuttle", "landed"} => batch' = {}
    BY <1>0, <1>4 DEF BatchInv, vars, Begin, ReadPreMax, ScanEnd, ShuttleEnd, JoinEnd, Return,
       Commit, SetState, ShuttleRow, Fault
  <2> QED  BY <1>1, <2>1, <2>2, <2>4, <2>5
<1>5. ASSUME NEW k \in Keys, NEW R, \A r \in R : r.key = k, batch' = batch \union R,
             \A r \in R : r.cid <= Len(log) /\ (r.op # "D" => r.content \in 0..Len(log)),
             \A r, q \in R : r = q,
             \A r \in R : \A q \in Of(k) : r.op # q.op /\ r.cid # q.cid,
             phase \in {"scan", "join"}, UNCHANGED <<log, mode, phase, scanned>>
      PROVE  BatchInv'
  <2>1. Of(k)' = Of(k) \union R /\ \A j : j # k => Of(j)' = Of(j)
    BY <1>5, OfGrows
  <2>2. ASSUME NEW j \in Keys, NEW r \in Of(j)', NEW q \in Of(j)', r.op = q.op \/ r.cid = q.cid
        PROVE  r = q
    <3>1. CASE j # k \/ (r \in Of(k) /\ q \in Of(k))
      BY <1>0, <2>1, <2>2, <3>1 DEF BatchInv
    <3>2. CASE j = k /\ (r \in R \/ q \in R)
      BY <1>5, <2>1, <2>2, <3>2
    <3> QED  BY <2>1, <3>1, <3>2
  <2> QED  BY <1>0, <1>5, <2>2 DEF BatchInv
<1>6. ASSUME NEW k \in Keys, ScanRow(k)  PROVE BatchInv'
  <2>1. /\ \A r \in ScanRows(k) : /\ r.key = k /\ r.content \in source[k]
                                  /\ r.op = "none" /\ r.cid = 0 /\ r = Row(k, r.content, 0, "none")
    BY <1>0, ScanRowsAre
  <2>2. Of(k) = {}
    BY <1>0, <1>6 DEF ScanRow, ScanInv, Of
  <2>3. \A r, q \in ScanRows(k) : r = q
    BY <1>0, <2>1 DEF SourceInv
  <2>4. source[k] \subseteq 0..Len(log)
    <3>1. \A v \in source[k] : v \in Nat /\ v <= Len(log)
      BY <1>0, <1>n DEF SourceInv, RowLogged
    <3> QED  BY <1>n, <3>1
  <2> QED  BY <1>5, <1>6, <1>n, <2>1, <2>2, <2>3, <2>4 DEF ScanRow
<1>7. ASSUME NEW k \in Keys, JoinRow(k)  PROVE BatchInv'
  <2>1. /\ cursor # Unset /\ cursor \in Nat /\ Updates(k, cursor, snap) # {}
        /\ phase = "join" /\ k \in unread
    BY <1>0, <1>7 DEF JoinRow, WatermarkInv, JoinInv, CdcTypeOK
  <2>2. /\ \A r \in UpdateRows(k) : /\ r.key = k /\ r.content \in source[k] /\ r.op = "U"
                                    /\ r.cid \in Updates(k, cursor, snap)
                                    /\ r.cid = MaxOf(Updates(k, cursor, snap))
                                    /\ r = Row(k, r.content, r.cid, "U")
    BY <1>0, <1>n, <2>1, UpdateRowsAre
  <2>3. \A r, q \in UpdateRows(k) : r = q
    BY <1>0, <2>2 DEF SourceInv
  <2>4. source[k] \subseteq 0..Len(log)
    <3>1. \A v \in source[k] : v \in Nat /\ v <= Len(log)
      BY <1>0, <1>n DEF SourceInv, RowLogged
    <3> QED  BY <1>n, <3>1
  <2>5. \A r \in UpdateRows(k) : r.cid <= Len(log)
    <3>1. \A r \in UpdateRows(k) : r.cid \in cursor..snap
      BY <2>2 DEF Updates, Events
    <3> QED  BY <1>n, <2>1, <3>1
  <2>6. \A q \in Of(k) : q.op = "D" /\ q.cid \in Deletes(k, cursor, snap)
    <3>1. \A q \in Of(k) : q.op = "D" /\ q \in DeleteRows(snap) /\ q.key = k
      BY <1>0, <2>1 DEF JoinInv, Of
    <3> QED  BY <1>0, <1>n, <2>1, <3>1, DeleteRowsAre
  <2>7. \A r \in UpdateRows(k) : \A q \in Of(k) : r.op # q.op /\ r.cid # q.cid
    BY <2>2, <2>6, UpdatesNotDeletes
  <2> QED  BY <1>5, <1>7, <2>1, <2>2, <2>3, <2>4, <2>5, <2>7 DEF JoinRow
<1>8. ASSUME RunQuery  PROVE BatchInv'
  <2>1. batch' = DeleteRows(Len(log)) /\ cursor # Unset /\ cursor \in Nat
    BY <1>0, <1>8 DEF RunQuery, CdcTypeOK
  <2>2. \A r \in batch' : /\ r.op = "D" /\ r.cid = MaxOf(Deletes(r.key, cursor, Len(log)))
                          /\ r = Row(r.key, Blank, r.cid, "D")
                          /\ r.cid \in Deletes(r.key, cursor, Len(log))
    BY <1>0, <1>n, <2>1, DeleteRowsAre
  <2>3. \A r \in batch' : r.cid <= Len(log)
    <3>1. \A r \in batch' : r.cid \in cursor..Len(log)
      BY <2>2 DEF Deletes, Events
    <3> QED  BY <1>n, <2>1, <3>1
  <2>4. \A k \in Keys : \A r, q \in Of(k)' : r = q
    BY <2>2 DEF Of
  <2> QED  BY <1>8, <2>2, <2>3, <2>4 DEF RunQuery, BatchInv
<1> QED
  BY <1>3, <1>4, <1>6, <1>7, <1>8, StepCases

(* ReadInv holds in every state, whatever the destination does with a batch. *)
THEOREM ReadInvariant == Spec => []ReadInv
<1>1. Init => ReadInv
  <2>1. ASSUME Init  PROVE CdcTypeOK
    <3>1. source \in [Keys -> SUBSET Nat] /\ target \in [Keys -> SUBSET (Nat \union {Blank})]
      BY <2>1 DEF Init
    <3>2. log \in Seq([key : Keys, op : {"U", "D"}])
      BY <2>1 DEF Init
    <3>3. /\ mode \in Modes /\ doubled \subseteq Keys /\ store \in Nat \union {Unset}
          /\ cursor \in Nat \union {Unset} /\ preMax \in Nat /\ snap \in Nat
          /\ state \in Nat \union {Unset}
      BY <2>1 DEF Init
    <3>4. /\ phase \in {"idle", "read", "scan", "shuttle", "join", "loaded", "landed"}
          /\ unread \subseteq Keys /\ batch \subseteq RowType
      BY <2>1 DEF Init
    <3>5. faults \in 0..MaxFaults
      BY <2>1 DEF Init
    <3>6. scanned \in BOOLEAN /\ reloaded \in BOOLEAN
      BY <2>1 DEF Init
    <3> QED  BY <3>1, <3>2, <3>3, <3>4, <3>5, <3>6 DEF CdcTypeOK
  <2>2. ASSUME Init  PROVE SourceInv
    <3>1. Len(log) = 0 /\ \A k \in Keys : source[k] \in {{}, {0}}
      BY <2>1, <2>2 DEF Init
    <3>2. \A k, c : Events(k, c, Len(log)) = {}
      <4>1. \A k, c : \A i \in c..0 : ~(i > 0)
        OBVIOUS
      <4> QED  BY <3>1, <4>1 DEF Events
    <3>3. \A k \in Keys : \A v \in source[k] : v = 0
      BY <3>1
    <3>4. \A k \in Keys : RowLogged(k)
      BY <3>1, <3>2, <3>3 DEF RowLogged, Quiet
    <3>5. \A k \in Keys : GoneLogged(k)
      BY <3>2 DEF GoneLogged
    <3> QED  BY <3>3, <3>4, <3>5 DEF SourceInv
  <2>3. Init => WatermarkInv
    BY DEF Init, WatermarkInv, NotAfter
  <2>4. Init => ScanInv /\ JoinInv /\ BatchInv
    BY DEF Init, ScanInv, JoinInv, BatchInv, Of
  <2> QED  BY <2>1, <2>2, <2>3, <2>4 DEF ReadInv
<1>2. ReadInv /\ [Next]_vars => ReadInv'
  BY TypeStep, SourceStep, WatermarkStep, ScanStep, JoinStep, BatchStep DEF ReadInv
<1> QED  BY <1>1, <1>2, PTL DEF Spec

(* Every variable has its type.                                              *)
THEOREM CdcTypeCorrect == Spec => []CdcTypeOK
<1>1. ReadInv => CdcTypeOK
  BY DEF ReadInv
<1> QED  BY <1>1, ReadInvariant, PTL

(* The watermark in the store never moves back, whatever fails and whenever: *)
(* a run that stores one has read at least as far as the last that did.      *)
THEOREM WatermarkMovesOn == Spec => CidNeverRegresses
<1>1. ReadInv /\ [Next]_vars => [store # Unset => store' # Unset /\ store' >= store]_vars
  <2> SUFFICES ASSUME ReadInv, [Next]_vars
               PROVE  store # Unset => store' # Unset /\ store' >= store
    OBVIOUS
  <2>1. store \in Nat \union {Unset} /\ state \in Nat \union {Unset} /\ WatermarkInv
    BY DEF ReadInv, CdcTypeOK
  <2>2. CASE SetState
    BY <2>1, <2>2 DEF SetState, WatermarkInv, NotAfter
  <2>3. CASE ~SetState
    <3>1. store' = store
      BY <2>3 DEF Next, Step, vars, external, Write, Delete, Begin, ReadPreMax, ScanRow, ScanEnd,
         ShuttleRow, ShuttleEnd, RunQuery, JoinRow, JoinEnd, Commit, Return, ReadFails,
         CommitFails, AckLost, SetFails, Crash, Fault
    <3> QED  BY <2>1, <3>1
  <2> QED  BY <2>2, <2>3
<1> QED  BY <1>1, ReadInvariant, PTL DEF Spec, CidNeverRegresses

-----------------------------------------------------------------------------
(* What the destination holds, when MSSQLDestination merges the batches.     *)

(* What the source holds of a key was written to it, after all that ever was.*)
LEMMA SourceNewest ==
    ASSUME CdcTypeOK, SourceInv, NEW k \in Keys, NEW v \in source[k]
    PROVE  /\ v \in Nat /\ WrittenBy(k, v)
           /\ v > 0 => v \in Updates(k, v, Len(log))
           /\ \A u : WrittenBy(k, u) => u <= v
<1>1. Len(log) \in Nat /\ v \in Nat /\ v + 1 \in Nat
  BY DEF CdcTypeOK
<1>2. v <= Len(log) /\ Quiet(k, v + 1) /\ (v > 0 => log[v] = [key |-> k, op |-> "U"])
  BY DEF SourceInv, RowLogged
<1>3. v > 0 => log[v].key = k /\ log[v].op = "U"
  BY <1>2
<1>4. \A i \in 1..Len(log) : v + 1 <= i => log[i].key # k
  BY <1>1, <1>2, QuietIs
<1>5. ASSUME NEW u, WrittenBy(k, u)  PROVE u <= v
  BY <1>1, <1>4, <1>5 DEF WrittenBy
<1>6. v > 0 => v \in Updates(k, v, Len(log))
  BY <1>1, <1>2, <1>3 DEF Updates, Events
<1> QED  BY <1>1, <1>2, <1>3, <1>5, <1>6 DEF WrittenBy

(* What was written stays written, and what is deleted stays deleted.        *)
LEMMA WrittenStays ==
    ASSUME CdcTypeOK, NEW k \in Keys, NEW o \in {"U", "D"}, Logged(k, o), NEW l
    PROVE  /\ \A v : WrittenBy(l, v) => WrittenBy(l, v)'
           /\ \A v : WrittenBy(l, v) /\ Deletes(l, v, Len(log)) # {} => Deletes(l, v, Len(log))' # {}
<1>1. /\ Len(log) \in Nat /\ Len(log') = Len(log) + 1
      /\ \A i \in 1..Len(log) : log'[i] = log[i]
  BY LogGrows
<1>2. ASSUME NEW v, WrittenBy(l, v)  PROVE WrittenBy(l, v)'
  BY <1>1, <1>2 DEF WrittenBy
<1>3. ASSUME NEW v, WrittenBy(l, v), Deletes(l, v, Len(log)) # {}
      PROVE  Deletes(l, v, Len(log))' # {}
  <2>1. v \in Nat
    BY <1>1, <1>3 DEF WrittenBy
  <2>2. PICK d \in Deletes(l, v, Len(log)) : TRUE
    BY <1>3
  <2>3. d \in 1..Len(log) /\ v <= d /\ log[d].key = l /\ log[d].op = "D"
    BY <1>1, <2>1, <2>2 DEF Deletes, Events
  <2>4. d \in Deletes(l, v, Len(log))'
    BY <1>1, <2>1, <2>3 DEF Deletes, Events
  <2> QED  BY <2>4
<1> QED  BY <1>2, <1>3

(* A delete row takes away what was deleted, unless an update came later.    *)
LEMMA DeleteCovers ==
    ASSUME CdcTypeOK, NEW k \in Keys, cursor \in Nat, cursor # Unset,
           NEW n \in Nat, n <= Len(log), NEW r \in DeleteRows(n), r.key = k,
           NEW v, WrittenBy(k, v), v <= n, \A i \in Updates(k, cursor, n) : i < r.cid
    PROVE  Deletes(k, v, Len(log)) # {}
<1>1. Len(log) \in Nat /\ v \in Nat /\ v <= Len(log) /\ (v > 0 => log[v].key = k)
  BY DEF CdcTypeOK, WrittenBy
<1>2. r.cid \in Deletes(k, cursor, n)
  BY DeleteRowsAre
<1>3. /\ r.cid \in Nat /\ cursor <= r.cid /\ r.cid <= n /\ 1 <= r.cid
      /\ log[r.cid].key = k /\ log[r.cid].op = "D"
  BY <1>2 DEF Deletes, Events
<1>4. CASE v <= r.cid
  <2>1. r.cid \in Deletes(k, v, Len(log))
    BY <1>1, <1>3, <1>4 DEF Deletes, Events
  <2> QED  BY <2>1
<1>5. CASE r.cid < v
  <2>1. v \in Events(k, cursor, n)
    BY <1>1, <1>3, <1>5 DEF Events
  <2>2. v \notin Updates(k, cursor, n)
    BY <1>1, <1>3, <1>5
  <2>3. log[v].op = "D"
    BY <2>1, <2>2 DEF Updates
  <2>4. v \in Deletes(k, v, Len(log))
    BY <1>1, <1>3, <1>5, <2>3 DEF Deletes, Events
  <2> QED  BY <2>4
<1> QED  BY <1>1, <1>3, <1>4, <1>5

(* What lands is what was there, a row of the batch that is not a delete, or *)
(* nothing.                                                                  *)
LEMMA MergedIs ==
    ASSUME Dialect = "mssql", CdcTypeOK, BatchInv, NEW k \in Keys
    PROVE  \/ Of(k) = {} /\ Merged[k] = target[k]
           \/ /\ Of(k) # {} /\ Winner(k) \in Of(k) /\ \A q \in Of(k) : q.cid <= Winner(k).cid
              /\ \/ Winner(k).op = "D" /\ Merged[k] = {}
                 \/ Winner(k).op # "D" /\ Merged[k] = {Winner(k).content}
BY WinnerIs DEF Merged, MergedMSSQL

(* Nothing goes back in time.                                                *)
LEMMA ForwardStep ==
    ASSUME Dialect = "mssql", MirrorInv, [Next]_vars
    PROVE  ForwardInv'
<1> USE DEF external
<1>0. /\ CdcTypeOK /\ BatchInv /\ WatermarkInv /\ ScanInv /\ JoinInv /\ SourceInv
      /\ ForwardInv
  BY DEF ReadInv, MirrorInv
<1>n. /\ Len(log) \in Nat /\ snap \in Nat /\ snap <= Len(log)
      /\ phase = "join" => cursor \in Nat /\ cursor # Unset
      /\ target \in [Keys -> SUBSET (Nat \union {Blank})]
  BY <1>0 DEF CdcTypeOK, WatermarkInv
<1>f. /\ \A k \in Keys : \A v \in target[k] : WrittenBy(k, v)
      /\ \A k \in Keys : \A r \in Of(k) : r.op # "D" =>
            WrittenBy(k, r.content) /\ \A v \in target[k] : v <= r.content
      /\ phase = "join" => \A k \in Keys : \A v \in target[k] : v <= snap
      /\ phase \in {"join", "loaded"} =>
            \A k \in Keys : ~(phase = "join" /\ k \in unread) =>
               \A r \in Of(k) : r.op = "D" =>
                   \/ \E q \in Of(k) : q.cid > r.cid
                   \/ \A v \in target[k] : Deletes(k, v, Len(log)) # {}
  BY <1>0 DEF ForwardInv
<1>1. ASSUME UNCHANGED <<log, target, batch, snap, unread, phase>>  PROVE ForwardInv'
  <2>1. /\ \A k, v : WrittenBy(k, v)' = WrittenBy(k, v)
        /\ \A k, v : Deletes(k, v, Len(log))' = Deletes(k, v, Len(log))
        /\ \A k : Of(k)' = Of(k)
    BY <1>1 DEF WrittenBy, Deletes, Events, Of
  <2> QED  BY <1>1, <1>f, <2>1 DEF ForwardInv
<1>2. ASSUME NEW k \in Keys, NEW o \in {"U", "D"}, Logged(k, o),
             UNCHANGED <<target, batch, snap, unread, phase>>
      PROVE  ForwardInv'
  <2>1. /\ \A l, v : WrittenBy(l, v) => WrittenBy(l, v)'
        /\ \A l, v : WrittenBy(l, v) /\ Deletes(l, v, Len(log)) # {} => Deletes(l, v, Len(log))' # {}
        /\ \A l : Of(l)' = Of(l)
    BY <1>0, <1>2, WrittenStays DEF Of
  <2> QED  BY <1>2, <1>f, <2>1 DEF ForwardInv
<1>3. ASSUME NEW k \in Keys, Write(k) \/ Delete(k)  PROVE ForwardInv'
  BY <1>2, <1>3 DEF Write, Delete, Logged
<1>4. ASSUME UNCHANGED <<log, target>>, batch' = {}, phase' # "join"  PROVE ForwardInv'
  <2>1. \A k : Of(k)' = {}
    BY <1>4 DEF Of
  <2>2. \A k, v : WrittenBy(k, v)' = WrittenBy(k, v)
    BY <1>4 DEF WrittenBy
  <2> QED  BY <1>4, <1>f, <2>1, <2>2 DEF ForwardInv
<1>5. ASSUME \/ \E full \in FullRefresh : Begin(full)
             \/ ReadPreMax \/ ShuttleEnd \/ SetState
             \/ \E kind : Fault(kind) /\ UNCHANGED target
      PROVE  ForwardInv'
  <2>1. UNCHANGED <<log, target>> /\ batch' = {} /\ phase' # "join"
    BY <1>0, <1>5 DEF Begin, ReadPreMax, ShuttleEnd, Return, SetState, Fault, BatchInv
  <2> QED  BY <1>4, <2>1
<1>6. ASSUME NEW k \in Keys, ScanRow(k)  PROVE ForwardInv'
  <2>1. /\ batch' = batch \union ScanRows(k) /\ UNCHANGED <<log, target, snap, phase>>
        /\ phase = "scan"
    BY <1>6 DEF ScanRow
  <2>2. \A r \in ScanRows(k) : /\ r.key = k /\ WrittenBy(k, r.content)
                               /\ \A v \in target[k] : v <= r.content
    BY <1>0, <1>f, ScanRowsAre, SourceNewest
  <2>3. Of(k)' = Of(k) \union ScanRows(k) /\ \A j : j # k => Of(j)' = Of(j)
    BY <2>1, <2>2, OfGrows
  <2>4. \A l, v : WrittenBy(l, v)' = WrittenBy(l, v)
    BY <2>1 DEF WrittenBy
  <2>5. \A j \in Keys : \A r \in Of(j)' : r.op # "D" =>
            WrittenBy(j, r.content)' /\ \A v \in target'[j] : v <= r.content
    BY <1>f, <2>1, <2>2, <2>3, <2>4
  <2> QED  BY <1>f, <2>1, <2>4, <2>5 DEF ForwardInv
<1>7. ASSUME ScanEnd  PROVE ForwardInv'
  <2>1. UNCHANGED <<log, target, batch>> /\ phase = "scan" /\ phase' = "loaded"
    BY <1>7 DEF ScanEnd, Return
  <2>2. \A k : \A r \in Of(k) : r.op # "D"
    BY <1>0, <2>1 DEF ScanInv, Of
  <2>3. (\A k : Of(k)' = Of(k)) /\ \A l, v : WrittenBy(l, v)' = WrittenBy(l, v)
    BY <2>1 DEF Of, WrittenBy
  <2> QED  BY <1>f, <2>1, <2>2, <2>3 DEF ForwardInv
<1>8. ASSUME NEW k \in Keys, ShuttleRow(k)  PROVE ForwardInv'
  <2>1. /\ target' = [target EXCEPT ![k] = @ \union source[k]] /\ log' = log
        /\ batch' = {} /\ phase' = "shuttle"
    BY <1>0, <1>8 DEF ShuttleRow, BatchInv
  <2>2. target'[k] = target[k] \union source[k] /\ \A j \in Keys \ {k} : target'[j] = target[j]
    BY <1>n, <2>1
  <2>3. \A v \in source[k] : WrittenBy(k, v)
    BY <1>0, SourceNewest
  <2>4. (\A j : Of(j)' = {}) /\ \A l, v : WrittenBy(l, v)' = WrittenBy(l, v)
    BY <2>1 DEF Of, WrittenBy
  <2>5. \A j \in Keys : \A v \in target'[j] : WrittenBy(j, v)'
    BY <1>f, <2>2, <2>3, <2>4
  <2> QED  BY <2>1, <2>4, <2>5 DEF ForwardInv
<1>9. ASSUME RunQuery  PROVE ForwardInv'
  <2>1. /\ snap' = Len(log) /\ log' = log /\ target' = target /\ phase' = "join"
        /\ unread' = {k \in Keys : Updates(k, cursor, Len(log)) # {}}
        /\ batch' = DeleteRows(Len(log)) /\ cursor # Unset /\ cursor \in Nat
    BY <1>0, <1>9 DEF RunQuery, CdcTypeOK
  <2>2. \A k : \A r \in Of(k)' : r.op = "D" /\ r.key = k /\ r \in DeleteRows(Len(log))
    BY <1>0, <1>n, <2>1, DeleteRowsAre DEF Of
  <2>3. /\ \A l, v : WrittenBy(l, v)' = WrittenBy(l, v)
        /\ \A l, v : Deletes(l, v, Len(log))' = Deletes(l, v, Len(log))
    BY <2>1 DEF WrittenBy, Deletes, Events
  <2>4. \A k \in Keys : \A v \in target[k] : WrittenBy(k, v) /\ v <= Len(log)
    BY <1>n, <1>f DEF WrittenBy
  <2>5. ASSUME NEW k \in Keys, k \notin unread', NEW r \in Of(k)', NEW v \in target[k]
        PROVE  Deletes(k, v, Len(log)) # {}
    <3>1. Updates(k, cursor, Len(log)) = {}
      BY <2>1, <2>5
    <3> QED  BY <1>0, <1>n, <2>1, <2>2, <2>4, <2>5, <3>1, DeleteCovers
  <2> QED  BY <2>1, <2>2, <2>3, <2>4, <2>5 DEF ForwardInv
<1>10. ASSUME NEW k \in Keys, JoinRow(k)  PROVE ForwardInv'
  <2>1. /\ phase = "join" /\ k \in unread /\ unread' = unread \ {k}
        /\ batch' = batch \union UpdateRows(k)
        /\ UNCHANGED <<log, target, snap, phase>>
    BY <1>10 DEF JoinRow
  <2>2. Updates(k, cursor, snap) # {} /\ cursor # Unset /\ cursor \in Nat
    BY <1>0, <1>n, <2>1 DEF JoinInv
  <2>3. \A r \in UpdateRows(k) :
           /\ r.key = k /\ r.content \in source[k] /\ r.op = "U"
           /\ r.cid \in Updates(k, cursor, snap)
           /\ \A i \in Updates(k, cursor, snap) : i <= r.cid
    BY <1>0, <1>n, <2>2, UpdateRowsAre
  <2>4. \A r \in UpdateRows(k) : WrittenBy(k, r.content) /\ \A v \in target[k] : v <= r.content
    BY <1>0, <1>f, <2>3, SourceNewest
  <2>5. Of(k)' = Of(k) \union UpdateRows(k) /\ \A j : j # k => Of(j)' = Of(j)
    BY <2>1, <2>3, OfGrows
  <2>6. /\ \A l, v : WrittenBy(l, v)' = WrittenBy(l, v)
        /\ \A l, v : Deletes(l, v, Len(log))' = Deletes(l, v, Len(log))
    BY <2>1 DEF WrittenBy, Deletes, Events
  <2>7. \A j \in Keys : \A r \in Of(j)' : r.op # "D" =>
            WrittenBy(j, r.content)' /\ \A v \in target'[j] : v <= r.content
    BY <1>f, <2>1, <2>4, <2>5, <2>6
  <2>8. ASSUME NEW r \in Of(k), r.op = "D", ~ \E q \in Of(k)' : q.cid > r.cid,
               NEW v \in target[k]
        PROVE  Deletes(k, v, Len(log)) # {}
    <3>1. r \in DeleteRows(snap) /\ r.key = k
      BY <1>0, <2>1, <2>8 DEF JoinInv, Of
    <3>2. WrittenBy(k, v) /\ v <= snap
      BY <1>f, <2>1, <2>8
    <3>3. r.cid \in Deletes(k, cursor, snap) /\ r.cid \in Nat
      <4>1. r.cid \in Deletes(k, cursor, snap)
        BY <1>0, <1>n, <2>2, <3>1, DeleteRowsAre
      <4> QED  BY <1>n, <2>2, <4>1 DEF Deletes, Events
    <3>4. CASE UpdateRows(k) # {}
      <4>1. PICK u \in UpdateRows(k) : TRUE
        BY <3>4
      <4>2. u.cid \in Nat /\ ~(u.cid > r.cid) /\ u.cid # r.cid
        BY <1>n, <2>2, <2>3, <2>5, <2>8, <3>3, UpdatesNotDeletes DEF Updates, Events
      <4>3. \A i \in Updates(k, cursor, snap) : i \in Nat /\ i <= u.cid
        BY <1>n, <2>2, <2>3 DEF Updates, Events
      <4>4. \A i \in Updates(k, cursor, snap) : i < r.cid
        BY <3>3, <4>2, <4>3
      <4> QED  BY <1>0, <1>n, <2>2, <3>1, <3>2, <4>4, DeleteCovers
    <3>5. CASE UpdateRows(k) = {}
      <4>1. source[k] = {}
        BY <3>5 DEF UpdateRows
      <4>2. \A i \in Events(k, 1, Len(log)) : Deletes(k, i, Len(log)) # {}
        BY <1>0, <4>1 DEF SourceInv, GoneLogged
      <4>3. CASE v > 0
        <5>1. v \in Events(k, 1, Len(log))
          BY <1>n, <3>2, <4>3 DEF WrittenBy, Events
        <5> QED  BY <4>2, <5>1
      <4>4. CASE v = 0
        <5>1. r.cid \in Deletes(k, 0, Len(log))
          BY <1>n, <2>2, <3>3 DEF Deletes, Events
        <5> QED  BY <4>4, <5>1
      <4> QED  BY <1>n, <3>2, <4>3, <4>4 DEF WrittenBy
    <3> QED  BY <3>4, <3>5
  <2>9. ASSUME NEW j \in Keys, j \notin unread', NEW r \in Of(j)', r.op = "D"
        PROVE  \/ \E q \in Of(j)' : q.cid > r.cid
               \/ \A v \in target'[j] : Deletes(j, v, Len(log))' # {}
    <3>1. CASE j = k
      <4>1. r \in Of(k)
        BY <2>3, <2>5, <2>9, <3>1
      <4> QED  BY <2>1, <2>6, <2>8, <2>9, <3>1, <4>1
    <3>2. CASE j # k
      BY <1>f, <2>1, <2>5, <2>6, <2>9, <3>2
    <3> QED  BY <3>1, <3>2
  <2> QED  BY <1>f, <2>1, <2>6, <2>7, <2>9 DEF ForwardInv
<1>11. ASSUME JoinEnd  PROVE ForwardInv'
  <2>1. /\ UNCHANGED <<log, target, batch>> /\ phase = "join" /\ phase' = "loaded"
        /\ unread = {}
    BY <1>11 DEF JoinEnd, Return
  <2>2. /\ \A k : Of(k)' = Of(k)
        /\ \A l, v : WrittenBy(l, v)' = WrittenBy(l, v)
        /\ \A l, v : Deletes(l, v, Len(log))' = Deletes(l, v, Len(log))
    BY <2>1 DEF Of, WrittenBy, Deletes, Events
  <2> QED  BY <1>f, <2>1, <2>2 DEF ForwardInv
<1>12. ASSUME Land, batch' = {}, log' = log, phase' \notin {"join", "loaded"}  PROVE ForwardInv'
  <2>1. target' = Merged
    BY <1>12 DEF Land
  <2>2. (\A k : Of(k)' = {}) /\ \A l, v : WrittenBy(l, v)' = WrittenBy(l, v)
    BY <1>12 DEF Of, WrittenBy
  <2>3. ASSUME NEW k \in Keys, NEW v \in Merged[k]  PROVE WrittenBy(k, v)
    BY <1>0, <1>f, <2>3, MergedIs
  <2> QED  BY <1>12, <2>1, <2>2, <2>3 DEF ForwardInv
<1>13. ASSUME Commit  PROVE ForwardInv'
  BY <1>12, <1>13 DEF Commit
<1>14. ASSUME NEW kind, Fault(kind), Land  PROVE ForwardInv'
  BY <1>12, <1>14 DEF Fault
<1>15. ASSUME UNCHANGED vars  PROVE ForwardInv'
  BY <1>1, <1>15 DEF vars
<1> QED
  BY <1>3, <1>5, <1>6, <1>7, <1>8, <1>9, <1>10, <1>11, <1>13, <1>14, <1>15, StepCases

(* A reload asks for less.                                                   *)
LEMMA InStepReloaded ==
    ASSUME NEW k, NEW t, NEW twice, InStep(k, t, twice, FALSE) \/ InStep(k, t, twice, TRUE)
    PROVE  InStep(k, t, twice, TRUE)
BY DEF InStep

(* A key with no event from the watermark of an incremental run on is in     *)
(* step once the rows of that run have landed: its last event before the     *)
(* watermark is among those the run has read.                                *)
LEMMA JoinedInStep ==
    ASSUME Dialect = "mssql", CdcTypeOK, SourceInv, BatchInv, WatermarkInv, JoinInv, SyncInv,
           phase = "join", unread = {}, NEW k \in Keys, Quiet(k, NextWatermark)
    PROVE  WillSync(k)
<1>n. /\ Len(log) \in Nat /\ snap \in Nat /\ snap <= Len(log) /\ cursor \in Nat
      /\ cursor # Unset /\ cursor = store /\ cursor <= snap /\ source[k] \subseteq Nat
  BY DEF CdcTypeOK, WatermarkInv
<1> DEFINE w == NextWatermark
<1>1. ~scanned
  BY DEF JoinInv
<1>2. \A r \in Of(k) :
         \/ r.op = "D" /\ r \in DeleteRows(snap) /\ r.cid \in Deletes(k, cursor, snap)
         \/ /\ r.op = "U" /\ Updates(k, cursor, snap) # {}
            /\ r.cid = MaxOf(Updates(k, cursor, snap))
            /\ r.cid \in Updates(k, cursor, snap)
  <2>1. SUFFICES ASSUME NEW r \in Of(k)
                 PROVE  \/ r.op = "D" /\ r \in DeleteRows(snap) /\ r.cid \in Deletes(k, cursor, snap)
                        \/ /\ r.op = "U" /\ Updates(k, cursor, snap) # {}
                           /\ r.cid = MaxOf(Updates(k, cursor, snap))
                           /\ r.cid \in Updates(k, cursor, snap)
    OBVIOUS
  <2>2. r.key = k
    BY DEF Of
  <2>3. CASE r.op = "D" /\ r \in DeleteRows(snap)
    BY <1>n, <2>2, <2>3, DeleteRowsAre
  <2>4. CASE /\ r.op = "U" /\ Updates(k, cursor, snap) # {}
             /\ r.cid = MaxOf(Updates(k, cursor, snap))
    BY <1>n, <2>4, LastUpdate
  <2> QED  BY <2>3, <2>4 DEF JoinInv
<1>3. w \in Nat /\ w <= snap
  <2>1. /\ w \in Nat
        /\ batch = {} => w = cursor
        /\ batch # {} => \E r \in batch : r.cid = w
    BY <1>n, NextWatermarkIs
  <2>2. ASSUME NEW r \in batch  PROVE r.cid <= snap
    <3>1. r.key \in Keys /\ r \in Of(r.key)
      BY <2>2 DEF CdcTypeOK, RowType, Of
    <3>2. CASE r \in DeleteRows(snap)
      <4>1. r.cid \in Deletes(r.key, cursor, snap)
        BY <1>n, <3>2, DeleteRowsAre
      <4> QED  BY <1>n, <4>1 DEF Deletes, Events
    <3>3. CASE /\ Updates(r.key, cursor, snap) # {}
               /\ r.cid = MaxOf(Updates(r.key, cursor, snap))
      <4>1. r.cid \in Updates(r.key, cursor, snap)
        BY <1>n, <3>3, LastUpdate
      <4> QED  BY <1>n, <4>1 DEF Updates, Events
    <3> QED  BY <3>1, <3>2, <3>3 DEF JoinInv
  <2> QED  BY <1>n, <2>1, <2>2
<1> HIDE DEF w
<1>4. \A i \in 1..Len(log) : log[i].key = k => i < w
  BY <1>n, <1>3, QuietIs DEF w
<1>5. Quiet(k, snap + 1)
  BY <1>n, <1>3, <1>4, QuietIs
<1>6. ASSUME NEW v \in source[k], NEW d \in Deletes(k, cursor, snap)
      PROVE  v \in Updates(k, cursor, snap) /\ d < v
  <2>1. d \in 1..Len(log) /\ cursor <= d /\ d <= snap /\ log[d].key = k /\ log[d].op = "D"
    BY <1>n, <1>6 DEF Deletes, Events
  <2>2. WrittenBy(k, d)
    BY <1>n, <2>1 DEF WrittenBy
  <2>3. v \in Nat /\ d <= v /\ (v > 0 => v \in Updates(k, v, Len(log)))
    BY <1>6, <2>2, SourceNewest
  <2>4. v \in 1..Len(log) /\ log[v].key = k /\ log[v].op # "D"
    BY <1>n, <2>1, <2>3 DEF Updates, Events
  <2>5. v < w
    BY <1>4, <2>4
  <2> QED  BY <1>n, <1>3, <2>1, <2>3, <2>4, <2>5 DEF Updates, Events
<1>7. Updates(k, cursor, snap) # {} =>
          source[k] = {r.content : r \in {q \in Of(k) : q.op = "U"}}
  BY <1>5 DEF JoinInv
<1>8. CASE Of(k) = {}
  <2>1. Deletes(k, cursor, snap) = {}
    <3>1. SUFFICES ASSUME Deletes(k, cursor, snap) # {}  PROVE FALSE
      OBVIOUS
    <3>2. Row(k, Blank, MaxOf(Deletes(k, cursor, snap)), "D") \in DeleteRows(snap)
      BY <3>1 DEF DeleteRows
    <3>3. Row(k, Blank, MaxOf(Deletes(k, cursor, snap)), "D") \in batch
      BY <3>2 DEF JoinInv
    <3>4. Row(k, Blank, MaxOf(Deletes(k, cursor, snap)), "D") \in Of(k)
      BY <3>3, RowIs DEF Of
    <3> QED  BY <1>8, <3>4
  <2>2. Updates(k, cursor, snap) = {}
    <3>1. SUFFICES ASSUME NEW e \in Updates(k, cursor, snap)  PROVE FALSE
      OBVIOUS
    <3>2. source[k] = {}
      BY <1>7, <1>8, <3>1
    <3>3. e \in Events(k, 1, Len(log)) /\ e \in Nat /\ cursor <= e
      BY <1>n, <3>1 DEF Updates, Events
    <3>4. PICK d \in Deletes(k, e, Len(log)) : TRUE
      BY <3>2, <3>3 DEF SourceInv, GoneLogged
    <3>5. d \in 1..Len(log) /\ e <= d /\ log[d].key = k /\ log[d].op = "D"
      BY <1>n, <3>3, <3>4 DEF Deletes, Events
    <3>6. d < w
      BY <1>4, <3>5
    <3>7. d \in Deletes(k, cursor, snap)
      BY <1>n, <1>3, <3>3, <3>5, <3>6 DEF Deletes, Events
    <3> QED  BY <2>1, <3>7
  <2>3. Quiet(k, cursor)
    <3>1. ASSUME NEW i \in 1..Len(log), cursor <= i, log[i].key = k  PROVE FALSE
      <4>1. i < w
        BY <1>4, <3>1
      <4>2. i \in Events(k, cursor, snap)
        BY <1>n, <1>3, <3>1, <4>1 DEF Events
      <4> QED  BY <2>1, <2>2, <4>2 DEF Updates, Deletes
    <3> QED  BY <1>n, <3>1, QuietIs
  <2>4. Synced(k)
    BY <1>n, <2>3 DEF SyncInv
  <2>5. Merged[k] = target[k]
    BY <1>8, MergedIs
  <2> QED  BY <1>1, <1>8, <2>4, <2>5 DEF WillSync, Synced, InStep
<1>9. CASE Of(k) # {}
  <2>1. /\ Winner(k) \in Of(k) /\ \A q \in Of(k) : q.cid <= Winner(k).cid
        /\ \/ Winner(k).op = "D" /\ Merged[k] = {}
           \/ Winner(k).op # "D" /\ Merged[k] = {Winner(k).content}
    BY <1>9, MergedIs
  <2>2. Merged[k] = source[k]
    <3>1. CASE Winner(k).op = "D"
      <4>1. Winner(k).cid \in Deletes(k, cursor, snap)
        BY <1>2, <2>1, <3>1
      <4>2. source[k] = {}
        <5>1. SUFFICES ASSUME NEW v \in source[k]  PROVE FALSE
          OBVIOUS
        <5>2. v \in Updates(k, cursor, snap) /\ Winner(k).cid < v
          BY <1>6, <4>1
        <5>3. PICK u \in Of(k) : u.op = "U"
          BY <1>7, <5>1, <5>2
        <5>4. u.cid = MaxOf(Updates(k, cursor, snap)) /\ u.cid \in Nat
          <6>1. u.cid = MaxOf(Updates(k, cursor, snap)) /\ u.cid \in Updates(k, cursor, snap)
            BY <1>2, <5>3
          <6> QED  BY <1>n, <6>1 DEF Updates, Events
        <5>5. v <= u.cid
          BY <1>n, <5>2, <5>4, LastUpdate
        <5>6. Winner(k).cid \in Nat /\ v \in Nat
          BY <1>n, <4>1, <5>1 DEF Deletes, Events
        <5> QED  BY <2>1, <5>2, <5>3, <5>4, <5>5, <5>6
      <4> QED  BY <2>1, <3>1, <4>2
    <3>2. CASE Winner(k).op # "D"
      <4>1. Winner(k).op = "U" /\ Updates(k, cursor, snap) # {}
        BY <1>2, <2>1, <3>2
      <4>2. \A q \in Of(k) : q.op = "U" => q = Winner(k)
        BY <2>1, <4>1 DEF JoinInv
      <4>3. source[k] = {Winner(k).content}
        BY <1>7, <2>1, <4>1, <4>2
      <4> QED  BY <2>1, <3>2, <4>3
    <3> QED  BY <3>1, <3>2
  <2> QED  BY <1>9, <2>2 DEF WillSync, InStep
<1> QED  BY <1>8, <1>9

(* A key with no event since a first run began is in step once its rows have *)
(* landed.                                                                   *)
LEMMA ScannedInStep ==
    ASSUME Dialect = "mssql", CdcTypeOK, BatchInv, ScanInv, SyncInv,
           phase = "scan", unread = {}, NEW k \in Keys, Quiet(k, preMax)
    PROVE  WillSync(k)
<1>1. /\ scanned /\ source[k] = {r.content : r \in Of(k)}
      /\ \A r, q \in Of(k) : r = q
      /\ \A r \in Of(k) : r.op = "none"
  BY DEF ScanInv, Of
<1>2. CASE Of(k) = {}
  <2>1. Merged[k] = target[k] /\ source[k] = {}
    BY <1>1, <1>2, MergedIs
  <2>2. ~reloaded => doubled = {}
    BY DEF SyncInv
  <2> QED  BY <1>1, <1>2, <2>1, <2>2 DEF WillSync, InStep
<1>3. CASE Of(k) # {}
  <2>1. Winner(k) \in Of(k) /\ Merged[k] = {Winner(k).content}
    BY <1>1, <1>3, MergedIs
  <2>2. Merged[k] = source[k]
    BY <1>1, <2>1
  <2> QED  BY <1>3, <2>2 DEF WillSync, InStep
<1> QED  BY <1>2, <1>3

(* The rows a watermark goes with land before it is stored.                  *)
LEMMA SyncStep ==
    ASSUME Dialect = "mssql", MirrorInv, [Next]_vars
    PROVE  SyncInv'
<1> USE DEF external
<1>0. /\ CdcTypeOK /\ BatchInv /\ WatermarkInv /\ ScanInv /\ JoinInv /\ SourceInv
      /\ SyncInv
  BY DEF ReadInv, MirrorInv
<1>n. /\ Len(log) \in Nat /\ preMax \in Nat /\ preMax <= Len(log)
      /\ store \in Nat \union {Unset} /\ state \in Nat \union {Unset}
      /\ store # Unset => store <= Len(log)
      /\ state # Unset => state <= Len(log)
      /\ source \in [Keys -> SUBSET Nat]
      /\ target \in [Keys -> SUBSET (Nat \union {Blank})]
      /\ reloaded \in BOOLEAN /\ doubled \subseteq Keys
  BY <1>0 DEF CdcTypeOK, WatermarkInv, NotAfter
<1>s. /\ doubled # {} => reloaded
      /\ store # Unset => \A k \in Keys : Quiet(k, store) => Synced(k)
      /\ phase = "shuttle" => \A k \in Keys \ unread : Quiet(k, preMax) => Synced(k)
      /\ phase = "loaded" /\ state # Unset => \A k \in Keys : Quiet(k, state) => WillSync(k)
      /\ phase = "landed" /\ state # Unset => \A k \in Keys : Quiet(k, state) => Synced(k)
  BY <1>0 DEF SyncInv
<1>1. ASSUME UNCHANGED <<source, log, mode, target, doubled, reloaded, store>>,
             phase' \notin {"shuttle", "loaded", "landed"}
      PROVE  SyncInv'
  <2>1. \A k : Synced(k)' = Synced(k) /\ Quiet(k, store)' = Quiet(k, store)
    BY <1>1 DEF Synced, InStep, Quiet, Events
  <2> QED  BY <1>1, <1>s, <2>1 DEF SyncInv
<1>2. ASSUME NEW k \in Keys, NEW o \in {"U", "D"}, Logged(k, o),
             \A j \in Keys \ {k} : source'[j] = source[j],
             UNCHANGED <<mode, target, doubled, reloaded, store, state, preMax, phase, batch,
                         unread, scanned>>
      PROVE  SyncInv'
  <2>1. \A c \in Nat : c <= Len(log) + 1 =>
             \A l \in Keys : Quiet(l, c)' => l # k /\ Quiet(l, c)
    BY <1>0, <1>2, QuietGrows
  <2>2. \A l \in Keys : /\ Quiet(l, preMax)' => l # k /\ Quiet(l, preMax)
                        /\ store # Unset => (Quiet(l, store)' => l # k /\ Quiet(l, store))
                        /\ state # Unset => (Quiet(l, state)' => l # k /\ Quiet(l, state))
    <3>1. /\ preMax \in Nat /\ preMax <= Len(log) + 1
          /\ store # Unset => store \in Nat /\ store <= Len(log) + 1
          /\ state # Unset => state \in Nat /\ state <= Len(log) + 1
      BY <1>n
    <3>2. ASSUME NEW l \in Keys
          PROVE  /\ Quiet(l, preMax)' => l # k /\ Quiet(l, preMax)
                 /\ store # Unset => (Quiet(l, store)' => l # k /\ Quiet(l, store))
                 /\ state # Unset => (Quiet(l, state)' => l # k /\ Quiet(l, state))
      <4>1. Quiet(l, preMax)' => l # k /\ Quiet(l, preMax)
        BY <1>2, <2>1, <3>1 DEF Quiet, Events
      <4>2. store # Unset => (Quiet(l, store)' => l # k /\ Quiet(l, store))
        BY <1>2, <2>1, <3>1 DEF Quiet, Events
      <4>3. state # Unset => (Quiet(l, state)' => l # k /\ Quiet(l, state))
        BY <1>2, <2>1, <3>1 DEF Quiet, Events
      <4> QED  BY <4>1, <4>2, <4>3
    <3> QED  BY <3>2
  <2>3. Merged' = Merged /\ \A l : Of(l)' = Of(l)
    BY <1>2 DEF Merged, MergedMSSQL, MergedSQL, Winner, Of
  <2>4. \A l \in Keys \ {k} : Synced(l)' = Synced(l) /\ WillSync(l)' = WillSync(l)
    BY <1>2, <2>3 DEF Synced, WillSync, InStep
  <2> QED  BY <1>2, <1>s, <2>2, <2>4 DEF SyncInv
<1>3. ASSUME NEW k \in Keys, Write(k) \/ Delete(k)  PROVE SyncInv'
  <2>1. \A j \in Keys \ {k} : source'[j] = source[j]
    BY <1>n, <1>3 DEF Write, Delete
  <2> QED  BY <1>2, <1>3, <2>1 DEF Write, Delete, Logged
<1>4. ASSUME UNCHANGED vars  PROVE SyncInv'
  <2>1. /\ \A k : Synced(k)' = Synced(k) /\ Quiet(k, store)' = Quiet(k, store)
        /\ \A k : Quiet(k, preMax)' = Quiet(k, preMax) /\ Quiet(k, state)' = Quiet(k, state)
    BY <1>4 DEF vars, Synced, InStep, Quiet, Events
  <2>2. Merged' = Merged /\ \A l : Of(l)' = Of(l)
    BY <1>4 DEF vars, Merged, MergedMSSQL, MergedSQL, Winner, Of
  <2>3. \A k : WillSync(k)' = WillSync(k)
    BY <1>4, <2>2 DEF vars, WillSync, InStep
  <2> QED  BY <1>4, <1>s, <2>1, <2>3 DEF vars, SyncInv
<1>5. ASSUME \/ \E full \in FullRefresh : Begin(full)
             \/ RunQuery
             \/ \E k \in Keys : ScanRow(k) \/ JoinRow(k)
             \/ \E kind : Fault(kind) /\ UNCHANGED <<target, doubled, reloaded>>
      PROVE  SyncInv'
  <2>1. /\ UNCHANGED <<source, log, mode, target, doubled, reloaded, store>>
        /\ phase' \notin {"shuttle", "loaded", "landed"}
    BY <1>5 DEF Begin, RunQuery, ScanRow, JoinRow, Fault
  <2> QED  BY <1>1, <2>1
<1>6. ASSUME ReadPreMax  PROVE SyncInv'
  <2>1. /\ UNCHANGED <<source, log, mode, target, doubled, reloaded, store>>
        /\ phase' \in {"scan", "shuttle"} /\ unread' = Keys
    BY <1>6 DEF ReadPreMax
  <2>2. \A k : Synced(k)' = Synced(k) /\ Quiet(k, store)' = Quiet(k, store)
    BY <2>1 DEF Synced, InStep, Quiet, Events
  <2> QED  BY <1>s, <2>1, <2>2 DEF SyncInv
(* The generator returns with a watermark c: what will land is in step.      *)
<1>7. ASSUME NEW c \in Nat \union {Unset}, state' = c, Return, mode' = mode,
             c # Unset => \A k \in Keys : Quiet(k, c) => WillSync(k)
      PROVE  SyncInv'
  <2>1. UNCHANGED <<source, log, mode, target, doubled, reloaded, store, batch, scanned>>
        /\ phase' = "loaded"
    BY <1>7 DEF Return
  <2>2. /\ \A k : Synced(k)' = Synced(k) /\ Quiet(k, store)' = Quiet(k, store)
        /\ \A k : Quiet(k, state)' = Quiet(k, c)
    BY <1>7, <2>1 DEF Synced, InStep, Quiet, Events
  <2>3. Merged' = Merged /\ \A l : Of(l)' = Of(l)
    BY <2>1 DEF Merged, MergedMSSQL, MergedSQL, Winner, Of
  <2>4. \A k : WillSync(k)' = WillSync(k)
    BY <2>1, <2>3 DEF WillSync, InStep
  <2> QED  BY <1>7, <1>s, <2>1, <2>2, <2>4 DEF SyncInv
<1>8. ASSUME ScanEnd  PROVE SyncInv'
  <2>1. /\ state' = FirstWatermark /\ Return /\ phase = "scan" /\ unread = {} /\ mode' = mode
        /\ FirstWatermark \in Nat \union {Unset}
        /\ FirstWatermark # Unset => FirstWatermark = preMax
    BY <1>8, <1>n DEF ScanEnd, Return, FirstWatermark
  <2>2. \A k \in Keys : Quiet(k, preMax) => WillSync(k)
    BY <1>0, <2>1, ScannedInStep
  <2> QED  BY <1>7, <2>1, <2>2
<1>9. ASSUME ShuttleEnd  PROVE SyncInv'
  <2>1. /\ state' = FirstWatermark /\ Return /\ phase = "shuttle" /\ unread = {} /\ mode' = mode
        /\ FirstWatermark \in Nat \union {Unset}
        /\ FirstWatermark # Unset => FirstWatermark = preMax
    BY <1>9, <1>n DEF ShuttleEnd, Return, FirstWatermark
  <2>2. \A k : Of(k) = {}
    BY <1>0, <2>1 DEF BatchInv, Of
  <2>3. ~scanned
    BY <1>0, <2>1 DEF BatchInv
  <2>4. \A k \in Keys : Merged[k] = target[k]
    BY <1>0, <2>2, MergedIs
  <2>5. \A k \in Keys : Synced(k) => WillSync(k)
    BY <2>2, <2>3, <2>4 DEF Synced, WillSync, InStep
  <2>6. \A k \in Keys : Quiet(k, preMax) => WillSync(k)
    BY <1>s, <2>1, <2>5
  <2> QED  BY <1>7, <2>1, <2>6
<1>10. ASSUME JoinEnd  PROVE SyncInv'
  <2>1. /\ state' = NextWatermark /\ Return /\ phase = "join" /\ unread = {} /\ mode' = mode
    BY <1>10 DEF JoinEnd, Return
  <2>2. NextWatermark \in Nat
    <3>1. cursor # Unset /\ cursor <= Len(log)
      BY <1>0, <2>1, <1>n DEF WatermarkInv, CdcTypeOK
    <3> QED  BY <1>0, <3>1, NextWatermarkIs
  <2>3. \A k \in Keys : Quiet(k, NextWatermark) => WillSync(k)
    BY <1>0, <2>1, JoinedInStep
  <2> QED  BY <1>7, <2>1, <2>2, <2>3
<1>11. ASSUME NEW k \in Keys, ShuttleRow(k)  PROVE SyncInv'
  <2>1. /\ phase = "shuttle" /\ phase' = phase /\ mode = "shuttle" /\ unread' = unread \ {k}
        /\ target' = [target EXCEPT ![k] = @ \union source[k]]
        /\ doubled' = (IF source[k] \intersect target[k] = {} THEN doubled ELSE doubled \union {k})
        /\ reloaded' = (reloaded \/ target[k] # {})
        /\ UNCHANGED <<source, log, mode, store, preMax>>
    BY <1>0, <1>11 DEF ShuttleRow, BatchInv
  <2>2. target'[k] = target[k] \union source[k] /\ \A j \in Keys \ {k} : target'[j] = target[j]
    BY <1>n, <2>1
  <2>3. \A l : Quiet(l, store)' = Quiet(l, store) /\ Quiet(l, preMax)' = Quiet(l, preMax)
    BY <2>1 DEF Quiet, Events
  <2>4. doubled' # {} => reloaded'
    BY <1>s, <2>1
  <2>5. \A j \in Keys \ {k} : Synced(j) => Synced(j)'
    BY <2>1, <2>2 DEF Synced, InStep
  <2>6. Synced(k)'
    <3>1. CASE target[k] = {}
      <4>1. target'[k] = source[k] /\ doubled' = doubled /\ reloaded' = reloaded
        BY <2>1, <2>2, <3>1, <1>n
      <4> QED  BY <1>s, <2>1, <4>1 DEF Synced, InStep
    <3>2. CASE target[k] # {}
      BY <2>1, <2>2, <3>2 DEF Synced, InStep
    <3> QED  BY <3>1, <3>2
  <2> QED  BY <1>s, <2>1, <2>3, <2>4, <2>5, <2>6 DEF SyncInv
(* The rows land: what would be in step now is.                              *)
<1>12. ASSUME Land, phase = "loaded", UNCHANGED <<source, log, mode, store>>
       PROVE  /\ doubled' # {} => reloaded'
              /\ \A k \in Keys : Synced(k)' = WillSync(k)
              /\ store' # Unset => \A k \in Keys : Quiet(k, store)' => Synced(k)'
  <2>1. /\ target' = Merged /\ doubled' = {k \in doubled : Of(k) = {}}
        /\ reloaded' = (reloaded \/ (scanned /\ \E k \in Keys : target[k] # {}))
    BY <1>12 DEF Land
  <2>2. \A k : Quiet(k, store)' = Quiet(k, store)
    BY <1>12 DEF Quiet, Events
  <2>3. \A k \in Keys : Synced(k)' = WillSync(k)
    BY <1>12, <2>1 DEF Synced, WillSync, InStep
  <2>4. ASSUME store # Unset, NEW k \in Keys, Quiet(k, store)  PROVE WillSync(k)
    <3>1. state # Unset /\ store <= state
      BY <1>0, <1>12, <2>4 DEF WatermarkInv, NotAfter
    <3>2. Quiet(k, state)
      BY <1>0, <1>n, <2>4, <3>1, QuietLater
    <3> QED  BY <1>s, <1>12, <3>1, <3>2
  <2> QED  BY <1>s, <1>12, <2>1, <2>2, <2>3, <2>4
<1>13. ASSUME Commit  PROVE SyncInv'
  <2>1. /\ Land /\ phase = "loaded" /\ phase' = "landed" /\ state' = state
        /\ UNCHANGED <<source, log, mode, store>>
    BY <1>13 DEF Commit
  <2>2. \A k : Quiet(k, state)' = Quiet(k, state)
    BY <2>1 DEF Quiet, Events
  <2> QED  BY <1>12, <1>s, <2>1, <2>2 DEF SyncInv
<1>14. ASSUME NEW kind, phase = "loaded", Fault(kind), Land  PROVE SyncInv'
  <2>1. phase' = "idle" /\ UNCHANGED <<source, log, mode, store>>
    BY <1>14 DEF Fault
  <2> QED  BY <1>12, <1>14, <2>1 DEF SyncInv
<1>15. ASSUME SetState  PROVE SyncInv'
  <2>1. /\ phase = "landed" /\ phase' = "idle" /\ store' = state
        /\ UNCHANGED <<source, log, mode, target, doubled, reloaded, state>>
    BY <1>15 DEF SetState
  <2>2. /\ \A k : Synced(k)' = Synced(k)
        /\ \A k : Quiet(k, store)' = Quiet(k, state)
    BY <2>1 DEF Synced, InStep, Quiet, Events
  <2> QED  BY <1>s, <2>1, <2>2 DEF SyncInv
<1> QED
  BY <1>3, <1>4, <1>5, <1>6, <1>8, <1>9, <1>10, <1>11, <1>13, <1>14, <1>15, StepCases

(* MirrorInv holds in every state of a pipeline into MSSQLDestination.       *)
THEOREM MirrorInvariant ==
    ASSUME Dialect = "mssql"
    PROVE  Spec => []MirrorInv
<1>1. Init => SyncInv /\ ForwardInv
  BY DEF Init, SyncInv, ForwardInv, Of
<1>2. ReadInv /\ SyncInv /\ ForwardInv /\ [Next]_vars => SyncInv' /\ ForwardInv'
  BY SyncStep, ForwardStep DEF MirrorInv
<1>3. ReadInv /\ SyncInv /\ ForwardInv => MirrorInv
  BY DEF MirrorInv
<1> QED  BY <1>1, <1>2, <1>3, ReadInvariant, PTL DEF Spec

(* Nothing the source holds is passed over: once a watermark is stored, the  *)
(* rows the destination does not hold as they are have an event at or after  *)
(* it, through every interleaving of the scan, the join and the landing with *)
(* changes of the table, crashes and lost acknowledgements included.         *)
THEOREM NothingSkipped ==
    ASSUME Dialect = "mssql"
    PROVE  Spec => []NoChangeSkipped
<1>1. MirrorInv => NoChangeSkipped
  BY DEF MirrorInv, SyncInv, NoChangeSkipped, Pending, Quiet, Synced, InStep, UpToDate
<1> QED  BY <1>1, MirrorInvariant, PTL

(* Nor is a delete, nor a row held twice, unless the table was loaded again  *)
(* into one that held rows.                                                  *)
THEOREM DeletesFollow ==
    ASSUME Dialect = "mssql"
    PROVE  Spec => []NoDeleteSkipped
<1>1. MirrorInv => NoDeleteSkipped
  <2>1. SUFFICES ASSUME MirrorInv, store # Unset, ~reloaded, NEW k \in Keys, ~Pending(k)
                 PROVE  ~(source[k] = {} /\ target[k] # {}) /\ k \notin doubled
    BY DEF NoDeleteSkipped
  <2>2. Synced(k)
    BY <2>1 DEF MirrorInv, SyncInv, Pending, Quiet
  <2> QED  BY <2>1, <2>2 DEF Synced, InStep
<1> QED  BY <1>1, MirrorInvariant, PTL

(* The destination never goes back in time.                                  *)
THEOREM OnlyForward ==
    ASSUME Dialect = "mssql"
    PROVE  Spec => RowsOnlyMoveForward
<1> USE DEF external
<1>1. ASSUME MirrorInv, [Next]_vars, NEW k \in Keys, NEW v \in target[k]
      PROVE  /\ \A w \in target'[k] \ target[k] : w > v
             /\ v \notin target'[k] => target'[k] # {} \/ Deletes(k, v, Len(log)) # {}
  <2>0. /\ CdcTypeOK /\ BatchInv /\ SourceInv /\ ForwardInv
    BY <1>1 DEF ReadInv, MirrorInv
  <2>n. v \in Nat /\ WrittenBy(k, v) /\ target \in [Keys -> SUBSET (Nat \union {Blank})]
    BY <1>1, <2>0 DEF ForwardInv, WrittenBy, CdcTypeOK
  <2>1. CASE \E j \in Keys : ShuttleRow(j)
    <3>1. target'[k] \subseteq target[k] \union source[k] /\ target[k] \subseteq target'[k]
      BY <2>1, <2>n DEF ShuttleRow
    <3>2. \A w \in source[k] : w \in Nat /\ v <= w
      BY <2>0, <2>n, SourceNewest
    <3> QED  BY <1>1, <2>n, <3>1, <3>2
  <2>2. CASE Land /\ phase = "loaded"
    <3>1. target' = Merged
      BY <2>2 DEF Land
    <3>2. CASE Of(k) = {}
      BY <1>1, <2>0, <3>1, <3>2, MergedIs
    <3>3. CASE Of(k) # {} /\ Winner(k).op = "D"
      <4>1. /\ Winner(k) \in Of(k) /\ \A q \in Of(k) : q.cid <= Winner(k).cid
            /\ Merged[k] = {}
        BY <2>0, <3>3, MergedIs
      <4>2. \A q \in Of(k) : q.cid \in Nat
        BY <2>0 DEF CdcTypeOK, RowType, Of
      <4>3. Deletes(k, v, Len(log)) # {}
        BY <1>1, <2>0, <2>2, <3>3, <4>1, <4>2 DEF ForwardInv
      <4> QED  BY <3>1, <4>1, <4>3
    <3>4. CASE Of(k) # {} /\ Winner(k).op # "D"
      <4>1. Winner(k) \in Of(k) /\ Merged[k] = {Winner(k).content}
        BY <2>0, <3>4, MergedIs
      <4>2. Winner(k).content \in Nat /\ v <= Winner(k).content
        BY <1>1, <2>0, <3>4, <4>1 DEF ForwardInv, WrittenBy
      <4> QED  BY <1>1, <2>n, <3>1, <4>1, <4>2
    <3> QED  BY <3>2, <3>3, <3>4
  <2>3. CASE target' = target
    BY <1>1, <2>3
  <2>4. (\A j \in Keys : ~ShuttleRow(j)) /\ ~(Land /\ phase = "loaded") => target' = target
    BY <1>1 DEF Next, Step, vars, Write, Delete, Begin, ReadPreMax, ScanRow, ScanEnd,
       ShuttleEnd, RunQuery, JoinRow, JoinEnd, Commit, SetState, Return, ReadFails,
       CommitFails, AckLost, SetFails, Crash, Fault
  <2> QED  BY <2>1, <2>2, <2>3, <2>4
<1>2. MirrorInv /\ [Next]_vars =>
         [\A k \in Keys : \A v \in target[k] :
             /\ \A w \in target'[k] \ target[k] : w > v
             /\ v \notin target'[k] => target'[k] # {} \/ Deletes(k, v, Len(log)) # {}]_vars
  BY <1>1
<1> QED  BY <1>2, MirrorInvariant, PTL DEF Spec, RowsOnlyMoveForward

(* No blank row, which is how a delete looks in a batch, ever lands.         *)
THEOREM NoBlankRow ==
    ASSUME Dialect = "mssql"
    PROVE  Spec => []OnlyRowsInserted
<1>1. MirrorInv => OnlyRowsInserted
  <2>1. SUFFICES ASSUME MirrorInv, NEW k \in Keys, Blank \in target[k]  PROVE FALSE
    BY DEF OnlyRowsInserted
  <2>2. Blank \in 0..Len(log)
    BY <2>1 DEF MirrorInv, ForwardInv, WrittenBy
  <2>3. Len(log) \in Nat
    BY <2>1 DEF MirrorInv, ReadInv, CdcTypeOK
  <2> QED  BY <2>2, <2>3
<1> QED  BY <1>1, MirrorInvariant, PTL
=============================================================================
