--------------------------- MODULE ActivityLog_proofs ---------------------------
(***************************************************************************)
(* Proofs about ActivityLog for every capacity, set of printers, writers   *)
(* and readers: the ring arithmetic implements the bounded log, no wakeup  *)
(* is lost and no cursor hides an entry.                                   *)
(***************************************************************************)
EXTENDS ActivityLog, SequenceTheorems, TLAPS

(* The walk's modulus only ever wraps once.                                *)
LEMMA ModOnce ==
  ASSUME NEW n \in Nat \ {0}, NEW x \in 0 .. 2 * n - 1
  PROVE  x % n = IF x < n THEN x ELSE x - n
OBVIOUS

(* One turn around the ring.                                               *)
LEMMA ModNext ==
  ASSUME NEW n \in Nat \ {0}, NEW k \in 0 .. n - 1
  PROVE  (k + 1) % n = IF k = n - 1 THEN 0 ELSE k + 1
<1>1. CASE k = n - 1
  BY <1>1
<1>2. CASE k # n - 1
  BY <1>2
<1> QED BY <1>1, <1>2

(* The walk over a ring b whose next slot is nx.                           *)
Walk(b, nx) == [i \in 1 .. Len(b) |-> b[((nx - i + Len(b)) % Len(b)) + 1]]

(* Where the walk's step i reads.                                          *)
Slot(len, nx, i) == IF i <= nx THEN nx - i + 1 ELSE nx - i + len + 1

LEMMA WalkSlot ==
  ASSUME NEW len \in Nat \ {0}, NEW nx \in 0 .. len - 1, NEW i \in 1 .. len
  PROVE  /\ ((nx - i + len) % len) + 1 = Slot(len, nx, i)
         /\ Slot(len, nx, i) \in 1 .. len
<1> DEFINE x == nx - i + len
<1>1. x \in 0 .. 2 * len - 1
  OBVIOUS
<1>2. x % len = IF x < len THEN x ELSE x - len
  BY <1>1, ModOnce
<1>3. CASE i <= nx
  <2>1. x % len = nx - i
    BY <1>2, <1>3
  <2> QED BY <2>1, <1>3 DEF Slot
<1>4. CASE ~(i <= nx)
  <2>1. x % len = x
    BY <1>2, <1>4
  <2> QED BY <2>1, <1>4 DEF Slot
<1> QED BY <1>3, <1>4

LEMMA WalkIsSeq ==
  ASSUME NEW b \in Seq(Nat), NEW nx \in Nat, Len(b) > 0 => nx < Len(b)
  PROVE  /\ Walk(b, nx) \in Seq(Nat)
         /\ Len(Walk(b, nx)) = Len(b)
         /\ \A i \in 1 .. Len(b) : /\ Walk(b, nx)[i] = b[Slot(Len(b), nx, i)]
                                   /\ Slot(Len(b), nx, i) \in 1 .. Len(b)
<1>1. Len(b) \in Nat
  BY LenProperties
<1>2. ASSUME NEW i \in 1 .. Len(b)
      PROVE  /\ Walk(b, nx)[i] = b[Slot(Len(b), nx, i)]
             /\ Slot(Len(b), nx, i) \in 1 .. Len(b)
  <2>1. Len(b) \in Nat \ {0} /\ nx \in 0 .. Len(b) - 1
    BY <1>1
  <2>2. /\ ((nx - i + Len(b)) % Len(b)) + 1 = Slot(Len(b), nx, i)
        /\ Slot(Len(b), nx, i) \in 1 .. Len(b)
    BY <2>1, WalkSlot
  <2> QED BY <2>2 DEF Walk
<1>3. \A i \in 1 .. Len(b) : Walk(b, nx)[i] \in Nat
  BY <1>2, ElementOfSeq
<1>4. Walk(b, nx) \in [1 .. Len(b) -> Nat]
  BY <1>3 DEF Walk
<1> QED BY <1>1, <1>2, <1>4

(* The elements of an entry put before a sequence.                         *)
LEMMA PutFirst ==
  ASSUME NEW id \in Nat, NEW n \in Nat, NEW w \in Seq(Nat), Len(w) = n
  PROVE  /\ <<id>> \o w \in Seq(Nat) /\ Len(<<id>> \o w) = n + 1
         /\ (<<id>> \o w)[1] = id
         /\ \A i \in 2 .. n + 1 : (<<id>> \o w)[i] = w[i - 1]
<1>1. <<id>> \in Seq(Nat) /\ Len(<<id>>) = 1 /\ <<id>>[1] = id
  OBVIOUS
<1>2. /\ <<id>> \o w \in Seq(Nat) /\ Len(<<id>> \o w) = 1 + n
      /\ \A i \in 1 .. 1 + n : (<<id>> \o w)[i] = IF i <= 1 THEN <<id>>[i] ELSE w[i - 1]
  BY <1>1, ConcatProperties
<1>3. 1 \in 1 .. 1 + n /\ \A i \in 2 .. n + 1 : i \in 1 .. 1 + n /\ ~(i <= 1)
  OBVIOUS
<1> QED BY <1>1, <1>2, <1>3

(* An entry appended to a ring that is filling is the first one read.      *)
LEMMA WalkAppend ==
  ASSUME NEW b \in Seq(Nat), NEW id \in Nat
  PROVE  Walk(Append(b, id), 0) = <<id>> \o Walk(b, 0)
<1> DEFINE c == Append(b, id)
<1>1. PICK n \in Nat : Len(b) = n
  BY LenProperties
<1>2. /\ c \in Seq(Nat) /\ Len(c) = n + 1
      /\ c[n + 1] = id /\ \A i \in 1 .. n : c[i] = b[i]
  BY <1>1, AppendProperties
<1> HIDE DEF c
<1>3. /\ Walk(c, 0) \in Seq(Nat) /\ Len(Walk(c, 0)) = n + 1
      /\ \A i \in 1 .. n + 1 : Walk(c, 0)[i] = c[Slot(n + 1, 0, i)]
  <2>1. Len(c) > 0 => 0 < Len(c)
    OBVIOUS
  <2>2. /\ Walk(c, 0) \in Seq(Nat) /\ Len(Walk(c, 0)) = Len(c)
        /\ \A i \in 1 .. Len(c) : Walk(c, 0)[i] = c[Slot(Len(c), 0, i)]
    BY <1>2, <2>1, WalkIsSeq
  <2> QED BY <1>2, <2>2
<1>4. /\ Walk(b, 0) \in Seq(Nat) /\ Len(Walk(b, 0)) = n
      /\ \A i \in 1 .. n : Walk(b, 0)[i] = b[Slot(n, 0, i)]
  <2>1. Len(b) > 0 => 0 < Len(b)
    OBVIOUS
  <2>2. /\ Walk(b, 0) \in Seq(Nat) /\ Len(Walk(b, 0)) = Len(b)
        /\ \A i \in 1 .. Len(b) : Walk(b, 0)[i] = b[Slot(Len(b), 0, i)]
    BY <2>1, WalkIsSeq
  <2> QED BY <1>1, <2>2
<1> DEFINE f == <<id>> \o Walk(b, 0)
<1>5. /\ f \in Seq(Nat) /\ Len(f) = n + 1 /\ f[1] = id
      /\ \A i \in 2 .. n + 1 : f[i] = Walk(b, 0)[i - 1]
  BY <1>4, PutFirst
<1> HIDE DEF f
<1>6. ASSUME NEW i \in 1 .. n + 1 PROVE Walk(c, 0)[i] = f[i]
  <2>1. Slot(n + 1, 0, i) = n + 2 - i
    BY DEF Slot
  <2>2. Walk(c, 0)[i] = c[n + 2 - i]
    BY <1>3, <2>1
  <2>3. CASE i = 1
    BY <2>2, <2>3, <1>2, <1>5
  <2>4. CASE i # 1
    <3>1. i - 1 \in 1 .. n /\ n + 2 - i \in 1 .. n /\ i \in 2 .. n + 1
      BY <2>4
    <3>2. Slot(n, 0, i - 1) = n + 2 - i
      BY <3>1 DEF Slot
    <3>3. Walk(b, 0)[i - 1] = b[n + 2 - i]
      BY <3>1, <3>2, <1>4
    <3>4. c[n + 2 - i] = b[n + 2 - i]
      BY <3>1, <1>2
    <3> QED BY <2>2, <3>1, <3>3, <3>4, <1>5
  <2> QED BY <2>3, <2>4
<1>7. Walk(c, 0) = f
  BY <1>3, <1>5, <1>6, SeqEqual
<1> QED BY <1>7 DEF c, f

(* An entry written over the oldest of a full ring is the first one read,  *)
(* and the others keep their order.                                        *)
LEMMA WalkOverwrite ==
  ASSUME NEW b \in Seq(Nat), NEW n \in Nat \ {0}, Len(b) = n, NEW nx \in 0 .. n - 1, NEW id \in Nat
  PROVE  Walk([b EXCEPT ![nx + 1] = id], (nx + 1) % n) = SubSeq(<<id>> \o Walk(b, nx), 1, n)
<1> DEFINE c == [b EXCEPT ![nx + 1] = id]
           n2 == (nx + 1) % n
           f  == <<id>> \o Walk(b, nx)
<1>1. n2 = (IF nx = n - 1 THEN 0 ELSE nx + 1) /\ n2 \in 0 .. n - 1
  BY ModNext
<1>2. /\ c \in Seq(Nat) /\ Len(c) = n
      /\ \A j \in 1 .. n : c[j] = IF j = nx + 1 THEN id ELSE b[j]
  <2>1. nx + 1 \in 1 .. Len(b)
    OBVIOUS
  <2> QED BY <2>1, ExceptSeq
<1> HIDE DEF c, n2
<1>3. /\ Walk(c, n2) \in Seq(Nat) /\ Len(Walk(c, n2)) = n
      /\ \A i \in 1 .. n : Walk(c, n2)[i] = c[Slot(n, n2, i)]
      /\ \A i \in 1 .. n : Slot(n, n2, i) \in 1 .. n
  <2>1. n2 \in Nat /\ (Len(c) > 0 => n2 < Len(c))
    BY <1>1, <1>2
  <2>2. /\ Walk(c, n2) \in Seq(Nat) /\ Len(Walk(c, n2)) = Len(c)
        /\ \A i \in 1 .. Len(c) : /\ Walk(c, n2)[i] = c[Slot(Len(c), n2, i)]
                                  /\ Slot(Len(c), n2, i) \in 1 .. Len(c)
    BY <1>2, <2>1, WalkIsSeq
  <2> QED BY <1>2, <2>2
<1>4. /\ Walk(b, nx) \in Seq(Nat) /\ Len(Walk(b, nx)) = n
      /\ \A i \in 1 .. n : Walk(b, nx)[i] = b[Slot(n, nx, i)]
  <2>1. nx \in Nat /\ (Len(b) > 0 => nx < Len(b))
    OBVIOUS
  <2>2. /\ Walk(b, nx) \in Seq(Nat) /\ Len(Walk(b, nx)) = Len(b)
        /\ \A i \in 1 .. Len(b) : Walk(b, nx)[i] = b[Slot(Len(b), nx, i)]
    BY <2>1, WalkIsSeq
  <2> QED BY <2>2
<1>5. /\ f \in Seq(Nat) /\ Len(f) = n + 1 /\ f[1] = id
      /\ \A i \in 2 .. n + 1 : f[i] = Walk(b, nx)[i - 1]
  BY <1>4, PutFirst
<1> HIDE DEF f
<1>6. /\ SubSeq(f, 1, n) \in Seq(Nat) /\ Len(SubSeq(f, 1, n)) = n
      /\ \A i \in 1 .. n : SubSeq(f, 1, n)[i] = f[i]
  <2>1. \A i \in 1 .. n : f[i] \in Nat
    BY <1>5, ElementOfSeq
  <2> QED BY <2>1, SubSeqProperties
<1>7. ASSUME NEW i \in 1 .. n PROVE Walk(c, n2)[i] = f[i]
  <2>1. CASE i = 1
    <3>1. Slot(n, n2, 1) = nx + 1
      BY <1>1 DEF Slot
    <3>2. Walk(c, n2)[1] = c[nx + 1] /\ c[nx + 1] = id
      BY <3>1, <1>2, <1>3
    <3> QED BY <2>1, <3>2, <1>5
  <2>2. CASE i # 1
    <3>1. i - 1 \in 1 .. n /\ i \in 2 .. n + 1
      BY <2>2
    <3>2. Slot(n, n2, i) = Slot(n, nx, i - 1) /\ Slot(n, n2, i) # nx + 1
      BY <2>2, <1>1 DEF Slot
    <3>3. f[i] = b[Slot(n, nx, i - 1)]
      BY <3>1, <1>4, <1>5
    <3>4. Walk(c, n2)[i] = b[Slot(n, n2, i)]
      BY <3>2, <1>2, <1>3
    <3> QED BY <3>2, <3>3, <3>4
  <2> QED BY <2>1, <2>2
<1>8. Walk(c, n2) = SubSeq(f, 1, n)
  BY <1>3, <1>6, <1>7, SeqEqual
<1> QED BY <1>8 DEF c, n2, f

-----------------------------------------------------------------------------
(* A ring that is still filling starts at its first slot.                  *)
FillsFromZero == \A p \in Printers : Len(buf[p]) < Capacity => next[p] = 0

(* No entry is newer than the last ID, and no ID is ahead of the clock.    *)
IDsBehind ==
  /\ \A p \in Printers : \A i \in 1 .. Len(buf[p]) : buf[p][i] <= nextID
  /\ nextID <= clock
  /\ CursorsBehind

(* A reader has taken the current channel or one that is closed.           *)
WakeNotAhead == \A r \in Readers : polling[r] = "select" => wake[r] <= changed

LogInv == LogTypes /\ FillsFromZero /\ IDsBehind /\ WakeNotAhead /\ NoLostWakeup

LEMMA RingSlot ==
  ASSUME LogTypes, FillsFromZero, NEW p \in Printers
  PROVE  /\ buf[p] \in Seq(Nat) /\ next[p] \in Nat /\ Len(buf[p]) \in Nat
         /\ Len(buf[p]) <= Capacity /\ Capacity \in Nat \ {0}
         /\ Len(buf[p]) > 0 => next[p] < Len(buf[p])
<1>1. /\ buf[p] \in Seq(Nat) /\ next[p] \in 0 .. Capacity - 1
      /\ Len(buf[p]) <= Capacity /\ Capacity \in Nat \ {0}
  BY LogAssumption DEF LogTypes
<1>2. Len(buf[p]) \in Nat
  BY <1>1, LenProperties
<1>3. Len(buf[p]) < Capacity => next[p] = 0
  BY DEF FillsFromZero
<1> QED BY <1>1, <1>2, <1>3

(* Every entry read back is one of the ring's.                             *)
LEMMA ReadsEntries ==
  ASSUME LogTypes, FillsFromZero, NEW p \in Printers, NEW i \in 1 .. Len(buf[p])
  PROVE  \E j \in 1 .. Len(buf[p]) : NewestFirst(p)[i] = buf[p][j]
<1>1. NewestFirst(p) = Walk(buf[p], next[p])
  BY DEF NewestFirst, Walk
<1>2. /\ buf[p] \in Seq(Nat) /\ next[p] \in Nat
      /\ Len(buf[p]) > 0 => next[p] < Len(buf[p])
  BY RingSlot
<1>3. /\ Walk(buf[p], next[p])[i] = buf[p][Slot(Len(buf[p]), next[p], i)]
      /\ Slot(Len(buf[p]), next[p], i) \in 1 .. Len(buf[p])
  BY <1>2, WalkIsSeq
<1> QED BY <1>1, <1>3

LEMMA StoreKeeps ==
  ASSUME LogTypes, FillsFromZero, NEW p \in Printers, NEW id \in Nat, Store(p, id)
  PROVE  /\ buf' \in [Printers -> Seq(Nat)] /\ \A q \in Printers : Len(buf'[q]) <= Capacity
         /\ next' \in [Printers -> 0 .. Capacity - 1]
         /\ FillsFromZero'
         /\ \A q \in Printers : \A i \in 1 .. Len(buf'[q]) :
              buf'[q][i] = id \/ \E j \in 1 .. Len(buf[q]) : buf'[q][i] = buf[q][j]
         /\ [q \in Printers |-> Recent(q)'] =
              [[q \in Printers |-> Recent(q)] EXCEPT ![p] = Promise!Newest(<<id>> \o @)]
<1> DEFINE b == buf[p]
           k == next[p]
           n == Len(b)
<1>1. /\ b \in Seq(Nat) /\ k \in Nat /\ n \in Nat /\ n <= Capacity
      /\ Capacity \in Nat \ {0} /\ (n > 0 => k < n) /\ (n < Capacity => k = 0)
  BY RingSlot DEF FillsFromZero
<1>2. \A q \in Printers : Recent(q) = Walk(buf[q], next[q]) /\ Recent(q)' = Walk(buf'[q], next'[q])
  BY DEF Recent, NewestFirst, Walk
<1>3. Recent(p) \in Seq(Nat) /\ Len(Recent(p)) = n
  BY <1>1, <1>2, WalkIsSeq
<1>4. <<id>> \o Recent(p) \in Seq(Nat) /\ Len(<<id>> \o Recent(p)) = n + 1
  BY <1>1, <1>3, PutFirst
<1>5. CASE n < Capacity
  <2>1. buf' = [buf EXCEPT ![p] = Append(b, id)] /\ next' = next
    BY <1>5 DEF Store
  <2>2. /\ Append(b, id) \in Seq(Nat) /\ Len(Append(b, id)) = n + 1
        /\ Append(b, id)[n + 1] = id /\ \A i \in 1 .. n : Append(b, id)[i] = b[i]
    BY <1>1, AppendProperties
  <2>3. Recent(p)' = <<id>> \o Recent(p)
    BY <1>1, <1>2, <1>5, <2>1, WalkAppend DEF LogTypes
  <2>4. Promise!Newest(<<id>> \o Recent(p)) = <<id>> \o Recent(p)
    <3>1. SubSeq(<<id>> \o Recent(p), 1, n + 1) = <<id>> \o Recent(p)
      BY <1>4, SubSeqFull
    <3>2. (IF Len(<<id>> \o Recent(p)) < Capacity THEN Len(<<id>> \o Recent(p)) ELSE Capacity) = n + 1
      BY <1>1, <1>4, <1>5
    <3> QED BY <3>1, <3>2 DEF Promise!Newest
  <2>5. \A q \in Printers \ {p} : buf'[q] = buf[q] /\ next'[q] = next[q]
    BY <2>1 DEF LogTypes
  <2>6. buf'[p] = Append(b, id)
    BY <2>1 DEF LogTypes
  <2>7. /\ buf' \in [Printers -> Seq(Nat)] /\ next' \in [Printers -> 0 .. Capacity - 1]
        /\ \A q \in Printers : Len(buf'[q]) <= Capacity
    BY <1>1, <1>5, <2>1, <2>2, <2>5, <2>6 DEF LogTypes
  <2>8. FillsFromZero'
    BY <1>1, <1>5, <2>1, <2>2, <2>5, <2>6 DEF FillsFromZero
  <2>9. \A q \in Printers : \A i \in 1 .. Len(buf'[q]) :
          buf'[q][i] = id \/ \E j \in 1 .. Len(buf[q]) : buf'[q][i] = buf[q][j]
    <3>1. \A i \in 1 .. n + 1 : i = n + 1 \/ i \in 1 .. n
      BY <1>1
    <3> QED BY <2>2, <2>5, <2>6, <3>1
  <2>10. \A q \in Printers \ {p} : Recent(q)' = Recent(q)
    BY <1>2, <2>5
  <2> QED BY <2>3, <2>4, <2>7, <2>8, <2>9, <2>10
<1>6. CASE ~(n < Capacity)
  <2>1. n = Capacity /\ k \in 0 .. n - 1 /\ k + 1 \in 1 .. n
    BY <1>1, <1>6
  <2>2. /\ buf' = [buf EXCEPT ![p] = [b EXCEPT ![k + 1] = id]]
        /\ next' = [next EXCEPT ![p] = (k + 1) % Capacity]
    BY <1>6 DEF Store, LogTypes
  <2>3. /\ [b EXCEPT ![k + 1] = id] \in Seq(Nat) /\ Len([b EXCEPT ![k + 1] = id]) = n
        /\ \A j \in 1 .. n : [b EXCEPT ![k + 1] = id][j] = IF j = k + 1 THEN id ELSE b[j]
    BY <1>1, <2>1, ExceptSeq
  <2>4. (k + 1) % Capacity \in 0 .. Capacity - 1
    BY <1>1, <2>1, ModNext
  <2>5. \A q \in Printers \ {p} : buf'[q] = buf[q] /\ next'[q] = next[q]
    BY <2>2 DEF LogTypes
  <2>6. buf'[p] = [b EXCEPT ![k + 1] = id] /\ next'[p] = (k + 1) % Capacity
    BY <2>2 DEF LogTypes
  <2>7. Recent(p)' = SubSeq(<<id>> \o Recent(p), 1, Capacity)
    <3>1. n \in Nat \ {0} /\ Len(b) = n
      BY <1>1, <2>1
    <3>2. Walk([b EXCEPT ![k + 1] = id], (k + 1) % n) = SubSeq(<<id>> \o Walk(b, k), 1, n)
      BY <1>1, <2>1, <3>1, WalkOverwrite
    <3>3. Recent(p)' = Walk([b EXCEPT ![k + 1] = id], (k + 1) % n) /\ Recent(p) = Walk(b, k)
      BY <1>2, <2>1, <2>6
    <3> QED BY <2>1, <3>2, <3>3
  <2>8. Promise!Newest(<<id>> \o Recent(p)) = SubSeq(<<id>> \o Recent(p), 1, Capacity)
    BY <1>1, <1>4, <2>1 DEF Promise!Newest
  <2>9. buf' \in [Printers -> Seq(Nat)] /\ next' \in [Printers -> 0 .. Capacity - 1]
    BY <2>2, <2>3, <2>4 DEF LogTypes
  <2>10. \A q \in Printers : Len(buf'[q]) <= Capacity
    BY <2>1, <2>3, <2>5, <2>6, <1>1 DEF LogTypes
  <2>11. FillsFromZero'
    <3>1. Len(buf'[p]) = Capacity
      BY <2>1, <2>3, <2>6
    <3> QED BY <1>1, <3>1, <2>5 DEF FillsFromZero
  <2>12. ASSUME NEW q \in Printers, NEW i \in 1 .. Len(buf'[q])
         PROVE  buf'[q][i] = id \/ \E j \in 1 .. Len(buf[q]) : buf'[q][i] = buf[q][j]
    <3>1. CASE q = p
      <4>1. i \in 1 .. n /\ n = Len(b) /\ b = buf[p]
        BY <1>1, <2>3, <2>6, <3>1
      <4>2. buf'[q][i] = IF i = k + 1 THEN id ELSE b[i]
        BY <2>3, <2>6, <3>1, <4>1
      <4> QED BY <3>1, <4>1, <4>2
    <3>2. CASE q # p
      BY <2>5, <3>2
    <3> QED BY <3>1, <3>2
  <2>13. \A q \in Printers \ {p} : Recent(q)' = Recent(q)
    BY <1>2, <2>5
  <2> QED BY <2>7, <2>8, <2>9, <2>10, <2>11, <2>12, <2>13
<1> QED BY <1>5, <1>6

-----------------------------------------------------------------------------
LEMMA InitLog == LogInit => LogInv
<1> SUFFICES ASSUME LogInit PROVE LogInv
  OBVIOUS
<1>1. LogTypes
  BY LogAssumption DEF LogInit, LogTypes
<1>2. FillsFromZero /\ IDsBehind /\ WakeNotAhead /\ NoLostWakeup
  BY DEF LogInit, FillsFromZero, IDsBehind, CursorsBehind, WakeNotAhead, NoLostWakeup
<1> QED BY <1>1, <1>2 DEF LogInv

(* A step that leaves the rings alone leaves what is read from them alone. *)
LEMMA SameRings ==
  ASSUME UNCHANGED rings
  PROVE  /\ FillsFromZero => FillsFromZero'
         /\ \A p \in Printers : NewestFirst(p)' = NewestFirst(p)
         /\ \A p \in Printers : \A after : Newer(p, after)' = Newer(p, after)
         /\ [p \in Printers |-> Recent(p)]' = [p \in Printers |-> Recent(p)]
BY DEF rings, FillsFromZero, NewestFirst, Newer, Recent

(* What a reader is given is no newer than the last ID.                    *)
LEMMA ReadsBehind ==
  ASSUME LogTypes, FillsFromZero, IDsBehind, NEW p \in Printers, NEW i \in 1 .. Len(buf[p])
  PROVE  NewestFirst(p)[i] \in Nat /\ NewestFirst(p)[i] <= nextID
<1>1. PICK j \in 1 .. Len(buf[p]) : NewestFirst(p)[i] = buf[p][j]
  BY ReadsEntries
<1>2. buf[p] \in Seq(Nat)
  BY DEF LogTypes
<1>3. buf[p][j] \in Nat
  BY <1>2, ElementOfSeq
<1> QED BY <1>1, <1>3 DEF IDsBehind

LEMMA RecordKeeps ==
  ASSUME LogInv, NEW w \in Writers, NEW s \in Serials, Record(w, s)
  PROVE  LogInv' /\ Promise!Record(s)
<1> DEFINE id == nextID + 1
<1>1. /\ LogTypes /\ FillsFromZero /\ IDsBehind /\ WakeNotAhead /\ NoLostWakeup
      /\ s \in Printers /\ nextID < clock /\ id \in Nat /\ Store(s, id)
      /\ nextID' = id /\ changed' = changed + 1 /\ notify' = [notify EXCEPT ![w] = id]
      /\ UNCHANGED <<clock, calls>>
  BY DEF LogInv, Record, LogTypes
<1> HIDE DEF id
<1>2. /\ buf' \in [Printers -> Seq(Nat)] /\ \A q \in Printers : Len(buf'[q]) <= Capacity
      /\ next' \in [Printers -> 0 .. Capacity - 1]
      /\ FillsFromZero'
      /\ \A q \in Printers : \A i \in 1 .. Len(buf'[q]) :
           buf'[q][i] = id \/ \E j \in 1 .. Len(buf[q]) : buf'[q][i] = buf[q][j]
      /\ [q \in Printers |-> Recent(q)'] =
           [[q \in Printers |-> Recent(q)] EXCEPT ![s] = Promise!Newest(<<id>> \o @)]
  BY <1>1, StoreKeeps
<1>3. LogTypes'
  BY <1>1, <1>2 DEF LogTypes, calls
<1>4. IDsBehind'
  <2>1. id = nextID + 1 /\ nextID \in Nat /\ clock \in Nat
    BY <1>1 DEF id, LogTypes
  <2>2. ASSUME NEW q \in Printers, NEW i \in 1 .. Len(buf'[q])
        PROVE  buf'[q][i] <= nextID'
    <3>1. CASE buf'[q][i] = id
      BY <3>1, <2>1, <1>1
    <3>2. CASE \E j \in 1 .. Len(buf[q]) : buf'[q][i] = buf[q][j]
      <4>1. PICK j \in 1 .. Len(buf[q]) : buf'[q][i] = buf[q][j]
        BY <3>2
      <4>2. buf[q] \in Seq(Nat)
        BY <1>1 DEF LogTypes
      <4>3. buf[q][j] \in Nat /\ buf[q][j] <= nextID
        BY <1>1, <4>2, ElementOfSeq DEF IDsBehind
      <4> QED BY <4>1, <4>3, <2>1, <1>1
    <3> QED BY <3>1, <3>2, <1>2
  <2>3. nextID' <= clock'
    BY <1>1, <2>1
  <2>4. CursorsBehind'
    <3>1. \A r \in Readers : afterID[r] \in Nat /\ afterID[r] <= nextID
      BY <1>1 DEF IDsBehind, CursorsBehind, LogTypes
    <3> QED BY <3>1, <2>1, <1>1 DEF CursorsBehind, calls
  <2> QED BY <2>2, <2>3, <2>4 DEF IDsBehind
<1>5. WakeNotAhead' /\ NoLostWakeup'
  <2>1. \A r \in Readers : polling'[r] = "select" => wake'[r] < changed'
    <3>1. \A r \in Readers : wake[r] \in Nat /\ changed \in Nat
      BY <1>1 DEF LogTypes
    <3> QED BY <3>1, <1>1 DEF WakeNotAhead, calls
  <2>2. \A r \in Readers : wake'[r] \in Nat /\ changed' \in Nat
    BY <1>3 DEF LogTypes
  <2> QED BY <2>1, <2>2 DEF WakeNotAhead, NoLostWakeup
<1>6. Promise!Record(s)
  <2>1. nextID' > nextID
    BY <1>1 DEF id, LogTypes
  <2>2. [q \in Printers |-> Recent(q)]' = [q \in Printers |-> Recent(q)']
    OBVIOUS
  <2> QED BY <1>1, <1>2, <2>1, <2>2 DEF Promise!Record
<1> QED BY <1>3, <1>4, <1>5, <1>2, <1>6 DEF LogInv

LEMMA RestartKeeps ==
  ASSUME LogInv, Rebuild
  PROVE  LogInv' /\ Promise!Restart
<1>1. LogTypes /\ IDsBehind
  BY DEF LogInv
<1>2. LogTypes'
  BY <1>1, LogAssumption DEF Rebuild, LogTypes
<1>3. FillsFromZero' /\ WakeNotAhead' /\ NoLostWakeup'
  BY DEF Rebuild, FillsFromZero, WakeNotAhead, NoLostWakeup
<1>4. \A r \in Readers : afterID[r] \in Nat /\ nextID \in Nat /\ clock \in Nat
  BY <1>1 DEF LogTypes
<1>5. IDsBehind'
  BY <1>1, <1>4 DEF Rebuild, IDsBehind, CursorsBehind, LogTypes
<1>6. Promise!Restart
  <2>1. nextID' >= nextID
    BY <1>1 DEF Rebuild, IDsBehind, LogTypes
  <2>2. ASSUME NEW p \in Printers PROVE Recent(p)' = <<>>
    <3>1. buf'[p] = <<>>
      BY DEF Rebuild
    <3>2. Len(buf'[p]) = 0
      BY <3>1
    <3> QED BY <3>1, <3>2 DEF Recent, NewestFirst
  <2>3. [p \in Printers |-> Recent(p)]' = [p \in Printers |-> <<>>]
    BY <2>2
  <2> QED BY <2>1, <2>3 DEF Promise!Restart, Promise!Empty
<1> QED BY <1>2, <1>3, <1>5, <1>6 DEF LogInv

(* What a step that leaves the rings alone has to show.                    *)
LEMMA QuietKeeps ==
  ASSUME LogInv, LogTypes', UNCHANGED <<nextID, rings, changed>>, clock <= clock',
         \A r \in Readers : afterID'[r] <= nextID,
         \A r \in Readers : polling'[r] = "select" =>
           /\ wake'[r] <= changed
           /\ wake'[r] = changed => Newer(wanted'[r], afterID'[r]) = {}
  PROVE  LogInv' /\ UNCHANGED <<[p \in Printers |-> Recent(p)], nextID>>
<1>1. /\ FillsFromZero'
      /\ \A p \in Printers : \A after : Newer(p, after)' = Newer(p, after)
      /\ UNCHANGED [p \in Printers |-> Recent(p)]
  BY SameRings DEF LogInv
<1>2. IDsBehind'
  BY DEF LogInv, IDsBehind, CursorsBehind, LogTypes, rings
<1>3. WakeNotAhead'
  BY DEF WakeNotAhead
<1>4. NoLostWakeup'
  BY DEF NoLostWakeup, Newer, NewestFirst, rings
<1> QED BY <1>1, <1>2, <1>3, <1>4 DEF LogInv

(* A step that moves no reader.                                            *)
LEMMA WriterKeeps ==
  ASSUME LogInv, Tick \/ (\E w \in Writers : Tell(w)) \/ UNCHANGED logVars
  PROVE  LogInv' /\ UNCHANGED <<[p \in Printers |-> Recent(p)], nextID>>
<1>1. LogTypes /\ WakeNotAhead /\ NoLostWakeup /\ CursorsBehind
  BY DEF LogInv, IDsBehind
<1>2. UNCHANGED <<nextID, rings, changed, calls>>
  BY DEF Tick, Tell, logVars, rings, calls
<1>3. LogTypes' /\ clock <= clock'
  <2>1. CASE Tick
    BY <1>1, <1>2, <2>1 DEF Tick, LogTypes, rings, calls
  <2>2. CASE \E w \in Writers : Tell(w)
    BY <1>1, <1>2, <2>2 DEF Tell, LogTypes, rings, calls
  <2>3. CASE UNCHANGED logVars
    BY <1>1, <2>3 DEF logVars, LogTypes
  <2> QED BY <2>1, <2>2, <2>3
<1>4. \A r \in Readers : afterID'[r] <= nextID
  BY <1>1, <1>2 DEF CursorsBehind, calls
<1>5. \A r \in Readers : polling'[r] = "select" =>
        /\ wake'[r] <= changed
        /\ wake'[r] = changed => Newer(wanted'[r], afterID'[r]) = {}
  BY <1>1, <1>2 DEF WakeNotAhead, NoLostWakeup, calls
<1> QED BY <1>2, <1>3, <1>4, <1>5, QuietKeeps

(* A reader that is given entries.                                         *)
LEMMA AnswerKeeps ==
  ASSUME LogInv, NEW r \in Readers, LookAnswer(r)
  PROVE  LogInv' /\ UNCHANGED <<[p \in Printers |-> Recent(p)], nextID>>
<1>1. LogTypes /\ FillsFromZero /\ IDsBehind /\ WakeNotAhead /\ NoLostWakeup /\ CursorsBehind
  BY DEF LogInv, IDsBehind
<1>2. PICK id : /\ id \in Nat /\ id <= nextID
                /\ afterID' = [afterID EXCEPT ![r] = id]
  <2>1. wanted[r] \in Printers
    BY DEF LookAnswer
  <2>2. PICK first \in Newer(wanted[r], afterID[r]) :
          afterID' = [afterID EXCEPT ![r] = NewestFirst(wanted[r])[first]]
    BY DEF LookAnswer
  <2>3. first \in 1 .. Len(buf[wanted[r]])
    BY DEF Newer
  <2>4. NewestFirst(wanted[r])[first] \in Nat /\ NewestFirst(wanted[r])[first] <= nextID
    BY <1>1, <2>1, <2>3, ReadsBehind
  <2> QED BY <2>2, <2>4
<1>3. /\ UNCHANGED <<clock, nextID, rings, changed, notify, wanted, wake>>
      /\ polling' = [polling EXCEPT ![r] = "out"]
  BY DEF LookAnswer
<1>4. LogTypes' /\ clock <= clock'
  BY <1>1, <1>2, <1>3 DEF LogTypes, rings
<1>5. ASSUME NEW q \in Readers PROVE afterID'[q] <= nextID
  <2>1. CASE q = r
    BY <2>1, <1>1, <1>2 DEF LogTypes
  <2>2. CASE q # r
    BY <2>2, <1>1, <1>2 DEF LogTypes, CursorsBehind
  <2> QED BY <2>1, <2>2
<1>6. ASSUME NEW q \in Readers, polling'[q] = "select"
      PROVE  /\ wake'[q] <= changed
             /\ wake'[q] = changed => Newer(wanted'[q], afterID'[q]) = {}
  <2>1. q # r /\ polling[q] = "select" /\ afterID'[q] = afterID[q]
    BY <1>1, <1>2, <1>3, <1>6 DEF LogTypes
  <2> QED BY <2>1, <1>1, <1>3 DEF WakeNotAhead, NoLostWakeup
<1> QED BY <1>3, <1>4, <1>5, <1>6, QuietKeeps

(* The other steps of a reader: only LookSleep starts a sleep.             *)
LEMMA ReaderKeeps ==
  ASSUME LogInv, NEW r \in Readers,
         \/ LookUnknown(r) \/ LookSleep(r) \/ Woken(r) \/ EndCall(r)
         \/ \E s \in Serials : CallWait(r, s)
  PROVE  LogInv' /\ UNCHANGED <<[p \in Printers |-> Recent(p)], nextID>>
<1>1. LogTypes /\ WakeNotAhead /\ NoLostWakeup /\ CursorsBehind
  BY DEF LogInv, IDsBehind
<1>2. UNCHANGED <<clock, nextID, rings, changed, notify, afterID>>
  BY DEF LookUnknown, LookSleep, Woken, EndCall, CallWait
<1>3. LogTypes'
  <2>1. CASE LookSleep(r)
    BY <1>1, <2>1 DEF LookSleep, LogTypes, rings
  <2>2. CASE \E s \in Serials : CallWait(r, s)
    BY <1>1, <2>2 DEF CallWait, LogTypes, rings
  <2>3. CASE LookUnknown(r) \/ Woken(r) \/ EndCall(r)
    BY <1>1, <2>3 DEF LookUnknown, Woken, EndCall, LogTypes, rings
  <2> QED BY <2>1, <2>2, <2>3
<1>4. clock <= clock' /\ \A q \in Readers : afterID'[q] <= nextID
  BY <1>1, <1>2 DEF CursorsBehind, LogTypes
<1>5. ASSUME NEW q \in Readers, polling'[q] = "select"
      PROVE  /\ wake'[q] <= changed
             /\ wake'[q] = changed => Newer(wanted'[q], afterID'[q]) = {}
  <2>1. CASE q = r
    <3>1. LookSleep(r)
      BY <1>1, <1>5, <2>1 DEF LookUnknown, Woken, EndCall, CallWait, LogTypes
    <3> QED BY <1>1, <2>1, <3>1 DEF LookSleep, LogTypes
  <2>2. CASE q # r
    <3>1. polling[q] = "select" /\ wake'[q] = wake[q] /\ wanted'[q] = wanted[q]
      BY <1>1, <1>5, <2>2 DEF LookUnknown, LookSleep, Woken, EndCall, CallWait, LogTypes
    <3> QED BY <1>1, <1>2, <3>1 DEF WakeNotAhead, NoLostWakeup
  <2> QED BY <2>1, <2>2
<1> QED BY <1>2, <1>3, <1>4, <1>5, QuietKeeps

(* Every step keeps the invariant and is a step of the bounded log.        *)
LEMMA StepKeeps ==
  ASSUME LogInv, [LogNext]_logVars
  PROVE  LogInv' /\ [Promise!Next]_<<[p \in Printers |-> Recent(p)], nextID>>
<1>1. CASE Tick \/ (\E w \in Writers : Tell(w)) \/ UNCHANGED logVars
  BY <1>1, WriterKeeps
<1>2. CASE Rebuild
  BY <1>2, RestartKeeps DEF Promise!Next
<1>3. ASSUME NEW w \in Writers, NEW s \in Serials, Record(w, s)
      PROVE  LogInv' /\ Promise!Next
  <2>1. s \in Printers
    BY <1>3 DEF Record
  <2> QED BY <1>3, <2>1, RecordKeeps DEF Promise!Next
<1>4. ASSUME NEW r \in Readers, LookAnswer(r)
      PROVE  LogInv' /\ UNCHANGED <<[p \in Printers |-> Recent(p)], nextID>>
  BY <1>4, AnswerKeeps
<1>5. ASSUME NEW r \in Readers,
             \/ LookUnknown(r) \/ LookSleep(r) \/ Woken(r) \/ EndCall(r)
             \/ \E s \in Serials : CallWait(r, s)
      PROVE  LogInv' /\ UNCHANGED <<[p \in Printers |-> Recent(p)], nextID>>
  BY <1>5, ReaderKeeps
<1> QED BY <1>1, <1>2, <1>3, <1>4, <1>5 DEF LogNext, Wait

THEOREM LogInvariant == LogSpec => []LogInv
<1>1. LogInv /\ [LogNext]_logVars => LogInv'
  BY StepKeeps
<1> QED BY <1>1, InitLog, PTL DEF LogSpec

(* Rings never outgrow their capacity and their index stays inside them.   *)
THEOREM TypeCorrect == LogSpec => []LogTypes
<1>1. LogInv => LogTypes
  BY DEF LogInv
<1> QED BY <1>1, LogInvariant, PTL

(* No reader of Wait sleeps on a live channel with an entry to be given,   *)
(* however many writers, readers and printers there are.                   *)
THEOREM NoWakeupLost == LogSpec => []NoLostWakeup
<1>1. LogInv => NoLostWakeup
  BY DEF LogInv
<1> QED BY <1>1, LogInvariant, PTL

(* IDs survive restarts: no cursor is ahead of the log.                    *)
THEOREM CursorsStayBehind == LogSpec => []CursorsBehind
<1>1. LogInv => CursorsBehind
  BY DEF LogInv, IDsBehind
<1> QED BY <1>1, LogInvariant, PTL

(* The ring arithmetic shows readers the newest Capacity entries, newest   *)
(* first, for every capacity: the ring implements BoundedLog.              *)
THEOREM RingImplementsLog == LogSpec => KeepsNewest
<1>1. LogInit => Promise!Init
  <2> SUFFICES ASSUME LogInit PROVE Promise!Init
    OBVIOUS
  <2>1. ASSUME NEW p \in Printers PROVE Recent(p) = <<>>
    <3>1. buf[p] = <<>> /\ Len(buf[p]) = 0
      BY DEF LogInit
    <3> QED BY <3>1 DEF Recent, NewestFirst
  <2> QED BY <2>1 DEF LogInit, Promise!Init, Promise!Empty
<1>2. LogInv /\ [LogNext]_logVars => [Promise!Next]_<<[p \in Printers |-> Recent(p)], nextID>>
  BY StepKeeps
<1> QED BY <1>1, <1>2, LogInvariant, PTL DEF LogSpec, KeepsNewest, Promise!Spec
=============================================================================
