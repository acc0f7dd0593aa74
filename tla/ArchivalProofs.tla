---------------------------- MODULE ArchivalProofs -----------------------------
(***************************************************************************)
(* What each step of an archive keeps of the order and the whereabouts of  *)
(* its entries, whatever the entries say.  SwapExecutionProofs makes of it *)
(* invariants of the agents that log and flush.                            *)
(***************************************************************************)
EXTENDS Archival, TLAPS

LOCAL INSTANCE Functions

(* Sequences of entries that say something of K.                           *)
Entry(K) == [what : K, at : Nat]
Logs(K)  == Seq(Entry(K))

(* What was taken from the buffer and is accounted for, and all that was   *)
(* taken: an upload given up is still somewhere.                           *)
Kept(a)  == {flushing[a]} \cup archived[a] \cup failed[a]
Taken(a) == Batches(a) \cup Kept(a)

IsRun(b) == \A k \in 1 .. Len(b) - 1 : b[k + 1].at = b[k].at + 1

Apart(b, c) == \A i \in 1 .. Len(b), j \in 1 .. Len(c) : b[i].at # c[j].at

(* A buffer holds the latest of n entries in order; the runs taken from it *)
(* do not overlap; and the kept ones leave no gap before the buffer.       *)
Ordered(buf, n, taken, kept) ==
  /\ Len(buf) <= n
  /\ \A k \in 1 .. Len(buf) : buf[k].at = n - Len(buf) + k
  /\ \A b \in taken : IsRun(b) /\ \A k \in 1 .. Len(b) : b[k].at <= n - Len(buf)
  /\ \A b, c \in taken : b # c => Apart(b, c)
  /\ \A m \in 1 .. n - Len(buf) : \E b \in kept : \E k \in 1 .. Len(b) : b[k].at = m

(* log appends the next entry.                                             *)
LEMMA OrderedLog ==
  ASSUME NEW K, NEW buf \in Logs(K), NEW n \in Nat, NEW taken \in SUBSET Logs(K),
         NEW kept \in SUBSET Logs(K), Ordered(buf, n, taken, kept), NEW w \in K
  PROVE  Ordered(Append(buf, [what |-> w, at |-> n + 1]), n + 1, taken, kept)
<1> DEFINE e == [what |-> w, at |-> n + 1]
           new == Append(buf, e)
<1>1. e \in Entry(K) /\ e.at = n + 1
  BY DEF Entry
<1>2. buf \in Seq(Entry(K)) /\ Len(buf) \in Nat
  BY DEF Logs
<1> HIDE DEF e
<1>3. /\ Len(new) = Len(buf) + 1
      /\ \A k \in 1 .. Len(buf) : new[k] = buf[k]
      /\ new[Len(buf) + 1] = e
  BY <1>1, <1>2
<1> HIDE DEF new
<1>4. n + 1 - Len(new) = n - Len(buf)
  BY <1>2, <1>3
<1>5. \A k \in 1 .. Len(new) : new[k].at = n + 1 - Len(new) + k
  <2> SUFFICES ASSUME NEW k \in 1 .. Len(new) PROVE new[k].at = n - Len(buf) + k
    BY <1>4
  <2>1. CASE k = Len(buf) + 1
    BY <1>1, <1>2, <1>3, <2>1
  <2>2. CASE k # Len(buf) + 1
    <3>1. k \in 1 .. Len(buf) /\ new[k] = buf[k]
      BY <1>2, <1>3, <2>2
    <3> QED
      BY <3>1 DEF Ordered
  <2> QED
    BY <2>1, <2>2
<1>6. Len(new) <= n + 1
  BY <1>2, <1>3 DEF Ordered
<1>7. \A b \in taken :
        IsRun(b) /\ \A k \in 1 .. Len(b) : b[k].at <= n + 1 - Len(new)
  BY <1>4 DEF Ordered
<1>8. \A m \in 1 .. n + 1 - Len(new) :
        \E b \in kept : \E k \in 1 .. Len(b) : b[k].at = m
  BY <1>4 DEF Ordered
<1>9. Ordered(new, n + 1, taken, kept)
  BY <1>5, <1>6, <1>7, <1>8 DEF Ordered
<1> QED
  BY <1>9 DEF new, e

(* A flush takes all of the buffer.                                        *)
LEMMA OrderedFlush ==
  ASSUME NEW K, NEW buf \in Logs(K), NEW n \in Nat, NEW taken \in SUBSET Logs(K),
         NEW kept \in SUBSET Logs(K), Ordered(buf, n, taken, kept)
  PROVE  Ordered(<<>>, n, taken \cup {buf}, kept \cup {buf})
<1> DEFINE len == Len(buf)
<1>1. len \in Nat /\ len <= n /\ \A k \in 1 .. len : buf[k].at = n - len + k
  BY DEF Logs, Ordered
<1>2. \A b \in taken : Len(b) \in Nat /\ \A k \in 1 .. Len(b) : b[k].at \in Nat
  <2> SUFFICES ASSUME NEW b \in taken
               PROVE  Len(b) \in Nat /\ \A k \in 1 .. Len(b) : b[k].at \in Nat
    OBVIOUS
  <2>1. b \in Seq(Entry(K))
    BY DEF Logs
  <2>2. Len(b) \in Nat /\ \A k \in 1 .. Len(b) : b[k] \in Entry(K)
    BY <2>1
  <2> QED
    BY <2>2 DEF Entry
<1>3. \A b \in taken : IsRun(b) /\ \A k \in 1 .. Len(b) : b[k].at <= n - len
  BY DEF Ordered
<1>4. /\ \A b, c \in taken : b # c => Apart(b, c)
      /\ \A m \in 1 .. n - len : \E b \in kept : \E k \in 1 .. Len(b) : b[k].at = m
  BY DEF Ordered
<1> HIDE DEF len
<1>5. IsRun(buf)
  <2> SUFFICES ASSUME NEW k \in 1 .. len - 1 PROVE buf[k + 1].at = buf[k].at + 1
    BY DEF IsRun, len
  <2>1. k \in 1 .. len /\ k + 1 \in 1 .. len
    BY <1>1
  <2>2. buf[k].at = n - len + k /\ buf[k + 1].at = n - len + (k + 1)
    BY <1>1, <2>1
  <2> QED
    BY <1>1, <2>1, <2>2
<1>6. \A k \in 1 .. len : buf[k].at <= n
  BY <1>1
<1>7. \A b \in taken : \A k \in 1 .. Len(b) : b[k].at <= n
  BY <1>1, <1>2, <1>3
<1>8. \A b \in taken : Apart(b, buf) /\ Apart(buf, b)
  <2> SUFFICES ASSUME NEW b \in taken, NEW i \in 1 .. Len(b), NEW k \in 1 .. len
               PROVE  b[i].at # buf[k].at
    BY DEF Apart, len
  <2>1. b[i].at \in Nat /\ b[i].at <= n - len
    BY <1>2, <1>3
  <2> QED
    BY <1>1, <2>1
<1>9. ASSUME NEW m \in 1 .. n
      PROVE  \E b \in kept \cup {buf} : \E k \in 1 .. Len(b) : b[k].at = m
  <2>1. CASE m <= n - len
    BY <1>1, <1>4, <2>1
  <2>2. CASE m > n - len
    <3>1. m - (n - len) \in 1 .. len /\ buf[m - (n - len)].at = m
      BY <1>1, <2>2
    <3> QED
      BY <3>1 DEF len
  <2> QED
    BY <1>1, <2>1, <2>2
<1>10. Len(<<>>) = 0
  OBVIOUS
<1>11. \A b \in taken \cup {buf} : IsRun(b) /\ \A k \in 1 .. Len(b) : b[k].at <= n
  BY <1>3, <1>5, <1>6, <1>7 DEF len
<1>12. \A b, c \in taken \cup {buf} : b # c => Apart(b, c)
  BY <1>4, <1>8
<1>13. n - Len(<<>>) = n /\ Len(<<>>) <= n /\ ~\E k \in 1 .. Len(<<>>) : TRUE
  BY <1>10
<1> QED
  BY <1>9, <1>11, <1>12, <1>13 DEF Ordered

(* Nothing else adds a batch, and an empty one does not count.             *)
LEMMA OrderedLess ==
  ASSUME NEW K, NEW buf \in Logs(K), NEW n \in Nat, NEW taken \in SUBSET Logs(K),
         NEW kept \in SUBSET Logs(K), Ordered(buf, n, taken, kept),
         NEW less, less \subseteq taken \cup {<<>>},
         NEW more, kept \subseteq more \cup {<<>>}
  PROVE  Ordered(buf, n, less, more)
<1>1. Len(<<>>) = 0
  OBVIOUS
<1>2. \A b \in less : IsRun(b) /\ \A k \in 1 .. Len(b) : b[k].at <= n - Len(buf)
  BY <1>1 DEF Ordered, IsRun
<1>3. \A b, c \in less : b # c => Apart(b, c)
  BY <1>1 DEF Ordered, Apart
<1>4. \A m \in 1 .. n - Len(buf) : \E b \in more : \E k \in 1 .. Len(b) : b[k].at = m
  BY <1>1 DEF Ordered
<1> QED
  BY <1>2, <1>3, <1>4 DEF Ordered
-----------------------------------------------------------------------------
(* The steps.                                                              *)

ArchiveType(K) ==
  /\ clock    \in [Archivers -> Nat]
  /\ buffer   \in [Archivers -> Logs(K)]
  /\ flushing \in [Archivers -> Logs(K)]
  /\ archived \in [Archivers -> SUBSET Logs(K)]
  /\ failed   \in [Archivers -> SUBSET Logs(K)]
  /\ uploads \subseteq Archivers \X Logs(K)
  /\ store \subseteq Archivers \X Logs(K)

(* The inductive invariant: besides the order of each archive, that what   *)
(* was reported as archived is stored.                                     *)
ArchiveInv(K) ==
  /\ ArchiveType(K)
  /\ \A a \in Archivers :
       /\ Ordered(buffer[a], clock[a], Taken(a), Kept(a))
       /\ \A b \in archived[a] : <<a, b>> \in store

(* The entries of an archive, wherever they are.                           *)
Logged(a) == UNION {Range(b) : b \in Taken(a) \cup {buffer[a]}}

LEMMA EntriesAreLogged == \A a : Entries(a) = Logged(a) /\ Entries(a)' = Logged(a)'
<1>1. \A a : /\ Batches(a) \cup {buffer[a], flushing[a]} \cup archived[a] \cup failed[a]
                  = Taken(a) \cup {buffer[a]}
             /\ (Batches(a) \cup {buffer[a], flushing[a]} \cup archived[a] \cup failed[a])'
                  = (Taken(a) \cup {buffer[a]})'
  BY DEF Taken, Kept
<1> QED
  BY <1>1 DEF Entries, Logged

LEMMA EmptyLog == \A K : <<>> \in Logs(K)
BY DEF Logs

LEMMA TakenType ==
  ASSUME NEW K, ArchiveType(K), NEW a \in Archivers
  PROVE  Taken(a) \in SUBSET Logs(K) /\ Kept(a) \in SUBSET Logs(K)
BY DEF ArchiveType, Taken, Kept, Batches

LEMMA InitKeepsOrder ==
  ASSUME NEW K, InitArchive
  PROVE  ArchiveInv(K) /\ \A a \in Archivers : Logged(a) = {}
<1>1. ArchiveType(K)
  BY EmptyLog DEF InitArchive, ArchiveType
<1>2. ASSUME NEW a \in Archivers
      PROVE  /\ Logged(a) = {}
             /\ Ordered(buffer[a], clock[a], Taken(a), Kept(a))
             /\ \A b \in archived[a] : <<a, b>> \in store
  <2>1. /\ Taken(a) = {<<>>} /\ Kept(a) = {<<>>} /\ buffer[a] = <<>>
        /\ clock[a] = 0 /\ archived[a] = {}
    BY DEF InitArchive, Taken, Kept, Batches
  <2>2. Len(<<>>) = 0 /\ Range(<<>>) = {}
    BY DEF Range
  <2> QED
    BY <2>1, <2>2 DEF Ordered, IsRun, Logged
<1> QED
  BY <1>1, <1>2 DEF ArchiveInv

LEMMA LogKeepsOrder ==
  ASSUME NEW K, ArchiveInv(K), NEW p, NEW w \in K, Log(p, w)
  PROVE  /\ ArchiveInv(K)'
         /\ \A a \in Archivers : \A e \in Logged(a)' :
              e \in Logged(a) \/ (a = p /\ e = [what |-> w, at |-> clock[p] + 1])
<1>1. CASE p \notin Archivers
  <2>1. UNCHANGED archiveVars
    BY <1>1 DEF Log
  <2>2. \A a : /\ Taken(a)' = Taken(a) /\ Kept(a)' = Kept(a)
               /\ Logged(a)' = Logged(a)
    BY <2>1 DEF archiveVars, Taken, Kept, Batches, Logged
  <2>3. ArchiveType(K)'
    BY <2>1 DEF archiveVars, ArchiveInv, ArchiveType
  <2> QED
    BY <2>1, <2>2, <2>3 DEF archiveVars, ArchiveInv
<1>2. CASE p \in Archivers
  <2> DEFINE entry == [what |-> w, at |-> clock[p] + 1]
  <2>1. /\ clock' = [clock EXCEPT ![p] = clock[p] + 1]
        /\ buffer' = [buffer EXCEPT ![p] = Append(buffer[p], entry)]
        /\ UNCHANGED <<flushing, uploads, store, archived, failed>>
    BY <1>2 DEF Log
  <2>2. ArchiveType(K)
    BY DEF ArchiveInv
  <2>3. clock[p] \in Nat /\ entry \in Entry(K) /\ buffer[p] \in Seq(Entry(K))
    <3>1. clock[p] \in Nat /\ buffer[p] \in Seq(Entry(K))
      BY <1>2, <2>2 DEF ArchiveType, Logs
    <3>2. clock[p] + 1 \in Nat
      BY <3>1
    <3> QED
      BY <3>1, <3>2 DEF Entry
  <2>5. /\ Len(Append(buffer[p], entry)) = Len(buffer[p]) + 1
        /\ Append(buffer[p], entry) \in Logs(K)
        /\ Range(Append(buffer[p], entry)) \subseteq Range(buffer[p]) \cup {entry}
    <3> HIDE DEF entry
    <3>1. Append(buffer[p], entry) \in Logs(K)
      BY <2>3 DEF Logs
    <3>2. Range(Append(buffer[p], entry)) \subseteq Range(buffer[p]) \cup {entry}
      BY <2>3 DEF Range
    <3> QED
      BY <2>3, <3>1, <3>2
  <2>6. ArchiveType(K)'
    <3> HIDE DEF entry
    <3> QED
      BY <1>2, <2>1, <2>2, <2>3, <2>5 DEF ArchiveType
  <2>7. ASSUME NEW a \in Archivers
        PROVE  Taken(a)' = Taken(a) /\ Kept(a)' = Kept(a)
    BY <2>1 DEF Taken, Kept, Batches
  <2>8. ASSUME NEW a \in Archivers
        PROVE  Ordered(buffer'[a], clock'[a], Taken(a)', Kept(a)')
    <3>1. Ordered(buffer[a], clock[a], Taken(a), Kept(a))
      BY DEF ArchiveInv
    <3>2. CASE a = p
      <4>1. buffer'[a] = Append(buffer[a], entry) /\ clock'[a] = clock[a] + 1
        BY <1>2, <2>1, <2>2, <3>2 DEF ArchiveType
      <4>2. buffer[a] \in Logs(K) /\ clock[a] \in Nat
        BY <2>2 DEF ArchiveType
      <4>3. Ordered(Append(buffer[a], [what |-> w, at |-> clock[a] + 1]), clock[a] + 1,
                    Taken(a), Kept(a))
        BY <2>2, <3>1, <4>2, OrderedLog, TakenType
      <4> QED
        BY <2>7, <3>2, <4>1, <4>3
    <3>3. CASE a # p
      <4>1. buffer'[a] = buffer[a] /\ clock'[a] = clock[a]
        BY <2>1, <2>2, <3>3 DEF ArchiveType
      <4> QED
        BY <2>7, <3>1, <4>1
    <3> QED
      BY <3>2, <3>3
  <2>9. ASSUME NEW a \in Archivers, NEW e \in Logged(a)'
        PROVE  e \in Logged(a) \/ (a = p /\ e = entry)
    <3>1. PICK b \in Taken(a)' \cup {buffer'[a]} : e \in Range(b)
      BY <2>9 DEF Logged
    <3>2. CASE b \in Taken(a) \cup {buffer[a]}
      BY <3>1, <3>2 DEF Logged
    <3>3. CASE b \notin Taken(a) \cup {buffer[a]}
      <4>1. b = buffer'[a] /\ a = p
        BY <2>1, <2>2, <2>7, <3>1, <3>3 DEF ArchiveType
      <4>2. b = Append(buffer[p], entry)
        BY <1>2, <2>1, <2>2, <4>1 DEF ArchiveType
      <4>3. e \in Range(buffer[p]) \/ e = entry
        BY <2>5, <3>1, <4>2
      <4> QED
        BY <4>1, <4>3 DEF Logged
    <3> QED
      BY <3>2, <3>3
  <2>10. \A a \in Archivers : \A b \in archived'[a] : <<a, b>> \in store'
    BY <2>1 DEF ArchiveInv
  <2> QED
    BY <2>6, <2>8, <2>9, <2>10 DEF ArchiveInv
<1> QED
  BY <1>1, <1>2

LEMMA FlushKeepsOrder ==
  ASSUME NEW K, ArchiveInv(K), NEW p \in Archivers, flushing[p] = <<>>,
         NEW reached \in BOOLEAN, Flush(p, reached)
  PROVE  /\ ArchiveInv(K)'
         /\ \A a \in Archivers : Logged(a)' \subseteq Logged(a)
<1>1. /\ flushing' = [flushing EXCEPT ![p] = buffer[p]]
      /\ buffer' = [buffer EXCEPT ![p] = <<>>]
      /\ uploads' \subseteq uploads \cup {<<p, buffer[p]>>}
      /\ UNCHANGED <<clock, store, archived, failed>>
  BY DEF Flush
<1>2. ArchiveType(K)
  BY DEF ArchiveInv
<1>3. ArchiveType(K)'
  BY <1>1, <1>2, EmptyLog DEF ArchiveType
<1>4. ASSUME NEW a \in Archivers
      PROVE  /\ Ordered(buffer'[a], clock'[a], Taken(a)', Kept(a)')
             /\ Logged(a)' \subseteq Logged(a)
  <2>0. /\ Ordered(buffer[a], clock[a], Taken(a), Kept(a))
        /\ buffer[a] \in Logs(K) /\ clock[a] \in Nat
        /\ Taken(a) \in SUBSET Logs(K) /\ Kept(a) \in SUBSET Logs(K)
    BY <1>2, TakenType DEF ArchiveInv, ArchiveType
  <2>1. CASE a # p
    <3>1. buffer'[a] = buffer[a] /\ clock'[a] = clock[a] /\ Kept(a)' = Kept(a)
      BY <1>1, <1>2, <2>1 DEF ArchiveType, Kept
    <3>2. Batches(a)' \subseteq Batches(a)
      BY <1>1, <2>1 DEF Batches
    <3>3. Taken(a)' \subseteq Taken(a)
      BY <3>1, <3>2 DEF Taken
    <3>4. Ordered(buffer[a], clock[a], Taken(a)', Kept(a)')
      BY <2>0, <3>1, <3>3, OrderedLess
    <3> QED
      BY <3>1, <3>3, <3>4 DEF Logged
  <2>2. CASE a = p
    <3>1. /\ buffer'[a] = <<>> /\ clock'[a] = clock[a]
          /\ Kept(a)' = {buffer[a]} \cup archived[a] \cup failed[a]
      BY <1>1, <1>2, <2>2 DEF ArchiveType, Kept
    <3>2. Batches(a)' \subseteq Batches(a) \cup {buffer[a]}
      BY <1>1, <2>2 DEF Batches
    <3>3. Taken(a)' \subseteq Taken(a) \cup {buffer[a]}
      BY <3>1, <3>2 DEF Taken, Kept
    <3>4. Kept(a) \cup {buffer[a]} \subseteq Kept(a)' \cup {<<>>}
      BY <2>2, <3>1 DEF Kept
    <3>5. Ordered(<<>>, clock[a], Taken(a) \cup {buffer[a]}, Kept(a) \cup {buffer[a]})
      BY <2>0, OrderedFlush
    <3>6. Ordered(<<>>, clock[a], Taken(a)', Kept(a)')
      BY <2>0, <3>3, <3>4, <3>5, EmptyLog, OrderedLess
    <3>7. Range(<<>>) = {}
      BY DEF Range
    <3> QED
      BY <3>1, <3>3, <3>6, <3>7 DEF Logged
  <2> QED
    BY <2>1, <2>2
<1>5. \A a \in Archivers : \A b \in archived'[a] : <<a, b>> \in store'
  BY <1>1 DEF ArchiveInv
<1> QED
  BY <1>3, <1>4, <1>5 DEF ArchiveInv

(* What changes neither the buffer nor the clock, takes nothing new, keeps *)
(* what was kept, and archives only what is stored.                        *)
LEMMA RestKeepsOrder ==
  ASSUME NEW K, ArchiveInv(K), ArchiveType(K)', buffer' = buffer, clock' = clock,
         \A a \in Archivers : /\ Taken(a)' \subseteq Taken(a) \cup {<<>>}
                              /\ Kept(a) \subseteq Kept(a)' \cup {<<>>}
                              /\ \A b \in archived'[a] : <<a, b>> \in store'
  PROVE  /\ ArchiveInv(K)'
         /\ \A a \in Archivers : Logged(a)' \subseteq Logged(a)
<1>1. ASSUME NEW a \in Archivers
      PROVE  /\ Ordered(buffer'[a], clock'[a], Taken(a)', Kept(a)')
             /\ Logged(a)' \subseteq Logged(a)
  <2>1. /\ Ordered(buffer[a], clock[a], Taken(a), Kept(a))
        /\ buffer[a] \in Logs(K) /\ clock[a] \in Nat
        /\ Taken(a) \in SUBSET Logs(K) /\ Kept(a) \in SUBSET Logs(K)
    BY TakenType DEF ArchiveInv, ArchiveType
  <2>2. Ordered(buffer[a], clock[a], Taken(a)', Kept(a)')
    BY <2>1, OrderedLess
  <2>3. Range(<<>>) = {}
    BY DEF Range
  <2> QED
    BY <2>2, <2>3 DEF Logged
<1> QED
  BY <1>1 DEF ArchiveInv

LEMMA UploadKeepsOrder ==
  ASSUME NEW K, ArchiveInv(K), UploadEnds
  PROVE  /\ ArchiveInv(K)'
         /\ \A a \in Archivers : Logged(a)' \subseteq Logged(a)
<1>1. /\ uploads' \subseteq uploads
      /\ store \subseteq store' /\ store' \subseteq store \cup uploads
      /\ UNCHANGED <<buffer, clock, flushing, archived, failed>>
  BY DEF UploadEnds
<1>2. ArchiveType(K)'
  BY <1>1 DEF ArchiveInv, ArchiveType
<1>3. ASSUME NEW a \in Archivers
      PROVE  /\ Taken(a)' \subseteq Taken(a) /\ Kept(a)' = Kept(a)
             /\ \A b \in archived'[a] : <<a, b>> \in store'
  <2>1. Batches(a)' \subseteq Batches(a)
    BY <1>1 DEF Batches
  <2>2. Kept(a)' = Kept(a)
    BY <1>1 DEF Kept
  <2> QED
    BY <1>1, <2>1, <2>2 DEF Taken, ArchiveInv
<1> QED
  BY <1>1, <1>2, <1>3, RestKeepsOrder

LEMMA FlushEndKeepsOrder ==
  ASSUME NEW K, ArchiveInv(K), NEW p \in Archivers, FlushSucceeds(p) \/ FlushFails(p)
  PROVE  /\ ArchiveInv(K)'
         /\ \A a \in Archivers : Logged(a)' \subseteq Logged(a)
<1>1. /\ flushing' = [flushing EXCEPT ![p] = <<>>]
      /\ UNCHANGED <<buffer, clock, uploads, store>>
      /\ \/ /\ archived' = [archived EXCEPT ![p] = @ \cup {flushing[p]}]
            /\ failed' = failed
            /\ <<p, flushing[p]>> \in store
         \/ /\ failed' = [failed EXCEPT ![p] = @ \cup {flushing[p]}]
            /\ archived' = archived
  BY DEF FlushSucceeds, FlushFails
<1>2. ArchiveType(K)
  BY DEF ArchiveInv
<1>3. ArchiveType(K)'
  <2>1. flushing[p] \in Logs(K) /\ flushing' \in [Archivers -> Logs(K)]
    BY <1>1, <1>2, EmptyLog DEF ArchiveType
  <2>2. archived[p] \cup {flushing[p]} \in SUBSET Logs(K)
        /\ failed[p] \cup {flushing[p]} \in SUBSET Logs(K)
    BY <1>2, <2>1 DEF ArchiveType
  <2>3. archived' \in [Archivers -> SUBSET Logs(K)]
    BY <1>1, <1>2, <2>2 DEF ArchiveType
  <2>4. failed' \in [Archivers -> SUBSET Logs(K)]
    BY <1>1, <1>2, <2>2 DEF ArchiveType
  <2> QED
    BY <1>1, <1>2, <2>1, <2>3, <2>4 DEF ArchiveType
<1>4. ASSUME NEW a \in Archivers
      PROVE  /\ Taken(a)' \subseteq Taken(a) \cup {<<>>}
             /\ Kept(a) \subseteq Kept(a)' \cup {<<>>}
             /\ \A b \in archived'[a] : <<a, b>> \in store'
  <2>1. Batches(a)' = Batches(a)
    BY <1>1 DEF Batches
  <2>2. \A b \in archived[a] : <<a, b>> \in store
    BY DEF ArchiveInv
  <2>3. CASE a # p
    <3>1. flushing'[a] = flushing[a] /\ archived'[a] = archived[a] /\ failed'[a] = failed[a]
      BY <1>1, <1>2, <2>3 DEF ArchiveType
    <3> QED
      BY <1>1, <2>1, <2>2, <3>1 DEF Taken, Kept
  <2>4. CASE a = p
    <3>1. /\ flushing'[a] = <<>>
          /\ archived'[a] \cup failed'[a] = archived[a] \cup failed[a] \cup {flushing[a]}
          /\ \A b \in archived'[a] : b \in archived[a] \/ <<a, b>> \in store
      <4>1. flushing'[a] = <<>>
        BY <1>1, <1>2, <2>4 DEF ArchiveType
      <4>2. CASE /\ archived' = [archived EXCEPT ![p] = @ \cup {flushing[p]}]
                 /\ failed' = failed /\ <<p, flushing[p]>> \in store
        <5>1. archived'[a] = archived[a] \cup {flushing[a]} /\ failed'[a] = failed[a]
          BY <1>2, <2>4, <4>2 DEF ArchiveType
        <5> QED
          BY <2>4, <4>1, <4>2, <5>1
      <4>3. CASE /\ failed' = [failed EXCEPT ![p] = @ \cup {flushing[p]}]
                 /\ archived' = archived
        <5>1. failed'[a] = failed[a] \cup {flushing[a]} /\ archived'[a] = archived[a]
          BY <1>2, <2>4, <4>3 DEF ArchiveType
        <5> QED
          BY <4>1, <5>1
      <4> QED
        BY <1>1, <4>2, <4>3
    <3> QED
      BY <1>1, <2>1, <2>2, <3>1 DEF Taken, Kept
  <2> QED
    BY <2>3, <2>4
<1> QED
  BY <1>1, <1>3, <1>4, RestKeepsOrder
-----------------------------------------------------------------------------
(* What the invariant means.                                               *)

(* The entries that left the buffer and the ones that are in it are all    *)
(* the entries; batches and buffer, being runs that do not overlap, share  *)
(* none.                                                                   *)
LEMMA OrderIsSafe ==
  ASSUME NEW K, ArchiveInv(K)
  PROVE  NothingLostSilently /\ ArchivedOnce
<1> SUFFICES ASSUME NEW a \in Archivers
             PROVE  /\ \A b \in archived[a] : <<a, b>> \in store
                    /\ \A k \in 1 .. clock[a] :
                         \E s \in {buffer[a], flushing[a]} \cup archived[a] \cup failed[a] :
                           \E e \in Range(s) : e.at = k
                    /\ LET All == Batches(a) \cup {buffer[a], flushing[a]}
                       IN  /\ \A b \in All :
                                \A k \in 1 .. Len(b) - 1 : b[k + 1].at = b[k].at + 1
                           /\ \A b, c \in All : b # c => Range(b) \cap Range(c) = {}
  BY Zenon DEF NothingLostSilently, ArchivedOnce
<1> DEFINE All == Batches(a) \cup {buffer[a], flushing[a]}
           len == Len(buffer[a])
<1>1. /\ buffer[a] \in Logs(K) /\ clock[a] \in Nat
      /\ Taken(a) \in SUBSET Logs(K) /\ Kept(a) \in SUBSET Logs(K)
  BY TakenType DEF ArchiveInv, ArchiveType
<1>2. /\ \A b \in archived[a] : <<a, b>> \in store
      /\ Ordered(buffer[a], clock[a], Taken(a), Kept(a))
  BY DEF ArchiveInv
<1>3. /\ len \in Nat /\ len <= clock[a]
      /\ \A k \in 1 .. len : buffer[a][k].at = clock[a] - len + k
  BY <1>1, <1>2 DEF Logs, Ordered
<1>4. \A b \in Logs(K) : \A e \in Range(b) : \E k \in 1 .. Len(b) : e = b[k]
  BY DEF Logs, Range
<1>5. \A b \in Logs(K) : \A k \in 1 .. Len(b) : b[k] \in Range(b) /\ b[k].at \in Nat
  <2> SUFFICES ASSUME NEW b \in Logs(K), NEW k \in 1 .. Len(b)
               PROVE  b[k] \in Range(b) /\ b[k].at \in Nat
    OBVIOUS
  <2>1. b \in Seq(Entry(K))
    BY DEF Logs
  <2>2. k \in DOMAIN b /\ b[k] \in Entry(K)
    BY <2>1
  <2> QED
    BY <2>2 DEF Range, Entry
<1> HIDE DEF len
<1>6. ASSUME NEW m \in 1 .. clock[a]
      PROVE  \E s \in {buffer[a], flushing[a]} \cup archived[a] \cup failed[a] :
               \E e \in Range(s) : e.at = m
  <2>1. CASE m <= clock[a] - len
    <3>1. PICK b \in Kept(a) : \E k \in 1 .. Len(b) : b[k].at = m
      BY <1>1, <1>2, <1>3, <2>1 DEF Ordered, len
    <3> QED
      BY <1>1, <1>5, <3>1 DEF Kept
  <2>2. CASE m > clock[a] - len
    <3>1. m - (clock[a] - len) \in 1 .. len
          /\ buffer[a][m - (clock[a] - len)].at = m
      BY <1>1, <1>3, <2>2
    <3> QED
      BY <1>1, <1>5, <3>1 DEF len
  <2> QED
    BY <1>1, <1>3, <2>1, <2>2
<1>7. All \subseteq Taken(a) \cup {buffer[a]}
  BY DEF Taken, Kept
<1>8. ASSUME NEW b \in All, NEW k \in 1 .. Len(b) - 1
      PROVE  b[k + 1].at = b[k].at + 1
  <2>1. CASE b \in Taken(a)
    BY <1>2, <2>1 DEF Ordered, IsRun
  <2>2. CASE b = buffer[a]
    <3>1. k \in 1 .. len /\ k + 1 \in 1 .. len
      BY <1>3, <2>2 DEF len
    <3>2. b[k].at = clock[a] - len + k /\ b[k + 1].at = clock[a] - len + (k + 1)
      BY <1>3, <2>2, <3>1
    <3>3. clock[a] - len \in Int /\ k \in Int
      BY <1>1, <1>3, <3>1
    <3> HIDE DEF len
    <3> QED
      BY <3>2, <3>3
  <2> QED
    BY <1>7, <2>1, <2>2
<1>9. ASSUME NEW b \in All, NEW c \in All, b # c
      PROVE  Range(b) \cap Range(c) = {}
  <2>1. SUFFICES ASSUME NEW e, e \in Range(b), e \in Range(c) PROVE FALSE
    OBVIOUS
  <2>2. b \in Logs(K) /\ c \in Logs(K)
    BY <1>1, <1>7
  <2>3. PICK i \in 1 .. Len(b) : e = b[i]
    BY <1>4, <2>1, <2>2
  <2>4. PICK j \in 1 .. Len(c) : e = c[j]
    BY <1>4, <2>1, <2>2
  <2>5. CASE b \in Taken(a) /\ c \in Taken(a)
    <3>1. Apart(b, c)
      BY <1>2, <1>9, <2>5 DEF Ordered
    <3>2. b[i].at # c[j].at
      BY <3>1 DEF Apart
    <3> QED
      BY <2>3, <2>4, <3>2
  <2>6. ASSUME NEW d \in Taken(a), NEW x \in 1 .. Len(d), NEW y \in 1 .. len
        PROVE  d[x].at # buffer[a][y].at
    <3>1. d[x].at \in Nat /\ d[x].at <= clock[a] - len
      BY <1>1, <1>2, <1>5 DEF Ordered, len
    <3> QED
      BY <1>1, <1>3, <3>1
  <2>7. CASE b = buffer[a] /\ c \in Taken(a)
    BY <2>3, <2>4, <2>6, <2>7 DEF len
  <2>8. CASE c = buffer[a] /\ b \in Taken(a)
    BY <2>3, <2>4, <2>6, <2>8 DEF len
  <2> QED
    BY <1>7, <1>9, <2>5, <2>7, <2>8
<1> QED
  BY <1>2, <1>6, <1>8, <1>9
===============================================================================
