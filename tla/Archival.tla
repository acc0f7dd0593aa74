------------------------------- MODULE Archival --------------------------------
(***************************************************************************)
(* The LogArchiver of agent/src/archival.rs and the HTTP sidecar that      *)
(* stores its logs on Filecoin.  A flush takes the whole buffer before it  *)
(* posts it.  The sidecar may be down or refuse, its upload may fail, and  *)
(* the agent may give up waiting (after 180 seconds) for an upload that is *)
(* still under way.  A piece is named by its content.                      *)
(***************************************************************************)
EXTENDS Integers, Sequences

LOCAL INSTANCE Functions

CONSTANT
  Archivers  \* the agents whose archive is looked at

VARIABLES
  buffer,    \* buffer[a]: entries logged and not yet flushed
  clock,     \* clock[a]: entries ever logged; an entry's timestamp
  flushing,  \* flushing[a]: what a posted and awaits an answer for
  uploads,   \* <<a, batch>>: uploads under way in the sidecars
  store,     \* <<a, batch>>: pieces stored
  archived,  \* archived[a]: batches whose piece id a's operator was told
  failed     \* failed[a]: batches whose flush was reported failed

archiveVars == <<buffer, clock, flushing, uploads, store, archived, failed>>

InitArchive ==
  /\ buffer   = [a \in Archivers |-> <<>>]
  /\ clock    = [a \in Archivers |-> 0]
  /\ flushing = [a \in Archivers |-> <<>>]
  /\ uploads  = {}
  /\ store    = {}
  /\ archived = [a \in Archivers |-> {}]
  /\ failed   = [a \in Archivers |-> {}]

(* log: the timestamp makes every entry of an agent different.             *)
Log(a, what) ==
  IF a \in Archivers
  THEN /\ clock' = [clock EXCEPT ![a] = @ + 1]
       /\ buffer' = [buffer EXCEPT
            ![a] = Append(@, [what |-> what, at |-> clock[a] + 1])]
       /\ UNCHANGED <<flushing, uploads, store, archived, failed>>
  ELSE UNCHANGED archiveVars

Flushing(a) == a \in Archivers /\ flushing[a] # <<>>

FlushCapped(a, reached) ==
  /\ buffer[a] # <<>>
  /\ flushing' = [flushing EXCEPT ![a] = <<Head(buffer[a])>>]
  /\ buffer' = [buffer EXCEPT ![a] = <<>>]
  /\ uploads' = uploads \cup
       (IF reached THEN {<<a, <<Head(buffer[a])>> >>} ELSE {})
  /\ UNCHANGED <<clock, store, archived, failed>>

(* flush: drain and post.  The post reaches a sidecar that begins to       *)
(* upload, or it does not.                                                 *)
Flush(a, reached) ==
  /\ buffer[a] # <<>>
  /\ flushing' = [flushing EXCEPT ![a] = buffer[a]]
  /\ buffer' = [buffer EXCEPT ![a] = <<>>]
  /\ uploads' = uploads \cup (IF reached THEN {<<a, buffer[a]>>} ELSE {})
  /\ UNCHANGED <<clock, store, archived, failed>>

UploadEnds ==
  \E u \in uploads :
    /\ uploads' = uploads \ {u}
    /\ store' \in {store, store \cup {u}}
    /\ UNCHANGED <<buffer, clock, flushing, archived, failed>>

(* The answer with the piece id arrives.                                   *)
FlushSucceeds(a) ==
  /\ flushing[a] # <<>>
  /\ <<a, flushing[a]>> \in store
  /\ archived' = [archived EXCEPT ![a] = @ \cup {flushing[a]}]
  /\ flushing' = [flushing EXCEPT ![a] = <<>>]
  /\ UNCHANGED <<buffer, clock, uploads, store, failed>>

FlushFailsKeeping(a) ==
  /\ flushing[a] # <<>>
  /\ buffer' = [buffer EXCEPT ![a] = flushing[a] \o @]
  /\ flushing' = [flushing EXCEPT ![a] = <<>>]
  /\ UNCHANGED <<clock, uploads, store, archived, failed>>

(* An error, or no answer in time.  The entries are not put back.          *)
FlushFails(a) ==
  /\ flushing[a] # <<>>
  /\ failed' = [failed EXCEPT ![a] = @ \cup {flushing[a]}]
  /\ flushing' = [flushing EXCEPT ![a] = <<>>]
  /\ UNCHANGED <<buffer, clock, uploads, store, archived>>

-----------------------------------------------------------------------------
(* Properties of the archive.                                              *)

Batches(a) == {u[2] : u \in {v \in uploads \cup store : v[1] = a}}

(* All that a logged, wherever it is now.                                  *)
Entries(a) ==
  UNION {Range(b) :
           b \in Batches(a) \cup {buffer[a], flushing[a]} \cup archived[a] \cup failed[a]}

(* Every entry ever logged is still in the buffer, in the flush under way, *)
(* in a stored piece whose id the operator was told, or in a batch whose   *)
(* flush was reported failed: nothing is lost without an error, though     *)
(* flush drains the buffer before it posts.                                *)
NothingLostSilently ==
  \A a \in Archivers :
    /\ \A b \in archived[a] : <<a, b>> \in store
    /\ \A k \in 1 .. clock[a] :
         \E s \in {buffer[a], flushing[a]} \cup archived[a] \cup failed[a] :
           \E e \in Range(s) : e.at = k

(* No entry reaches the archive twice, whatever is retried after an upload *)
(* that was given up and succeeded: batches do not overlap with each other *)
(* or with the buffer, and each keeps a run of entries in their order.     *)
ArchivedOnce ==
  \A a \in Archivers :
    LET All == Batches(a) \cup {buffer[a], flushing[a]}
    IN  /\ \A b \in All : \A k \in 1 .. Len(b) - 1 : b[k + 1].at = b[k].at + 1
        /\ \A b, c \in All :
             b # c => Range(b) \cap Range(c) = {}
===============================================================================
