---------------------------- MODULE QuotesProofs ----------------------------
(***************************************************************************)
(* Invariants of Quotes for any agents, amounts, clocks, bounds and        *)
(* network.                                                                *)
(***************************************************************************)
EXTENDS Quotes, FiniteSetTheorems, TLAPS

-----------------------------------------------------------------------------
(* Types.                                                                  *)

(* Each record_ update of the store yields a record again, and only the    *)
(* one for an expiry changes the count of expiries.                        *)
LEMMA RecordUpdates ==
  ASSUME NEW r \in PeerReputation
  PROVE  /\ RecordSwap(r, Recent) \in PeerReputation
         /\ RecordSwap(r, Recent).expired = r.expired
         /\ RecordIntent(r, Recent) \in PeerReputation
         /\ RecordIntent(r, Recent).expired = r.expired
         /\ SetVerified(r, Recent) \in PeerReputation
         /\ SetVerified(r, Recent).expired = r.expired
         /\ \A n \in Nat : /\ RecordExpired(r, n) \in PeerReputation
                            /\ RecordExpired(r, n).expired = r.expired + n
<1> DEFINE more == r.swaps + 1
           most == r.intents + 1
<1>0. Recent \in Nat /\ more \in Nat /\ most \in Nat
  BY DEF PeerReputation, Recent
<1> HIDE DEF more, most
<1>1. RecordSwap(r, Recent) = [r EXCEPT !.swaps = more, !.lastActive = Recent]
  BY DEF RecordSwap, PeerReputation, more
<1>2. RecordIntent(r, Recent) = [r EXCEPT !.intents = most, !.lastActive = Recent]
  BY DEF RecordIntent, PeerReputation, most
<1>3. /\ RecordSwap(r, Recent) \in PeerReputation
      /\ RecordSwap(r, Recent).expired = r.expired
  BY <1>0, <1>1 DEF PeerReputation
<1>4. /\ RecordIntent(r, Recent) \in PeerReputation
      /\ RecordIntent(r, Recent).expired = r.expired
  BY <1>0, <1>2 DEF PeerReputation
<1>5. /\ SetVerified(r, Recent) \in PeerReputation
      /\ SetVerified(r, Recent).expired = r.expired
  BY <1>0 DEF PeerReputation, SetVerified
<1>6. ASSUME NEW n \in Nat
      PROVE  /\ RecordExpired(r, n) \in PeerReputation
             /\ RecordExpired(r, n).expired = r.expired + n
  BY DEF PeerReputation, RecordExpired
<1> QED
  BY <1>3, <1>4, <1>5, <1>6

(* The ids in reach of the horizon are finitely many.                      *)
LEMMA IdsFinite == IsFiniteSet(Ids)
<1>1. IsFiniteSet(0 .. MaxTime + MaxSkew)
  BY FS_Interval, QuotesAssumption
<1> QED
  BY <1>1, FS_Product, QuotesAssumption DEF Ids

(* Every clock reads a second within the horizon.                          *)
LEMMA NowInRange ==
  ASSUME TypeOK, NEW a \in Agents
  PROVE  Now(a) \in 0 .. MaxTime + MaxSkew /\ <<a, Now(a)>> \in Ids
<1>1. Skew[a] \in 0 .. MaxSkew
  BY QuotesAssumption
<1>2. Now(a) \in 0 .. MaxTime + MaxSkew
  BY <1>1, QuotesAssumption DEF TypeOK, Now
<1> QED
  BY <1>2 DEF Ids

LEMMA StatusTypes ==
  /\ Open \in QuoteStatus /\ Responded \in QuoteStatus /\ Expired \in QuoteStatus
  /\ \A i \in Ids, p \in Agents : Accepted(i, p) \in QuoteStatus
  BY DEF QuoteStatus, Open, Responded, Expired, Accepted

(* The two ways an entry changes: its status alone, or by one response.    *)
LEMMA EntryUpdates ==
  ASSUME NEW e \in QuoteEntry
  PROVE  /\ \A s \in QuoteStatus :
              /\ [e EXCEPT !.status = s] \in QuoteEntry
              /\ [e EXCEPT !.status = s].status = s
              /\ [e EXCEPT !.status = s].responses = e.responses
         /\ \A x \in QuoteResponse :
              /\ WithResponse(e, x) \in QuoteEntry
              /\ WithResponse(e, x).responses = e.responses \cup {x}
              /\ WithResponse(e, x).status = IF e.status = Open THEN Responded ELSE e.status
<1>1. ASSUME NEW s \in QuoteStatus
      PROVE  /\ [e EXCEPT !.status = s] \in QuoteEntry
             /\ [e EXCEPT !.status = s].status = s
             /\ [e EXCEPT !.status = s].responses = e.responses
  BY DEF QuoteEntry
<1>2. ASSUME NEW x \in QuoteResponse
      PROVE  /\ WithResponse(e, x) \in QuoteEntry
             /\ WithResponse(e, x).responses = e.responses \cup {x}
             /\ WithResponse(e, x).status = IF e.status = Open THEN Responded ELSE e.status
  <2> DEFINE R == e.responses \cup {x}
             S == IF e.status = Open THEN Responded ELSE e.status
  <2>1. R \in SUBSET QuoteResponse /\ S \in QuoteStatus
    BY StatusTypes DEF QuoteEntry
  <2>2. WithResponse(e, x) = [e EXCEPT !.responses = R, !.status = S]
    BY DEF WithResponse, QuoteEntry
  <2> HIDE DEF R, S
  <2>3. /\ WithResponse(e, x) \in QuoteEntry /\ WithResponse(e, x).responses = R
        /\ WithResponse(e, x).status = S
    BY <2>1, <2>2 DEF QuoteEntry
  <2> QED
    BY <2>3 DEF R, S
<1> QED
  BY <1>1, <1>2

(* A request makes a fresh entry.                                          *)
Fresh(r) == [minRep |-> r, status |-> Open, responses |-> {}]

LEMMA FreshEntry ==
  ASSUME NEW r \in MinReps
  PROVE  /\ Fresh(r) \in QuoteEntry /\ Fresh(r) # NoEntry
         /\ Fresh(r).status = Open /\ Fresh(r).responses = {}
  BY StatusTypes, QuotesAssumption DEF QuoteEntry, Fresh

(* What gossip delivers is a message of the kind the handler expects.      *)
LEMMA MessageKinds ==
  ASSUME NEW m \in AgentMessage
  PROVE  /\ m.from \in Agents
         /\ m.kind = "QuoteRequest" => m \in RequestMsg
         /\ m.kind = "QuoteResponse" => m \in ResponseMsg
         /\ m.kind = "QuoteAccept" => m \in AcceptMsg
  BY DEF AgentMessage, RequestMsg, ResponseMsg, AcceptMsg

LEMMA DeliveredType ==
  ASSUME TypeOK, NEW a \in Agents, NEW k, NEW m \in Deliverable(a, k)
  PROVE  /\ m \in msgs \ rcvd[a] /\ m \in AgentMessage
         /\ m.kind = k /\ m.from \in Agents \ {a}
  BY MessageKinds DEF Deliverable, TypeOK

-----------------------------------------------------------------------------
(* What a step may do to one entry of one book.                            *)

Kept(b, q) == Knows(b, q) /\ Knows(b, q)'
Takes(b, m) == m \in Deliverable(b, m.kind) /\ rcvd'[b] = rcvd[b] \cup {m}

SameResponses(b, q) == book'[b][q].responses = book[b][q].responses

Marked(b, q) == /\ Kept(b, q) /\ SameResponses(b, q)
                /\ IsExpired(b, q) /\ Status(b, q)' = Expired

(* The agent accepts a response, or learns that a peer did.                *)
Chosen(b, q) == /\ Kept(b, q) /\ SameResponses(b, q)
                /\ \E x \in book[b][q].responses :
                     /\ AcceptResponse(b, q, x)
                     /\ Status(b, q)' = Accepted(x.id, Author(x.id))
Told(b, q)   == /\ Kept(b, q) /\ SameResponses(b, q)
                /\ \E m \in AcceptMsg :
                     /\ m.id = q /\ Takes(b, m)
                     /\ Status(b, q)' = Accepted(m.response, m.from)

(* One response is added, the agent's own or a peer's.                     *)
Answered(b, q) ==
  /\ Kept(b, q)
  /\ \E x \in QuoteResponse :
       /\ x.quote = q /\ book'[b][q] = WithResponse(book[b][q], x)
       /\ Author(x.id) = b \/ \E m \in ResponseMsg : m.response = x /\ Takes(b, m)

(* The entry is made, by the agent's request or a peer's.                  *)
Asked(b, q) ==
  /\ \E r \in MinReps : book'[b][q] = Fresh(r)
  /\ \/ (SameSecond \/ ~Knows(b, q)) /\ Author(q) = b
     \/ \E m \in RequestMsg : m.id = q /\ Takes(b, m)

EntryStep(b, q) ==
  \/ book'[b][q] = book[b][q]
  \/ Marked(b, q) \/ Chosen(b, q) \/ Told(b, q) \/ Answered(b, q) \/ Asked(b, q)

(* Only the entry that a request, response or status is about changes.     *)
LEMMA UpdateStatusEffect ==
  ASSUME TypeOK, NEW a \in Agents, NEW q \in Ids, NEW s \in QuoteStatus,
         book' = UpdateStatus(a, q, s)
  PROVE  /\ book' \in [Agents -> [Ids -> QuoteEntry \cup {NoEntry}]]
         /\ \A b \in Agents, k \in Ids : b # a \/ k # q => book'[b][k] = book[b][k]
         /\ ~Knows(a, q) => book'[a][q] = book[a][q]
         /\ Knows(a, q) => Kept(a, q) /\ SameResponses(a, q) /\ Status(a, q)' = s
<1> DEFINE e == IF book[a][q] = NoEntry THEN NoEntry
                ELSE [book[a][q] EXCEPT !.status = s]
<1>1. book' = [book EXCEPT ![a][q] = e]
  BY DEF UpdateStatus
<1>2. Knows(a, q) => /\ e \in QuoteEntry /\ e.status = s
                     /\ e.responses = book[a][q].responses
  BY EntryUpdates DEF Knows, TypeOK
<1>3. e \in QuoteEntry \cup {NoEntry}
  BY <1>2 DEF Knows
<1>6. ~Knows(a, q) => e = book[a][q]
  BY DEF Knows
<1> HIDE DEF e
<1>4. /\ book' \in [Agents -> [Ids -> QuoteEntry \cup {NoEntry}]]
      /\ \A b \in Agents, k \in Ids : b # a \/ k # q => book'[b][k] = book[b][k]
  BY <1>1, <1>3 DEF TypeOK
<1>5. book'[a][q] = e
  BY <1>1 DEF TypeOK
<1> QED
  BY <1>2, <1>4, <1>5, <1>6, QuotesAssumption DEF Kept, SameResponses, Knows, Status

LEMMA AddResponseEffect ==
  ASSUME TypeOK, NEW a \in Agents, NEW x \in QuoteResponse, AddResponse(a, x)
  PROVE  /\ book' \in [Agents -> [Ids -> QuoteEntry \cup {NoEntry}]]
         /\ \A b \in Agents, k \in Ids :
              b # a \/ k # x.quote => book'[b][k] = book[b][k]
         /\ ~Knows(a, x.quote) => book'[a][x.quote] = book[a][x.quote]
         /\ Knows(a, x.quote) => /\ Kept(a, x.quote)
                                 /\ book'[a][x.quote] = WithResponse(book[a][x.quote], x)
<1> DEFINE q == x.quote
           e == IF book[a][q] = NoEntry THEN NoEntry ELSE WithResponse(book[a][q], x)
<1>0. q \in Ids
  BY DEF QuoteResponse
<1>1. book' = [book EXCEPT ![a][q] = e]
  BY DEF AddResponse
<1>2. Knows(a, q) => e \in QuoteEntry /\ e = WithResponse(book[a][q], x)
  BY <1>0, EntryUpdates DEF Knows, TypeOK
<1>3. e \in QuoteEntry \cup {NoEntry}
  BY <1>2 DEF Knows
<1>6. ~Knows(a, q) => e = book[a][q]
  BY DEF Knows
<1> HIDE DEF e, q
<1>4. /\ book' \in [Agents -> [Ids -> QuoteEntry \cup {NoEntry}]]
      /\ \A b \in Agents, k \in Ids : b # a \/ k # q => book'[b][k] = book[b][k]
  BY <1>0, <1>1, <1>3 DEF TypeOK
<1>5. book'[a][q] = e
  BY <1>0, <1>1 DEF TypeOK
<1>7. /\ ~Knows(a, q) => book'[a][q] = book[a][q]
      /\ Knows(a, q) => Kept(a, q) /\ book'[a][q] = WithResponse(book[a][q], x)
  BY <1>2, <1>5, <1>6, QuotesAssumption DEF Kept, Knows
<1> QED
  BY <1>4, <1>7 DEF q

LEMMA AddRequestEffect ==
  ASSUME TypeOK, NEW a \in Agents, NEW q \in Ids, NEW r \in MinReps, AddRequest(a, q, r)
  PROVE  /\ book' \in [Agents -> [Ids -> QuoteEntry \cup {NoEntry}]]
         /\ \A b \in Agents, k \in Ids : b # a \/ k # q => book'[b][k] = book[b][k]
         /\ book'[a][q] = Fresh(r)
<1>1. book' = [book EXCEPT ![a][q] = Fresh(r)]
  BY DEF AddRequest, Fresh
<1> QED
  BY <1>1, FreshEntry DEF TypeOK

LEMMA MarkEffect ==
  ASSUME TypeOK, NEW a \in Agents,
         NEW N, \A q \in N : Knows(a, q) /\ IsExpired(a, q),
         book' = [book EXCEPT ![a] = [q \in Ids |->
           IF q \in N THEN [book[a][q] EXCEPT !.status = Expired] ELSE book[a][q]]]
  PROVE  /\ book' \in [Agents -> [Ids -> QuoteEntry \cup {NoEntry}]]
         /\ \A b \in Agents, k \in Ids : b # a \/ k \notin N => book'[b][k] = book[b][k]
         /\ \A k \in Ids : k \in N => Marked(a, k)
<1>1. ASSUME NEW q \in Ids, q \in N
      PROVE  LET e == [book[a][q] EXCEPT !.status = Expired]
             IN  /\ e \in QuoteEntry /\ e.status = Expired
                 /\ e.responses = book[a][q].responses
  BY <1>1, EntryUpdates, StatusTypes DEF Knows, TypeOK
<1>2. /\ book' \in [Agents -> [Ids -> QuoteEntry \cup {NoEntry}]]
      /\ \A b \in Agents, k \in Ids : b # a \/ k \notin N => book'[b][k] = book[b][k]
  BY <1>1 DEF TypeOK
<1>3. ASSUME NEW k \in Ids, k \in N
      PROVE  Marked(a, k)
  <2>1. book'[a][k] = [book[a][k] EXCEPT !.status = Expired]
    BY <1>3 DEF TypeOK
  <2> QED
    BY <1>1, <1>3, <2>1, QuotesAssumption DEF Marked, Kept, SameResponses, Knows, Status
<1> QED
  BY <1>2, <1>3

(* Every step treats the books in these ways.                              *)
BookStep == /\ book' \in [Agents -> [Ids -> QuoteEntry \cup {NoEntry}]]
            /\ \A b \in Agents, q \in Ids : EntryStep(b, q)

LEMMA BookChange ==
  ASSUME TypeOK, [Next]_vars
  PROVE  BookStep
<1>1. ASSUME book' = book
      PROVE  BookStep
  BY <1>1 DEF BookStep, EntryStep, TypeOK
<1>2. ASSUME NEW a \in Agents, NEW r \in MinReps, Quote(a, r)
      PROVE  BookStep
  <2>1. PICK i \in Ids : i = <<a, Now(a)>>
    BY NowInRange
  <2>2. AddRequest(a, i, r) /\ (SameSecond \/ ~Knows(a, i)) /\ Author(i) = a
    BY <1>2, <2>1 DEF Quote, Author
  <2>3. Asked(a, i)
    BY <2>2, AddRequestEffect DEF Asked
  <2> QED
    BY <2>2, <2>3, AddRequestEffect DEF BookStep, EntryStep
<1>3. ASSUME NEW a \in Agents, NEW q \in Ids, NEW n \in Amounts, Respond(a, q, n)
      PROVE  BookStep
  <2>1. PICK i \in Ids : i = <<a, Now(a)>>
    BY NowInRange
  <2>2. PICK x : x = [id |-> i, quote |-> q, amount |-> n]
    OBVIOUS
  <2>3. x \in QuoteResponse /\ x.quote = q /\ Author(x.id) = a
    BY <2>1, <2>2 DEF QuoteResponse, Author
  <2>4. AddResponse(a, x) /\ Knows(a, q)
    BY <1>3, <2>1, <2>2 DEF Respond
  <2>5. Answered(a, q)
    BY <2>3, <2>4, AddResponseEffect DEF Answered
  <2> QED
    BY <2>3, <2>4, <2>5, AddResponseEffect DEF BookStep, EntryStep
<1>4. ASSUME NEW a \in Agents, NEW q \in Ids, NEW x, AcceptResponse(a, q, x)
      PROVE  BookStep
  <2>1. Knows(a, q) /\ x \in book[a][q].responses
    BY <1>4 DEF AcceptResponse
  <2>2. x \in QuoteResponse
    BY <2>1 DEF Knows, TypeOK, QuoteEntry
  <2>3. x.id \in Ids /\ Author(x.id) \in Agents
    BY <2>2 DEF QuoteResponse, Ids, Author
  <2>4. Accepted(x.id, Author(x.id)) \in QuoteStatus
    BY <2>3, StatusTypes
  <2>5. book' = UpdateStatus(a, q, Accepted(x.id, Author(x.id)))
    BY <1>4 DEF AcceptResponse
  <2>6. Chosen(a, q)
    BY <1>4, <2>1, <2>4, <2>5, UpdateStatusEffect DEF Chosen
  <2> QED
    BY <2>4, <2>5, <2>6, UpdateStatusEffect DEF BookStep, EntryStep
<1>5. ASSUME NEW a \in Agents, ListQuotes(a)
      PROVE  BookStep
  <2>1. PICK N : N = {q \in Ids : Knows(a, q) /\ IsExpired(a, q)}
    OBVIOUS
  <2>2. book' = [book EXCEPT ![a] = [q \in Ids |->
          IF q \in N THEN [book[a][q] EXCEPT !.status = Expired] ELSE book[a][q]]]
    BY <1>5, <2>1 DEF ListQuotes, MarkExpired
  <2>3. \A q \in N : Knows(a, q) /\ IsExpired(a, q)
    BY <2>1
  <2>4. /\ book' \in [Agents -> [Ids -> QuoteEntry \cup {NoEntry}]]
        /\ \A b \in Agents, k \in Ids : b # a \/ k \notin N => book'[b][k] = book[b][k]
        /\ \A k \in Ids : k \in N => Marked(a, k)
    BY <2>2, <2>3, MarkEffect
  <2> QED
    BY <2>4 DEF BookStep, EntryStep
<1>6. ASSUME NEW a \in Agents, Refresh(a)
      PROVE  BookStep
  <2>1. \A q \in NewlyExpired(a) : Knows(a, q) /\ IsExpired(a, q)
    BY DEF NewlyExpired
  <2>2. book' = [book EXCEPT ![a] = [q \in Ids |->
          IF q \in NewlyExpired(a)
          THEN [book[a][q] EXCEPT !.status = Expired] ELSE book[a][q]]]
    BY <1>6 DEF Refresh
  <2> DEFINE N == NewlyExpired(a)
  <2> HIDE DEF N
  <2>3. /\ book' \in [Agents -> [Ids -> QuoteEntry \cup {NoEntry}]]
        /\ \A b \in Agents, k \in Ids : b # a \/ k \notin N => book'[b][k] = book[b][k]
        /\ \A k \in Ids : k \in N => Marked(a, k)
    BY <2>1, <2>2, MarkEffect DEF N
  <2> QED
    BY <2>3 DEF BookStep, EntryStep
<1>7. ASSUME NEW a \in Agents, RecvQuoteRequest(a)
      PROVE  BookStep
  <2>1. PICK m \in Deliverable(a, "QuoteRequest") : RecvQuoteRequest(a)!(m)
    BY <1>7 DEF RecvQuoteRequest
  <2>2. m \in RequestMsg /\ m.kind = "QuoteRequest"
    BY DeliveredType, MessageKinds
  <2>3. m.id \in Ids /\ m.minRep \in MinReps
    BY <2>2 DEF RequestMsg
  <2>4. Takes(a, m)
    BY <2>1, <2>2 DEF Takes, Handled, TypeOK
  <2>5. CASE Trusts(a, m.from)
    <3>1. AddRequest(a, m.id, m.minRep)
      BY <2>1, <2>5
    <3>2. Asked(a, m.id)
      BY <2>2, <2>3, <2>4, <3>1, AddRequestEffect DEF Asked
    <3> QED
      BY <2>3, <3>1, <3>2, AddRequestEffect DEF BookStep, EntryStep
  <2>6. CASE ~Trusts(a, m.from)
    BY <1>1, <2>1, <2>6
  <2> QED
    BY <2>5, <2>6
<1>8. ASSUME NEW a \in Agents, RecvQuoteResponse(a)
      PROVE  BookStep
  <2>1. PICK m \in Deliverable(a, "QuoteResponse") : RecvQuoteResponse(a)!(m)
    BY <1>8 DEF RecvQuoteResponse
  <2>2. m \in ResponseMsg /\ m.kind = "QuoteResponse"
    BY DeliveredType, MessageKinds
  <2>3. m.response \in QuoteResponse /\ m.response.quote \in Ids
    BY <2>2 DEF ResponseMsg, QuoteResponse
  <2>4. Takes(a, m)
    BY <2>1, <2>2 DEF Takes, Handled, TypeOK
  <2>5. CASE Trusts(a, m.from)
    <3>1. AddResponse(a, m.response)
      BY <2>1, <2>5
    <3>2. Knows(a, m.response.quote) => Answered(a, m.response.quote)
      BY <2>2, <2>3, <2>4, <3>1, AddResponseEffect DEF Answered
    <3> QED
      BY <2>3, <3>1, <3>2, AddResponseEffect DEF BookStep, EntryStep
  <2>6. CASE ~Trusts(a, m.from)
    BY <1>1, <2>1, <2>6
  <2> QED
    BY <2>5, <2>6
<1>9. ASSUME NEW a \in Agents, RecvQuoteAccept(a)
      PROVE  BookStep
  <2>1. PICK m \in Deliverable(a, "QuoteAccept") : RecvQuoteAccept(a)!(m)
    BY <1>9 DEF RecvQuoteAccept
  <2>2. m \in AcceptMsg /\ m.kind = "QuoteAccept"
    BY DeliveredType, MessageKinds
  <2>3. m.id \in Ids /\ Accepted(m.response, m.from) \in QuoteStatus
    BY <2>2, StatusTypes DEF AcceptMsg
  <2>4. Takes(a, m)
    BY <2>1, <2>2 DEF Takes, Handled, TypeOK
  <2>5. book' = UpdateStatus(a, m.id, Accepted(m.response, m.from))
    BY <2>1
  <2>6. Knows(a, m.id) => Told(a, m.id)
    BY <2>2, <2>3, <2>4, <2>5, UpdateStatusEffect DEF Told
  <2> QED
    BY <2>3, <2>5, <2>6, UpdateStatusEffect DEF BookStep, EntryStep
<1> QED
  BY <1>1, <1>2, <1>3, <1>4, <1>5, <1>6, <1>7, <1>8, <1>9
     DEF Next, vars, Tick, AcceptBest, AcceptSpecific, SwapDone, SwapFailed

(* Messages are only ever added, and each by its sender.                   *)
MessageStep ==
  /\ msgs \subseteq msgs' /\ msgs' \subseteq AgentMessage
  /\ \A a \in Agents : rcvd[a] \subseteq rcvd'[a]
  /\ rcvd' \in [Agents -> SUBSET msgs']
  /\ \A m, n \in msgs' \ msgs : m = n
  /\ \A m \in msgs' \ msgs :
       \/ /\ m \in RequestMsg
          /\ Author(m.id) = m.from /\ Knows(m.from, m.id)'
          /\ SameSecond \/ ~Knows(m.from, m.id)
       \/ /\ m \in ResponseMsg /\ Author(m.response.id) = m.from
          /\ Kept(m.from, m.response.quote)
          /\ m.response \in book'[m.from][m.response.quote].responses
       \/ /\ m \in AcceptMsg
          /\ \E x \in QuoteResponse : AcceptResponse(m.from, m.id, x) /\ m.response = x.id

LEMMA MessageChange ==
  ASSUME TypeOK, [Next]_vars
  PROVE  MessageStep
<1>1. ASSUME UNCHANGED <<msgs, rcvd>>
      PROVE  MessageStep
  BY <1>1 DEF MessageStep, TypeOK
<1>2. ASSUME NEW a \in Agents, NEW r \in MinReps, Quote(a, r)
      PROVE  MessageStep
  <2>1. PICK i \in Ids : i = <<a, Now(a)>>
    BY NowInRange
  <2>2. PICK m : m = [kind |-> "QuoteRequest", from |-> a, id |-> i, minRep |-> r]
    OBVIOUS
  <2>3. m \in RequestMsg /\ m.from = a /\ m.id = i
    BY <2>2 DEF RequestMsg
  <2>4. msgs \subseteq msgs' /\ msgs' \subseteq msgs \cup {m} /\ rcvd' = rcvd
    BY <1>2, <2>1, <2>2 DEF Quote, Publish
  <2>5. AddRequest(a, i, r) /\ (SameSecond \/ ~Knows(a, i)) /\ Author(i) = a
    BY <1>2, <2>1 DEF Quote, Author
  <2>6. Knows(a, i)'
    BY <2>5, AddRequestEffect, FreshEntry DEF Knows
  <2>7. /\ Author(m.id) = m.from /\ Knows(m.from, m.id)'
        /\ SameSecond \/ ~Knows(m.from, m.id)
    BY <2>3, <2>5, <2>6 DEF Knows
  <2> QED
    BY <2>3, <2>4, <2>7 DEF MessageStep, TypeOK, AgentMessage
<1>3. ASSUME NEW a \in Agents, NEW q \in Ids, NEW n \in Amounts, Respond(a, q, n)
      PROVE  MessageStep
  <2>1. PICK i \in Ids : i = <<a, Now(a)>>
    BY NowInRange
  <2>2. PICK x : x = [id |-> i, quote |-> q, amount |-> n]
    OBVIOUS
  <2>3. x \in QuoteResponse /\ x.quote = q /\ Author(x.id) = a
    BY <2>1, <2>2 DEF QuoteResponse, Author
  <2>4. PICK m : m = [kind |-> "QuoteResponse", from |-> a, response |-> x]
    OBVIOUS
  <2>5. m \in ResponseMsg /\ m.from = a /\ m.response = x
    BY <2>3, <2>4 DEF ResponseMsg
  <2>6. msgs \subseteq msgs' /\ msgs' \subseteq msgs \cup {m} /\ rcvd' = rcvd
    BY <1>3, <2>1, <2>2, <2>4 DEF Respond, Publish
  <2>7. AddResponse(a, x) /\ Knows(a, q)
    BY <1>3, <2>1, <2>2 DEF Respond
  <2>8. book[a][q] \in QuoteEntry
    BY <2>7 DEF Knows, TypeOK
  <2>9. Kept(a, q) /\ x \in book'[a][q].responses
    BY <2>3, <2>7, <2>8, AddResponseEffect, EntryUpdates
  <2>10. /\ Author(m.response.id) = m.from /\ Kept(m.from, m.response.quote)
         /\ m.response \in book'[m.from][m.response.quote].responses
    BY <2>3, <2>5, <2>9 DEF Kept, Knows
  <2> QED
    BY <2>5, <2>6, <2>10 DEF MessageStep, TypeOK, AgentMessage
<1>4. ASSUME NEW a \in Agents, NEW q \in Ids, NEW x, AcceptResponse(a, q, x)
      PROVE  MessageStep
  <2>1. PICK m : m = [kind |-> "QuoteAccept", from |-> a, id |-> q, response |-> x.id]
    OBVIOUS
  <2>2. x \in QuoteResponse
    BY <1>4 DEF AcceptResponse, Knows, TypeOK, QuoteEntry
  <2>3. m \in AcceptMsg /\ m.from = a /\ m.id = q /\ m.response = x.id
    BY <2>1, <2>2 DEF AcceptMsg, QuoteResponse
  <2>4. msgs \subseteq msgs' /\ msgs' \subseteq msgs \cup {m} /\ rcvd' = rcvd
    BY <1>4, <2>1 DEF AcceptResponse, Publish
  <2>5. \E y \in QuoteResponse : AcceptResponse(m.from, m.id, y) /\ m.response = y.id
    BY <1>4, <2>2, <2>3
  <2> QED
    BY <2>3, <2>4, <2>5 DEF MessageStep, TypeOK, AgentMessage
<1>5. ASSUME NEW a \in Agents,
             RecvQuoteRequest(a) \/ RecvQuoteResponse(a) \/ RecvQuoteAccept(a)
      PROVE  MessageStep
  <2>1. PICK m \in msgs : msgs' = msgs /\ Handled(a, m)
    BY <1>5, DeliveredType DEF RecvQuoteRequest, RecvQuoteResponse, RecvQuoteAccept
  <2> QED
    BY <2>1 DEF MessageStep, Handled, TypeOK
<1> QED
  BY <1>1, <1>2, <1>3, <1>4, <1>5
     DEF Next, vars, Tick, AcceptBest, AcceptSpecific, ListQuotes, SwapDone, SwapFailed,
         Refresh

(* Every variable stays in its type.                                       *)
THEOREM TypeCorrect == Spec => []TypeOK
<1>1. Init => TypeOK
  <2> SUFFICES ASSUME Init PROVE TypeOK
    OBVIOUS
  <2>1. time \in 0 .. MaxTime
    BY QuotesAssumption DEF Init
  <2>2. NewReputation \in PeerReputation
    BY DEF NewReputation, PeerReputation
  <2>3. rep \in [Agents -> [Agents -> PeerReputation]]
    BY <2>2, RecordUpdates, QuotesAssumption DEF Init
  <2> QED
    BY <2>1, <2>3 DEF Init, TypeOK
<1>2. TypeOK /\ [Next]_vars => TypeOK'
  <2> SUFFICES ASSUME TypeOK, [Next]_vars PROVE TypeOK'
    OBVIOUS
  <2>3. CASE Tick
    BY <2>3, QuotesAssumption DEF Tick, TypeOK
  <2>1. time' = time \/ Tick
    <3>1. ASSUME NEW a \in Agents,
                 \/ \E q \in Ids, n \in Amounts : Respond(a, q, n)
                 \/ \E q \in Ids : \E x : AcceptResponse(a, q, x)
          PROVE  time' = time
      BY <3>1 DEF Respond, AcceptResponse
    <3> QED
      BY <3>1
         DEF Next, vars, Quote, AcceptBest, AcceptSpecific, ListQuotes, SwapDone, SwapFailed,
             RecvQuoteRequest, RecvQuoteResponse, RecvQuoteAccept, Refresh
  <2>2. rep' \in [Agents -> [Agents -> PeerReputation]] /\ pending' \subseteq Agents
    <3>1. ASSUME NEW a \in Agents, NEW q, NEW x, AcceptResponse(a, q, x)
          PROVE  rep' \in [Agents -> [Agents -> PeerReputation]] /\ pending' \subseteq Agents
      BY <3>1, RecordUpdates DEF AcceptResponse, TypeOK
    <3>2. ASSUME NEW a \in Agents, SwapDone(a)
          PROVE  rep' \in [Agents -> [Agents -> PeerReputation]] /\ pending' \subseteq Agents
      BY <3>2, RecordUpdates DEF SwapDone, TypeOK
    <3>3. ASSUME NEW a \in Agents, Refresh(a)
          PROVE  rep' \in [Agents -> [Agents -> PeerReputation]] /\ pending' \subseteq Agents
      <4>1. \A p \in Agents : Cardinality({q \in NewlyExpired(a) : Author(q) = p}) \in Nat
        BY IdsFinite, FS_Subset, FS_CardinalityType DEF NewlyExpired
      <4> QED
        BY <3>3, <4>1, RecordUpdates DEF Refresh, TypeOK
    <3> QED
      BY <3>1, <3>2, <3>3
         DEF TypeOK, Next, vars, Tick, Quote, Respond, AcceptBest, AcceptSpecific,
             ListQuotes, SwapFailed, RecvQuoteRequest, RecvQuoteResponse, RecvQuoteAccept
  <2> QED
    BY <2>1, <2>2, <2>3, BookChange, MessageChange DEF BookStep, MessageStep, TypeOK
<1> QED
  BY <1>1, <1>2, PTL DEF Spec

-----------------------------------------------------------------------------
(* Statuses and responses.                                                 *)

LEMMA StatusesDiffer ==
  /\ Open # Responded /\ Open # Expired /\ Responded # Expired
  /\ \A i, p : Accepted(i, p).is = "Accepted"
  /\ Open.is = "Open" /\ Responded.is = "Responded" /\ Expired.is = "Expired"
  BY DEF Open, Responded, Expired, Accepted

(* What an answer adds to an entry.                                        *)
LEMMA AnswerEffect ==
  ASSUME TypeOK, NEW a \in Agents, NEW q \in Ids, NEW x \in QuoteResponse, Knows(a, q),
         book'[a][q] = WithResponse(book[a][q], x)
  PROVE  /\ book'[a][q].responses = book[a][q].responses \cup {x}
         /\ Status(a, q)' = IF Status(a, q) = Open THEN Responded ELSE Status(a, q)
<1>1. book[a][q] \in QuoteEntry
  BY DEF Knows, TypeOK
<1> QED
  BY <1>1, EntryUpdates DEF Status

(* In whatever order requests, responses, acceptances and expiries reach a *)
(* QuoteBook, the status of an entry says truly whether responses were     *)
(* collected, and they are all for that quote (add_response).              *)
THEOREM StatusKeepsStep == Spec => []StatusMatchesResponses
<1>1. Init => StatusMatchesResponses
  BY DEF Init, StatusMatchesResponses, Knows
<1>2. TypeOK /\ StatusMatchesResponses /\ [Next]_vars => StatusMatchesResponses'
  <2> SUFFICES ASSUME TypeOK, StatusMatchesResponses, [Next]_vars,
                      NEW a \in Agents, NEW q \in Ids, Knows(a, q)'
               PROVE  /\ Status(a, q)' = Open => book'[a][q].responses = {}
                      /\ Status(a, q)' = Responded => book'[a][q].responses # {}
                      /\ \A x \in book'[a][q].responses : x.quote = q
    BY DEF StatusMatchesResponses
  <2>1. CASE book'[a][q] = book[a][q]
    BY <2>1 DEF StatusMatchesResponses, Knows, Status
  <2>2. CASE Marked(a, q) \/ Chosen(a, q) \/ Told(a, q)
    <3>1. Status(a, q)' # Open /\ Status(a, q)' # Responded
      BY <2>2, StatusesDiffer DEF Marked, Chosen, Told
    <3>2. Knows(a, q) /\ book'[a][q].responses = book[a][q].responses
      BY <2>2 DEF Marked, Chosen, Told, Kept, SameResponses
    <3> QED
      BY <3>1, <3>2 DEF StatusMatchesResponses
  <2>3. CASE Answered(a, q)
    <3>1. PICK x \in QuoteResponse :
            x.quote = q /\ book'[a][q] = WithResponse(book[a][q], x)
      BY <2>3 DEF Answered
    <3>2. Knows(a, q)
      BY <2>3 DEF Answered, Kept
    <3> QED
      BY <3>1, <3>2, AnswerEffect, StatusesDiffer DEF StatusMatchesResponses
  <2>4. CASE Asked(a, q)
    <3>1. PICK r \in MinReps : book'[a][q] = Fresh(r)
      BY <2>4 DEF Asked
    <3> QED
      BY <3>1, FreshEntry, StatusesDiffer DEF Status
  <2> QED
    BY <2>1, <2>2, <2>3, <2>4, BookChange DEF BookStep, EntryStep
<1> QED
  BY <1>1, <1>2, TypeCorrect, PTL DEF Spec

-----------------------------------------------------------------------------
(* Entries are made once.                                                  *)

(* Where an entry comes from: its author, or the one message there is with *)
(* its id.                                                                 *)
Origin ==
  /\ \A m \in msgs : m.kind = "QuoteRequest" =>
       m.from = Author(m.id) /\ Knows(m.from, m.id)
  /\ \A m, n \in msgs :
       m.kind = "QuoteRequest" /\ n.kind = "QuoteRequest" /\ m.id = n.id => m = n
  /\ \A a \in Agents, q \in Ids : Knows(a, q) /\ a # Author(q) =>
       \E m \in rcvd[a] : m.kind = "QuoteRequest" /\ m.id = q

LEMMA EntriesStay ==
  ASSUME TypeOK, [Next]_vars, NEW a \in Agents, NEW q \in Ids, Knows(a, q)
  PROVE  Knows(a, q)'
<1>1. CASE book'[a][q] = book[a][q]
  BY <1>1 DEF Knows
<1>2. CASE Asked(a, q)
  BY <1>2, FreshEntry DEF Asked, Knows
<1> QED
  BY <1>1, <1>2, BookChange
     DEF BookStep, EntryStep, Marked, Chosen, Told, Answered, Kept

LEMMA OriginHolds ==
  ASSUME ~SameSecond
  PROVE  Spec => []Origin
<1>1. Init => Origin
  BY DEF Init, Origin, Knows
<1>2. TypeOK /\ Origin /\ [Next]_vars => Origin'
  <2> SUFFICES ASSUME TypeOK, Origin, [Next]_vars PROVE Origin'
    OBVIOUS
  <2>0. \A m \in msgs \cup msgs' : m.kind = "QuoteRequest" =>
          m \in RequestMsg /\ m.from \in Agents /\ m.id \in Ids
    BY MessageChange, MessageKinds DEF MessageStep, RequestMsg
  <2>1. ASSUME NEW m \in msgs', m.kind = "QuoteRequest"
        PROVE  m.from = Author(m.id) /\ Knows(m.from, m.id)'
    <3>1. CASE m \in msgs
      BY <2>0, <2>1, <3>1, EntriesStay DEF Origin
    <3>2. CASE m \notin msgs
      BY <2>1, <3>2, MessageChange DEF MessageStep, ResponseMsg, AcceptMsg
    <3> QED
      BY <3>1, <3>2
  <2>2. ASSUME NEW m \in msgs', NEW n \in msgs',
               m.kind = "QuoteRequest", n.kind = "QuoteRequest", m.id = n.id
        PROVE  m = n
    <3>1. ASSUME NEW k \in msgs' \ msgs, k.kind = "QuoteRequest"
          PROVE  k.from = Author(k.id) /\ ~Knows(k.from, k.id)
      BY <3>1, MessageChange DEF MessageStep, ResponseMsg, AcceptMsg
    <3> QED
      BY <2>2, <3>1, MessageChange DEF MessageStep, Origin
  <2>3. ASSUME NEW a \in Agents, NEW q \in Ids, Knows(a, q)', a # Author(q)
        PROVE  \E m \in rcvd'[a] : m.kind = "QuoteRequest" /\ m.id = q
    <3>1. CASE Knows(a, q)
      BY <2>3, <3>1, MessageChange DEF MessageStep, Origin
    <3>2. CASE ~Knows(a, q)
      <4>1. Asked(a, q)
        BY <2>3, <3>2, BookChange
           DEF BookStep, EntryStep, Knows, Marked, Chosen, Told, Answered, Kept
      <4>2. PICK m \in RequestMsg : m.id = q /\ Takes(a, m)
        BY <2>3, <4>1 DEF Asked
      <4> QED
        BY <4>2 DEF Takes, RequestMsg
    <3> QED
      BY <3>1, <3>2
  <2> QED
    BY <2>1, <2>2, <2>3 DEF Origin
<1> QED
  BY <1>1, <1>2, TypeCorrect, PTL DEF Spec

(* No step makes an entry anew: the one request there is for it was        *)
(* handled when it was made.                                               *)
LEMMA NeverAskedAgain ==
  ASSUME ~SameSecond, TypeOK, Origin, NEW a \in Agents, NEW q \in Ids, Knows(a, q)
  PROVE  ~Asked(a, q)
<1> SUFFICES ASSUME NEW m \in RequestMsg, m.id = q, Takes(a, m)
             PROVE  FALSE
  BY DEF Asked
<1>1. m \in msgs \ rcvd[a] /\ m.kind = "QuoteRequest" /\ m.from # a
  BY DeliveredType DEF Takes, RequestMsg
<1>2. m.from = Author(q)
  BY <1>1 DEF Origin
<1>3. PICK n \in rcvd[a] : n.kind = "QuoteRequest" /\ n.id = q
  BY <1>1, <1>2 DEF Origin
<1>4. n \in msgs
  BY <1>3 DEF TypeOK
<1> QED
  BY <1>1, <1>3, <1>4 DEF Origin

(* Responses are kept.                                                     *)
LEMMA ResponsesStay ==
  ASSUME ~SameSecond, TypeOK, Origin, [Next]_vars,
         NEW a \in Agents, NEW q \in Ids, Knows(a, q)
  PROVE  book[a][q].responses \subseteq book'[a][q].responses
<1>1. CASE book'[a][q] = book[a][q]
  BY <1>1
<1>2. CASE Answered(a, q)
  <2>1. PICK x \in QuoteResponse : book'[a][q] = WithResponse(book[a][q], x)
    BY <1>2 DEF Answered
  <2> QED
    BY <2>1, AnswerEffect
<1> QED
  BY <1>1, <1>2, NeverAskedAgain, BookChange
     DEF BookStep, EntryStep, Marked, Chosen, Told, SameResponses

-----------------------------------------------------------------------------
(* Acceptances.                                                            *)

(* An agent's clock does not run backwards.                                *)
LEMMA ExpiryStands ==
  ASSUME TypeOK, [Next]_vars, NEW a \in Agents, NEW q \in Ids, IsExpired(a, q)
  PROVE  IsExpired(a, q)'
<1>1. time' \in {time, time + 1}
  <2>1. ASSUME NEW b \in Agents,
               \/ \E k \in Ids, n \in Amounts : Respond(b, k, n)
               \/ \E k \in Ids : \E x : AcceptResponse(b, k, x)
        PROVE  time' = time
    BY <2>1 DEF Respond, AcceptResponse
  <2> QED
    BY <2>1
       DEF Next, vars, Tick, Quote, AcceptBest, AcceptSpecific, ListQuotes, SwapDone,
           SwapFailed, RecvQuoteRequest, RecvQuoteResponse, RecvQuoteAccept, Refresh
<1>2. ExpiresAt(q) \in Int /\ time \in Int /\ Skew[a] \in Int
  BY QuotesAssumption DEF ExpiresAt, Ids, TypeOK
<1> QED
  BY <1>1, <1>2 DEF IsExpired, Now, ExpiresAt

(* Only what is past its time is marked expired.                           *)
ExpiredInTime ==
  \A a \in Agents, q \in Ids : Knows(a, q) /\ Status(a, q) = Expired => IsExpired(a, q)

LEMMA ExpiredInTimeHolds == Spec => []ExpiredInTime
<1>1. Init => ExpiredInTime
  BY DEF Init, ExpiredInTime, Knows
<1>2. TypeOK /\ ExpiredInTime /\ [Next]_vars => ExpiredInTime'
  <2> SUFFICES ASSUME TypeOK, ExpiredInTime, [Next]_vars,
                      NEW a \in Agents, NEW q \in Ids, Knows(a, q)', Status(a, q)' = Expired
               PROVE  IsExpired(a, q)'
    BY DEF ExpiredInTime
  <2>1. CASE book'[a][q] = book[a][q]
    BY <2>1, ExpiryStands DEF ExpiredInTime, Knows, Status
  <2>2. CASE Marked(a, q)
    BY <2>2, ExpiryStands DEF Marked
  <2>3. ~Chosen(a, q) /\ ~Told(a, q)
    BY StatusesDiffer DEF Chosen, Told
  <2>4. CASE Answered(a, q)
    <3>1. PICK x \in QuoteResponse : book'[a][q] = WithResponse(book[a][q], x)
      BY <2>4 DEF Answered
    <3>2. Knows(a, q)
      BY <2>4 DEF Answered, Kept
    <3>3. Status(a, q) = Expired
      BY <3>1, <3>2, AnswerEffect, StatusesDiffer
    <3> QED
      BY <3>2, <3>3, ExpiryStands DEF ExpiredInTime
  <2>5. ~Asked(a, q)
    BY FreshEntry, StatusesDiffer DEF Asked, Status
  <2> QED
    BY <2>1, <2>2, <2>3, <2>4, <2>5, BookChange DEF BookStep, EntryStep
<1> QED
  BY <1>1, <1>2, TypeCorrect, PTL DEF Spec

(* A response, collected or on its way, is on its responder's own book.    *)
OnOwnBook(x) == /\ Knows(Author(x.id), x.quote)
                /\ x \in book[Author(x.id)][x.quote].responses

ResponsesOwned ==
  /\ \A a \in Agents, q \in Ids : Knows(a, q) =>
       \A x \in book[a][q].responses : OnOwnBook(x)
  /\ \A m \in msgs : m.kind = "QuoteResponse" => OnOwnBook(m.response)

LEMMA OwnedStays ==
  ASSUME ~SameSecond, TypeOK, Origin, [Next]_vars, NEW x \in QuoteResponse, OnOwnBook(x)
  PROVE  OnOwnBook(x)'
<1>1. Author(x.id) \in Agents /\ x.quote \in Ids
  BY DEF QuoteResponse, Ids, Author
<1>2. PICK b \in Agents, q \in Ids : b = Author(x.id) /\ q = x.quote
  BY <1>1
<1>3. Knows(b, q)' /\ x \in book'[b][q].responses
  BY <1>2, EntriesStay, ResponsesStay DEF OnOwnBook
<1> QED
  BY <1>2, <1>3 DEF OnOwnBook, Knows

LEMMA ResponsesOwnedHolds ==
  ASSUME ~SameSecond
  PROVE  Spec => []ResponsesOwned
<1>1. Init => ResponsesOwned
  BY DEF Init, ResponsesOwned, Knows
<1>2. /\ TypeOK /\ Origin /\ StatusMatchesResponses /\ ResponsesOwned /\ [Next]_vars
      => ResponsesOwned'
  <2> SUFFICES ASSUME TypeOK, Origin, StatusMatchesResponses, ResponsesOwned, [Next]_vars
               PROVE  ResponsesOwned'
    OBVIOUS
  <2>1. ASSUME NEW m \in msgs', m.kind = "QuoteResponse"
        PROVE  OnOwnBook(m.response)'
    <3>1. m \in ResponseMsg
      BY <2>1, MessageChange, MessageKinds DEF MessageStep
    <3>2. PICK x \in QuoteResponse : x = m.response
      BY <3>1 DEF ResponseMsg
    <3>3. CASE m \in msgs
      BY <2>1, <3>2, <3>3, OwnedStays DEF ResponsesOwned, OnOwnBook, Knows
    <3>4. CASE m \notin msgs
      BY <2>1, <3>4, MessageChange
         DEF MessageStep, RequestMsg, AcceptMsg, OnOwnBook, Kept, Knows
    <3> QED
      BY <3>3, <3>4
  <2>2. ASSUME NEW a \in Agents, NEW q \in Ids, Knows(a, q)',
               NEW x \in book'[a][q].responses
        PROVE  OnOwnBook(x)'
    <3>1. CASE Knows(a, q) /\ x \in book[a][q].responses
      <4>1. x \in QuoteResponse
        BY <3>1 DEF Knows, TypeOK, QuoteEntry
      <4> QED
        BY <3>1, <4>1, OwnedStays DEF ResponsesOwned
    <3>2. CASE Answered(a, q)
      <4>1. PICK y \in QuoteResponse :
              /\ y.quote = q /\ book'[a][q] = WithResponse(book[a][q], y)
              /\ \/ Author(y.id) = a
                 \/ \E m \in ResponseMsg : m.response = y /\ Takes(a, m)
        BY <3>2 DEF Answered
      <4>2. /\ Knows(a, q) /\ book[a][q] \in QuoteEntry
            /\ book'[a][q].responses = book[a][q].responses \cup {y}
        BY <3>2, <4>1, AnswerEffect DEF Answered, Kept, Knows, TypeOK
      <4>3. CASE Author(y.id) = a
        <5>1. OnOwnBook(y)'
          BY <2>2, <4>1, <4>2, <4>3 DEF OnOwnBook, Knows
        <5> QED
          BY <2>2, <3>1, <4>2, <5>1
      <4>4. ASSUME NEW m \in ResponseMsg, m.response = y, Takes(a, m)
            PROVE  OnOwnBook(x)'
        <5>1. m \in msgs /\ m.kind = "QuoteResponse"
          BY <4>4, DeliveredType DEF Takes, ResponseMsg
        <5>2. OnOwnBook(y)'
          BY <4>4, <5>1, OwnedStays DEF ResponsesOwned
        <5> QED
          BY <2>2, <3>1, <4>2, <5>2
      <4> QED
        BY <4>1, <4>3, <4>4
    <3>3. CASE Marked(a, q) \/ Chosen(a, q) \/ Told(a, q)
      BY <2>2, <3>1, <3>3 DEF Marked, Chosen, Told, Kept, SameResponses
    <3>4. ~Asked(a, q)
      BY <2>2, FreshEntry DEF Asked
    <3>5. CASE book'[a][q] = book[a][q]
      BY <2>2, <3>1, <3>5 DEF Knows
    <3> QED
      BY <3>2, <3>3, <3>4, <3>5, BookChange DEF BookStep, EntryStep
  <2> QED
    BY <2>1, <2>2 DEF ResponsesOwned
<1> QED
  BY <1>1, <1>2, TypeCorrect, OriginHolds, StatusKeepsStep, PTL DEF Spec

(* An entry that is accepted or expired stays one or the other.            *)
Taken(a, q) == Knows(a, q) /\ Status(a, q).is \in {"Accepted", "Expired"}

LEMMA TakenStays ==
  ASSUME ~SameSecond, TypeOK, Origin, [Next]_vars, NEW a \in Agents, NEW q \in Ids, Taken(a, q)
  PROVE  Taken(a, q)'
<1>1. Knows(a, q) /\ Knows(a, q)'
  BY EntriesStay DEF Taken
<1>2. CASE book'[a][q] = book[a][q]
  BY <1>1, <1>2 DEF Taken, Status
<1>3. CASE Marked(a, q) \/ Chosen(a, q) \/ Told(a, q)
  <2>1. Status(a, q)'.is \in {"Accepted", "Expired"}
    BY <1>3, StatusesDiffer DEF Marked, Chosen, Told
  <2> QED
    BY <1>1, <2>1 DEF Taken
<1>4. CASE Answered(a, q)
  <2>1. PICK x \in QuoteResponse : book'[a][q] = WithResponse(book[a][q], x)
    BY <1>4 DEF Answered
  <2>2. Status(a, q)' = Status(a, q)
    BY <1>1, <2>1, AnswerEffect, StatusesDiffer DEF Taken
  <2> QED
    BY <1>1, <2>2 DEF Taken
<1> QED
  BY <1>1, <1>2, <1>3, <1>4, NeverAskedAgain, BookChange DEF BookStep, EntryStep

(* What an acceptance command leaves behind.                               *)
LEMMA AcceptEffect ==
  ASSUME TypeOK, [Next]_vars, NEW a \in Agents, NEW q \in Ids, NEW x \in QuoteResponse,
         AcceptResponse(a, q, x)
  PROVE  Taken(a, q)'
<1>1. Knows(a, q) /\ book' = UpdateStatus(a, q, Accepted(x.id, Author(x.id)))
  BY DEF AcceptResponse
<1>2. Accepted(x.id, Author(x.id)) \in QuoteStatus
  BY StatusTypes DEF QuoteResponse, Ids, Author
<1>3. Knows(a, q)' /\ Status(a, q)' = Accepted(x.id, Author(x.id))
  BY <1>1, <1>2, UpdateStatusEffect, EntriesStay
<1> QED
  BY <1>3, StatusesDiffer DEF Taken

(* An acceptance is of a quote its sender has accepted or expired, and of  *)
(* a response that is on its responder's book.                             *)
AcceptancesOwned ==
  \A m \in msgs : m.kind = "QuoteAccept" =>
    /\ Taken(m.from, m.id)
    /\ \E x \in QuoteResponse : OnOwnBook(x) /\ x.id = m.response /\ x.quote = m.id

LEMMA AcceptancesOwnedHolds ==
  ASSUME ~SameSecond
  PROVE  Spec => []AcceptancesOwned
<1>1. Init => AcceptancesOwned
  BY DEF Init, AcceptancesOwned
<1>2. /\ TypeOK /\ Origin /\ StatusMatchesResponses /\ ResponsesOwned
      /\ AcceptancesOwned /\ [Next]_vars
      => AcceptancesOwned'
  <2> SUFFICES ASSUME TypeOK, Origin, StatusMatchesResponses, ResponsesOwned,
                      AcceptancesOwned, [Next]_vars,
                      NEW m \in msgs', m.kind = "QuoteAccept"
               PROVE  /\ Taken(m.from, m.id)'
                      /\ \E x \in QuoteResponse :
                           OnOwnBook(x)' /\ x.id = m.response /\ x.quote = m.id
    BY DEF AcceptancesOwned, Taken, Knows, Status
  <2>1. m \in AcceptMsg
    BY MessageChange, MessageKinds DEF MessageStep
  <2>2. m.from \in Agents /\ m.id \in Ids
    BY <2>1 DEF AcceptMsg
  <2>3. CASE m \in msgs
    <3>1. Taken(m.from, m.id)'
      BY <2>2, <2>3, TakenStays DEF AcceptancesOwned
    <3>2. PICK x \in QuoteResponse :
            OnOwnBook(x) /\ x.id = m.response /\ x.quote = m.id
      BY <2>3 DEF AcceptancesOwned
    <3> QED
      BY <3>1, <3>2, OwnedStays
  <2>4. CASE m \notin msgs
    <3>1. PICK x \in QuoteResponse : AcceptResponse(m.from, m.id, x) /\ m.response = x.id
      BY <2>4, MessageChange DEF MessageStep, RequestMsg, ResponseMsg
    <3>2. Taken(m.from, m.id)'
      BY <2>2, <3>1, AcceptEffect
    <3>3. Knows(m.from, m.id) /\ x \in book[m.from][m.id].responses
      BY <3>1 DEF AcceptResponse
    <3>4. OnOwnBook(x) /\ x.quote = m.id
      BY <2>2, <3>3 DEF ResponsesOwned, StatusMatchesResponses
    <3> QED
      BY <3>1, <3>2, <3>4, OwnedStays
  <2> QED
    BY <2>3, <2>4
<1> QED
  BY <1>1, <1>2, TypeCorrect, OriginHolds, StatusKeepsStep, ResponsesOwnedHolds,
     PTL DEF Spec

(* Whatever arrives late or out of order, an acceptance names a response   *)
(* that is on its responder's own book for that quote, and the agent that  *)
(* accepted has the quote accepted or expired (accept-quote).              *)
THEOREM AcceptancesAreBacked ==
  ASSUME ~SameSecond
  PROVE  Spec => []AcceptanceNamesResponse
<1>1. AcceptancesOwned => AcceptanceNamesResponse
  <2> SUFFICES ASSUME AcceptancesOwned, NEW m \in msgs, m.kind = "QuoteAccept"
               PROVE  /\ Taken(m.from, m.id)
                      /\ \E x \in book[Author(m.response)][m.id].responses :
                           x.id = m.response
    BY DEF AcceptanceNamesResponse, Taken
  <2> QED
    BY DEF AcceptancesOwned, OnOwnBook
<1> QED
  BY <1>1, AcceptancesOwnedHolds, PTL

(* An agent that accepts a quote publishes one acceptance of it, ever: an  *)
(* expiry in between does not let it accept again, and a late acceptance   *)
(* of another agent does not either (accept-quote).                        *)
THEOREM AcceptsOnce ==
  ASSUME ~SameSecond
  PROVE  Spec => []AcceptedOncePerAgent
<1>1. Init => AcceptedOncePerAgent
  BY DEF Init, AcceptedOncePerAgent
<1>2. /\ TypeOK /\ AcceptanceNamesResponse /\ ExpiredInTime /\ AcceptedOncePerAgent
      /\ [Next]_vars
      => AcceptedOncePerAgent'
  <2> SUFFICES ASSUME TypeOK, AcceptanceNamesResponse, ExpiredInTime, AcceptedOncePerAgent,
                      [Next]_vars, NEW m \in msgs', NEW n \in msgs',
                      m.kind = "QuoteAccept", n.kind = "QuoteAccept",
                      m.from = n.from, m.id = n.id
               PROVE  m = n
    BY DEF AcceptedOncePerAgent
  <2>1. ASSUME NEW k \in msgs' \ msgs, k.kind = "QuoteAccept",
               NEW o \in msgs, o.kind = "QuoteAccept", k.from = o.from, k.id = o.id
        PROVE  FALSE
    <3>1. PICK x \in QuoteResponse : AcceptResponse(k.from, k.id, x)
      BY <2>1, MessageChange DEF MessageStep, RequestMsg, ResponseMsg
    <3>2. Status(k.from, k.id).is # "Accepted" /\ ~IsExpired(k.from, k.id)
      BY <3>1 DEF AcceptResponse
    <3>3. Taken(k.from, k.id)
      BY <2>1 DEF AcceptanceNamesResponse, Taken
    <3>4. k.from \in Agents /\ k.id \in Ids
      BY <2>1, MessageChange, MessageKinds DEF MessageStep, AcceptMsg
    <3>5. Status(k.from, k.id) \in QuoteStatus /\ Status(k.from, k.id).is = "Expired"
      BY <3>2, <3>3, <3>4 DEF Taken, Knows, Status, TypeOK, QuoteEntry
    <3>6. Status(k.from, k.id) = Expired
      BY <3>5 DEF QuoteStatus, Expired
    <3> QED
      BY <3>2, <3>3, <3>4, <3>6 DEF ExpiredInTime, Taken
  <2>2. CASE m \in msgs /\ n \in msgs
    BY <2>2 DEF AcceptedOncePerAgent
  <2>3. CASE m \notin msgs /\ n \notin msgs
    BY <2>3, MessageChange DEF MessageStep
  <2> QED
    BY <2>1, <2>2, <2>3
<1> QED
  BY <1>1, <1>2, TypeCorrect, AcceptancesAreBacked, ExpiredInTimeHolds, PTL DEF Spec

-----------------------------------------------------------------------------
(* Revivals and penalties.                                                 *)

(* A step that revives an expired entry is the arrival of an acceptance.   *)
LEMMA RevivedByAcceptance ==
  ASSUME ~SameSecond, TypeOK, Origin, ExpiredInTime, [Next]_vars,
         NEW a \in Agents, NEW q \in Ids, Knows(a, q), Status(a, q) = Expired
  PROVE  \/ Status(a, q)' = Expired
         \/ \E m \in AcceptMsg : m.id = q /\ Takes(a, m)
<1>1. CASE book'[a][q] = book[a][q]
  BY <1>1 DEF Status
<1>2. CASE Marked(a, q) \/ Told(a, q)
  BY <1>2 DEF Marked, Told
<1>3. ~Chosen(a, q)
  BY DEF Chosen, AcceptResponse, ExpiredInTime
<1>4. CASE Answered(a, q)
  BY <1>4, AnswerEffect, StatusesDiffer DEF Answered
<1> QED
  BY <1>1, <1>2, <1>3, <1>4, NeverAskedAgain, BookChange DEF BookStep, EntryStep

(* No command, response or refresh brings an expired quote back.           *)
THEOREM RevivalsAreAcceptances ==
  ASSUME ~SameSecond
  PROVE  Spec => RevivedOnlyByAcceptance
<1>1. TypeOK /\ Origin /\ ExpiredInTime /\ [Next]_vars =>
        [\A a \in Agents, q \in Ids :
           Knows(a, q) /\ Status(a, q) = Expired /\ Status(a, q)' # Expired =>
             \E m \in rcvd'[a] \ rcvd[a] : m.kind = "QuoteAccept" /\ m.id = q]_vars
  <2> SUFFICES ASSUME TypeOK, Origin, ExpiredInTime, [Next]_vars,
                      NEW a \in Agents, NEW q \in Ids,
                      Knows(a, q), Status(a, q) = Expired, Status(a, q)' # Expired
               PROVE  \E m \in rcvd'[a] \ rcvd[a] : m.kind = "QuoteAccept" /\ m.id = q
    OBVIOUS
  <2>1. PICK m \in AcceptMsg : m.id = q /\ Takes(a, m)
    BY RevivedByAcceptance
  <2>2. m \notin rcvd[a] /\ m \in rcvd'[a] /\ m.kind = "QuoteAccept"
    BY <2>1, DeliveredType DEF Takes, AcceptMsg
  <2> QED
    BY <2>1, <2>2
<1> QED
  BY <1>1, TypeCorrect, OriginHolds, ExpiredInTimeHolds, PTL DEF Spec, RevivedOnlyByAcceptance

(* The quotes of p that a has marked expired, and the acceptances that may *)
(* have revived one.                                                       *)
Settled(a, p)  == {q \in PastExpiry(a, p) : Status(a, q) = Expired}
Revivals(a, p) == {m \in rcvd[a] :
                     m.kind = "QuoteAccept" /\ m.id \in PastExpiry(a, p)}

LEMMA AcceptancesFinite == IsFiniteSet(AcceptMsg)
<1>1. IsFiniteSet(Agents \X (Ids \X Ids))
  BY QuotesAssumption, IdsFinite, FS_Product
<1>2. PICK g : g = [m \in AcceptMsg |-> <<m.from, <<m.id, m.response>>>>]
  OBVIOUS
<1>3. g \in Injection(AcceptMsg, Agents \X (Ids \X Ids))
  BY <1>2 DEF AcceptMsg, Injection, IsInjective
<1> QED
  BY <1>1, <1>3, FS_Injection

(* Both are finite, before a step and after it.                            *)
LEMMA PenaltySetsFinite ==
  ASSUME NEW a \in Agents, NEW p \in Agents
  PROVE  /\ IsFiniteSet(PastExpiry(a, p)) /\ Cardinality(PastExpiry(a, p)) \in Nat
         /\ IsFiniteSet(Settled(a, p)) /\ Cardinality(Settled(a, p)) \in Nat
         /\ IsFiniteSet(Settled(a, p)') /\ Cardinality(Settled(a, p)') \in Nat
         /\ TypeOK => IsFiniteSet(Revivals(a, p)) /\ Cardinality(Revivals(a, p)) \in Nat
         /\ TypeOK' => IsFiniteSet(Revivals(a, p)') /\ Cardinality(Revivals(a, p)') \in Nat
<1>1. PastExpiry(a, p) \subseteq Ids
      /\ Settled(a, p) \subseteq Ids /\ Settled(a, p)' \subseteq Ids
  BY DEF PastExpiry, Settled
<1>2. \A m \in AgentMessage : m.kind = "QuoteAccept" => m \in AcceptMsg
  BY MessageKinds
<1>3. /\ TypeOK => Revivals(a, p) \subseteq AcceptMsg
      /\ TypeOK' => Revivals(a, p)' \subseteq AcceptMsg
  BY <1>2 DEF Revivals, TypeOK
<1> QED
  BY <1>1, <1>3, IdsFinite, AcceptancesFinite, FS_Subset, FS_CardinalityType

(* Nothing but its refresh makes an agent penalise anybody.                *)
LEMMA PenaltyChange ==
  ASSUME TypeOK, [Next]_vars, NEW a \in Agents, NEW p \in Agents, ~Refresh(a)
  PROVE  rep'[a][p].expired = rep[a][p].expired
<1>1. CASE UNCHANGED rep
  BY <1>1
<1>2. ASSUME NEW b \in Agents, NEW r,
             rep' = [rep EXCEPT ![b][b] = r], r.expired = rep[b][b].expired
      PROVE  rep'[a][p].expired = rep[a][p].expired
  BY <1>2 DEF TypeOK
<1>3. ASSUME NEW b \in Agents, NEW q, NEW x, AcceptResponse(b, q, x)
      PROVE  rep'[a][p].expired = rep[a][p].expired
  <2>1. rep' = [rep EXCEPT ![b][b] = RecordIntent(rep[b][b], Recent)]
    BY <1>3 DEF AcceptResponse
  <2> QED
    BY <1>2, <2>1, RecordUpdates DEF TypeOK
<1>4. ASSUME NEW b \in Agents, SwapDone(b)
      PROVE  rep'[a][p].expired = rep[a][p].expired
  <2>1. rep' = [rep EXCEPT ![b][b] = RecordSwap(rep[b][b], Recent)]
    BY <1>4 DEF SwapDone
  <2> QED
    BY <1>2, <2>1, RecordUpdates DEF TypeOK
<1>5. ASSUME NEW b \in Agents, Refresh(b)
      PROVE  rep'[a][p].expired = rep[a][p].expired
  BY <1>5 DEF Refresh, TypeOK
<1> QED
  BY <1>1, <1>3, <1>4, <1>5
     DEF Next, vars, Tick, Quote, Respond, AcceptBest, AcceptSpecific, ListQuotes,
         SwapFailed, RecvQuoteRequest, RecvQuoteResponse, RecvQuoteAccept

LEMMA PastExpiryGrows ==
  ASSUME TypeOK, [Next]_vars, NEW a \in Agents, NEW p \in Agents
  PROVE  PastExpiry(a, p) \subseteq PastExpiry(a, p)'
  BY ExpiryStands, EntriesStay DEF PastExpiry, Author

(* An entry that is no longer settled is one for which an acceptance came. *)
LEMMA CoverStands ==
  ASSUME ~SameSecond, TypeOK, TypeOK', Origin, ExpiredInTime, [Next]_vars,
         NEW a \in Agents, NEW p \in Agents
  PROVE  Cardinality(Settled(a, p)) + Cardinality(Revivals(a, p))
           <= Cardinality(Settled(a, p)') + Cardinality(Revivals(a, p)')
<1>1. /\ IsFiniteSet(Settled(a, p)) /\ Cardinality(Settled(a, p)) \in Nat
      /\ IsFiniteSet(Revivals(a, p)) /\ Cardinality(Revivals(a, p)) \in Nat
  BY PenaltySetsFinite
<1>2. /\ IsFiniteSet(Settled(a, p)') /\ Cardinality(Settled(a, p)') \in Nat
      /\ IsFiniteSet(Revivals(a, p)') /\ Cardinality(Revivals(a, p)') \in Nat
  BY PenaltySetsFinite
<1>3. Revivals(a, p) \subseteq Revivals(a, p)'
  BY MessageChange, PastExpiryGrows DEF MessageStep, Revivals
<1>4. \A q \in Settled(a, p) : q \in Ids /\ Knows(a, q) /\ Status(a, q) = Expired
  BY DEF Settled, PastExpiry
<1>5. \A q \in Settled(a, p) :
        q \in Settled(a, p)' \/ \E m \in AcceptMsg : m.id = q /\ Takes(a, m)
  BY <1>4, RevivedByAcceptance, PastExpiryGrows DEF Settled
<1>6. CASE Settled(a, p) \subseteq Settled(a, p)'
  <2>1. /\ Cardinality(Settled(a, p)) <= Cardinality(Settled(a, p)')
        /\ Cardinality(Revivals(a, p)) <= Cardinality(Revivals(a, p)')
    BY <1>2, <1>3, <1>6, FS_Subset
  <2> QED
    BY <1>1, <1>2, <2>1
<1>7. CASE ~(Settled(a, p) \subseteq Settled(a, p)')
  <2>1. PICK m \in AcceptMsg : m.id \in Settled(a, p) /\ Takes(a, m)
    BY <1>5, <1>7
  <2>2. m \notin rcvd[a] /\ m.kind = "QuoteAccept"
    BY <2>1, DeliveredType DEF Takes, AcceptMsg
  <2>3. Settled(a, p) \ {m.id} \subseteq Settled(a, p)'
    BY <1>5, <2>1, <2>2 DEF Takes, Deliverable
  <2>4. Revivals(a, p) \cup {m} \subseteq Revivals(a, p)'
    BY <1>3, <2>1, <2>2, PastExpiryGrows DEF Revivals, Takes, Settled
  <2>5. Cardinality(Settled(a, p) \ {m.id}) = Cardinality(Settled(a, p)) - 1
    BY <1>1, <2>1, FS_RemoveElement
  <2>6. m \notin Revivals(a, p)
    BY <2>2 DEF Revivals
  <2>7. Cardinality(Revivals(a, p) \cup {m}) = Cardinality(Revivals(a, p)) + 1
    BY <1>1, <2>6, FS_AddElement
  <2>8. Cardinality(Settled(a, p) \ {m.id}) <= Cardinality(Settled(a, p)')
    BY <1>2, <2>3, FS_Subset
  <2>9. Cardinality(Revivals(a, p) \cup {m}) <= Cardinality(Revivals(a, p)')
    BY <1>2, <2>4, FS_Subset
  <2> QED
    BY <1>1, <1>2, <2>5, <2>7, <2>8, <2>9
<1> QED
  BY <1>6, <1>7

(* The refresh settles what it penalises.                                  *)
LEMMA RefreshSettles ==
  ASSUME TypeOK, TypeOK', [Next]_vars, NEW a \in Agents, NEW p \in Agents, Refresh(a)
  PROVE  \E n \in Nat :
           /\ rep'[a][p].expired = rep[a][p].expired + n
           /\ Cardinality(Settled(a, p)') >= Cardinality(Settled(a, p)) + n
           /\ Cardinality(Revivals(a, p)') >= Cardinality(Revivals(a, p))
<1> DEFINE N == {q \in NewlyExpired(a) : Author(q) = p}
<1>1. N \subseteq Ids /\ N \subseteq PastExpiry(a, p)
  BY DEF NewlyExpired, PastExpiry
<1>2. IsFiniteSet(N) /\ Cardinality(N) \in Nat
  BY <1>1, IdsFinite, FS_Subset, FS_CardinalityType
<1>3. rep'[a][p].expired = rep[a][p].expired + Cardinality(N)
  <2>1. rep'[a][p] = RecordExpired(rep[a][p], Cardinality(N))
    BY DEF Refresh, TypeOK
  <2>2. rep[a][p] \in PeerReputation
    BY DEF TypeOK
  <2> HIDE DEF N
  <2> QED
    BY <1>2, <2>1, <2>2, RecordUpdates
<1>4. \A q \in N : Status(a, q)' = Expired
  <2> TAKE q \in N
  <2>1. q \in Ids /\ Knows(a, q) /\ q \in NewlyExpired(a)
    BY DEF NewlyExpired
  <2>2. book'[a][q] = [book[a][q] EXCEPT !.status = Expired]
    BY <2>1 DEF Refresh, TypeOK
  <2>3. book[a][q] \in QuoteEntry
    BY <2>1 DEF Knows, TypeOK
  <2> QED
    BY <2>2, <2>3, EntryUpdates, StatusTypes DEF Status
<1>5. \A q \in Settled(a, p) : Status(a, q)' = Expired /\ q \notin N
  <2> TAKE q \in Settled(a, p)
  <2>1. q \in Ids /\ q \notin NewlyExpired(a) /\ Status(a, q) = Expired
    BY DEF Settled, PastExpiry, NewlyExpired
  <2>2. book'[a][q] = book[a][q]
    BY <2>1 DEF Refresh, TypeOK
  <2> QED
    BY <2>1, <2>2 DEF Status
<1>6. Settled(a, p) \cup N \subseteq Settled(a, p)'
  BY <1>1, <1>4, <1>5, PastExpiryGrows DEF Settled
<1>7. Cardinality(Settled(a, p) \cup N) = Cardinality(Settled(a, p)) + Cardinality(N)
  <2>1. Settled(a, p) \cap N = {}
    BY <1>5
  <2> HIDE DEF N
  <2>2. Cardinality(Settled(a, p) \cup N)
          = Cardinality(Settled(a, p)) + Cardinality(N) - Cardinality(Settled(a, p) \cap N)
    BY <1>2, PenaltySetsFinite, FS_Union
  <2>3. Cardinality(Settled(a, p) \cap N) = 0
    BY <2>1, FS_EmptySet
  <2> QED
    BY <1>2, <2>2, <2>3, PenaltySetsFinite
<1>8. Cardinality(Settled(a, p) \cup N) <= Cardinality(Settled(a, p)')
  BY <1>6, PenaltySetsFinite, FS_Subset
<1>9. Revivals(a, p) \subseteq Revivals(a, p)'
  BY MessageChange, PastExpiryGrows DEF MessageStep, Revivals
<1>10. Cardinality(Revivals(a, p)') >= Cardinality(Revivals(a, p))
  BY <1>9, PenaltySetsFinite, FS_Subset
<1> HIDE DEF N
<1> QED
  BY <1>2, <1>3, <1>7, <1>8, <1>10, PenaltySetsFinite

(* One penalty for every settled quote, and one for every revival of one.  *)
Prior(p) == IF p \in Tarnished THEN PriorPenalties ELSE 0

PenaltiesCovered ==
  \A a, p \in Agents :
    rep[a][p].expired
      <= Prior(p) + Cardinality(Settled(a, p)) + Cardinality(Revivals(a, p))

(* No requester is penalised out of nothing: beyond what it started with,  *)
(* at most once for every quote of its that is past its time, and once     *)
(* more for every acceptance of it that arrived                            *)
(* (cleanup_expired_with_requesters).                                      *)
THEOREM PenaltiesAreEarned ==
  ASSUME ~SameSecond
  PROVE  Spec => []PenaltiesEarned
<1>0. \A p : Prior(p) \in Nat
  BY QuotesAssumption DEF Prior
<1>1. Init => PenaltiesCovered
  <2> SUFFICES ASSUME Init, NEW a \in Agents, NEW p \in Agents
               PROVE  rep[a][p].expired
                        <= Prior(p) + Cardinality(Settled(a, p)) + Cardinality(Revivals(a, p))
    BY DEF PenaltiesCovered
  <2>1. NewReputation \in PeerReputation /\ NewReputation.expired = 0
    BY DEF NewReputation, PeerReputation
  <2>2. rep[a][p] = RecordExpired(SetVerified(NewReputation, Recent), Prior(p))
    BY DEF Init, Prior
  <2>3. rep[a][p].expired = Prior(p)
    <3> DEFINE known == SetVerified(NewReputation, Recent)
    <3>1. known \in PeerReputation /\ known.expired = 0
      BY <2>1, RecordUpdates
    <3> HIDE DEF known
    <3>2. RecordExpired(known, Prior(p)).expired = known.expired + Prior(p)
      BY <1>0, <3>1, RecordUpdates
    <3>3. rep[a][p] = RecordExpired(known, Prior(p))
      BY <2>2 DEF known
    <3> QED
      BY <1>0, <3>1, <3>2, <3>3
  <2>4. Revivals(a, p) = {}
    BY DEF Init, Revivals
  <2>5. Cardinality({}) = 0
    BY FS_EmptySet
  <2> QED
    BY <1>0, <2>3, <2>4, <2>5, PenaltySetsFinite
<1>2. /\ TypeOK /\ TypeOK' /\ Origin /\ ExpiredInTime /\ PenaltiesCovered /\ [Next]_vars
      => PenaltiesCovered'
  <2> SUFFICES ASSUME TypeOK, TypeOK', Origin, ExpiredInTime, PenaltiesCovered, [Next]_vars,
                      NEW a \in Agents, NEW p \in Agents
               PROVE  rep'[a][p].expired
                        <= Prior(p) + Cardinality(Settled(a, p)') + Cardinality(Revivals(a, p)')
    BY DEF PenaltiesCovered, Prior
  <2>1. rep[a][p].expired \in Nat
    BY DEF TypeOK, PeerReputation
  <2>2. rep[a][p].expired
          <= Prior(p) + Cardinality(Settled(a, p)) + Cardinality(Revivals(a, p))
    BY DEF PenaltiesCovered
  <2>3. CASE Refresh(a)
    BY <1>0, <2>1, <2>2, <2>3, RefreshSettles, PenaltySetsFinite
  <2>4. CASE ~Refresh(a)
    BY <1>0, <2>1, <2>2, <2>4, CoverStands, PenaltyChange, PenaltySetsFinite
  <2> QED
    BY <2>3, <2>4
<1>3. TypeOK /\ PenaltiesCovered => PenaltiesEarned
  <2> SUFFICES ASSUME TypeOK, PenaltiesCovered, NEW a \in Agents, NEW p \in Agents
               PROVE  rep[a][p].expired - Prior(p)
                        <= Cardinality(PastExpiry(a, p)) + Cardinality(Revivals(a, p))
    BY DEF PenaltiesEarned, Revivals, Prior
  <2>1. Cardinality(Settled(a, p)) <= Cardinality(PastExpiry(a, p))
    BY PenaltySetsFinite, FS_Subset DEF Settled
  <2>2. rep[a][p].expired \in Nat
    BY DEF TypeOK, PeerReputation
  <2>3. rep[a][p].expired
          <= Prior(p) + Cardinality(Settled(a, p)) + Cardinality(Revivals(a, p))
    BY DEF PenaltiesCovered
  <2> QED
    BY <1>0, <2>1, <2>2, <2>3, PenaltySetsFinite
<1> QED
  BY <1>1, <1>2, <1>3, TypeCorrect, OriginHolds, ExpiredInTimeHolds, PTL DEF Spec
=============================================================================
