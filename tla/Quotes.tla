-------------------------------- MODULE Quotes --------------------------------
(***************************************************************************)
(* Requests for quotes: the commands quote, respond, accept-quote and      *)
(* quotes of agent/src/main.rs, their gossip handlers, the QuoteBook of    *)
(* agent/src/quotes.rs, and the part of the 30-second refresh that is      *)
(* about quotes.  A request stands for its direction and amount, which     *)
(* nothing here depends on; it is named by its author and the second.      *)
(***************************************************************************)
EXTENDS Integers, FiniteSets, Gossip, Reputation

CONSTANTS
  Requesters, Responders,  \* agents whose operators issue each command,
  Accepters,               \* and those that accept quotes
  Amounts,                 \* the amounts a response may offer
  MinReps,                 \* values of --min-rep; 0 stands for none
  Tarnished,               \* peers with PriorPenalties in every store
  PriorPenalties,
  SameSecond,              \* may an operator issue two of a kind within one second?
  Skew,                    \* Skew[a]: what a's clock is ahead of real time
  QuoteExpiry,             \* QUOTE_EXPIRY_SECS, in units of time
  MaxTime, MaxSkew,        \* bounds: the horizon, and how far clocks differ
  MaxQuotes, MaxResponses, \* bounds: per agent
  NoEntry

VARIABLES
  time,     \* real time
  book,     \* book[a][q]: a's QuoteBook
  rep,      \* rep[a][p]: a's ReputationStore
  pending   \* agents with a pending swap

vars == <<time, book, rep, pending, msgs, rcvd>>

-----------------------------------------------------------------------------
Ids == Agents \X (0 .. MaxTime + MaxSkew)
Author(i)    == i[1]
ExpiresAt(i) == i[2] + QuoteExpiry

QuoteResponse == [id : Ids, quote : Ids, amount : Amounts]

Open         == [is |-> "Open"]
Responded    == [is |-> "Responded"]
Expired      == [is |-> "Expired"]
Accepted(response, responder) ==
  [is |-> "Accepted", response |-> response, responder |-> responder]

QuoteStatus == [is : {"Open", "Responded", "Expired"}]
                 \cup [is : {"Accepted"}, response : Ids, responder : Agents]

QuoteEntry == [minRep : MinReps, status : QuoteStatus, responses : SUBSET QuoteResponse]

RequestMsg  == [kind : {"QuoteRequest"}, from : Agents, id : Ids, minRep : MinReps]
ResponseMsg == [kind : {"QuoteResponse"}, from : Agents, response : QuoteResponse]
AcceptMsg   == [kind : {"QuoteAccept"}, from : Agents, id : Ids, response : Ids]
AgentMessage == RequestMsg \cup ResponseMsg \cup AcceptMsg

ASSUME QuotesAssumption ==
  /\ IsFiniteSet(Agents)
  /\ Requesters \cup Responders \cup Accepters \cup Tarnished \subseteq Agents
  /\ Amounts \subseteq Nat /\ MinReps \subseteq Nat
  /\ PriorPenalties \in Nat /\ QuoteExpiry \in Nat /\ SameSecond \in BOOLEAN
  /\ MaxTime \in Nat /\ MaxSkew \in Nat
  /\ Skew \in [Agents -> 0 .. MaxSkew]
  /\ NoEntry \notin QuoteEntry

-----------------------------------------------------------------------------
Recent == 1   \* recency does not decay within the horizon

Now(a)         == time + Skew[a]
Score(a, p)    == CompositeScore(rep[a][p], Recent)
Trusts(a, p)   == TrustLevel(Score(a, p)) # "Unknown"
IsExpired(a, i) == Now(a) > ExpiresAt(i)

Idle(a)      == a \notin pending
Knows(a, q)  == book[a][q] # NoEntry
Status(a, q) == book[a][q].status

UpdateStatus(a, q, s) ==
  [book EXCEPT ![a][q] = IF @ = NoEntry THEN NoEntry ELSE [@ EXCEPT !.status = s]]

AddRequest(a, q, r) ==
  book' = [book EXCEPT ![a][q] = [minRep |-> r, status |-> Open, responses |-> {}]]

AddResponseQuietly(a, x) ==
  book' = [book EXCEPT ![a][x.quote] =
    IF @ = NoEntry THEN NoEntry ELSE [@ EXCEPT !.responses = @ \cup {x}]]

AddResponseReviving(a, x) ==
  book' = [book EXCEPT ![a][x.quote] =
    IF @ = NoEntry THEN NoEntry
    ELSE [@ EXCEPT !.responses = @ \cup {x}, !.status = Responded]]

(* add_response: the first one moves an open request on; one to a request  *)
(* that is accepted or expired is kept all the same.                       *)
WithResponse(e, x) ==
  [e EXCEPT !.responses = @ \cup {x}, !.status = IF @ = Open THEN Responded ELSE @]

AddResponse(a, x) ==
  book' = [book EXCEPT ![a][x.quote] =
    IF @ = NoEntry THEN NoEntry ELSE WithResponse(@, x)]

Init ==
  /\ time = 0
  /\ book = [a \in Agents |-> [q \in Ids |-> NoEntry]]
  /\ rep = [a \in Agents |-> [p \in Agents |->
             RecordExpired(SetVerified(NewReputation, Recent),
                           IF p \in Tarnished THEN PriorPenalties ELSE 0)]]
  /\ pending = {}
  /\ msgs = {}
  /\ rcvd = [a \in Agents |-> {}]

-----------------------------------------------------------------------------
(* Commands, refused while a swap is pending.                              *)

Requests(a)  == {q \in Ids : Author(q) = a /\ Knows(a, q)}
Responses(a) == {x \in UNION {book[a][q].responses : q \in {k \in Ids : Knows(a, k)}} :
                   Author(x.id) = a}

(* quote: a second request of the same second replaces the entry of the    *)
(* first, its responses and status included.                               *)
Quote(a, r) ==
  LET q == <<a, Now(a)>>
  IN  /\ Idle(a)
      /\ a \in Requesters
      /\ Cardinality(Requests(a) \ {q}) < MaxQuotes
      /\ SameSecond \/ ~Knows(a, q)
      /\ time + QuoteExpiry + MaxSkew < MaxTime
      /\ AddRequest(a, q, r)
      /\ Publish({[kind |-> "QuoteRequest", from |-> a, id |-> q, minRep |-> r]})
      /\ UNCHANGED <<time, rep, pending, rcvd>>

RespondUnstored(a, q, n) ==
  LET x == [id |-> <<a, Now(a)>>, quote |-> q, amount |-> n]
  IN  /\ Idle(a)
      /\ a \in Responders
      /\ Knows(a, q) /\ ~IsExpired(a, q)
      /\ Score(a, a) >= book[a][q].minRep
      /\ Publish({[kind |-> "QuoteResponse", from |-> a, response |-> x]})
      /\ UNCHANGED <<time, book, rep, pending, rcvd>>

(* respond: gated by the responder's own score.                            *)
Respond(a, q, n) ==
  LET x == [id |-> <<a, Now(a)>>, quote |-> q, amount |-> n]
  IN  /\ Idle(a)
      /\ a \in Responders
      /\ Cardinality(Responses(a)) < MaxResponses
      /\ SameSecond \/ \A y \in Responses(a) : y.id # x.id
      /\ Knows(a, q) /\ ~IsExpired(a, q)
      /\ Status(a, q).is \notin {"Accepted", "Expired"}
      /\ Score(a, a) >= book[a][q].minRep
      /\ AddResponse(a, x)
      /\ Publish({[kind |-> "QuoteResponse", from |-> a, response |-> x]})
      /\ UNCHANGED <<time, rep, pending, rcvd>>

AcceptAny(a, q, x) ==
  /\ Idle(a)
  /\ a \in Accepters
  /\ Knows(a, q) /\ ~IsExpired(a, q)
  /\ x \in book[a][q].responses
  /\ book' = UpdateStatus(a, q, Accepted(x.id, Author(x.id)))
  /\ Publish({[kind |-> "QuoteAccept", from |-> a, id |-> q, response |-> x.id]})
  /\ rep' = [rep EXCEPT ![a][a] = RecordIntent(@, Recent)]
  /\ pending' = pending \cup {a}
  /\ UNCHANGED <<time, rcvd>>

(* accept-quote, once it has selected a response: publish the acceptance,  *)
(* record the intent, and defer the swap.  That the agent is the requester *)
(* is not checked.                                                         *)
AcceptResponse(a, q, x) ==
  /\ Idle(a)
  /\ a \in Accepters
  /\ Knows(a, q) /\ ~IsExpired(a, q)
  /\ Status(a, q).is # "Accepted"
  /\ x \in book[a][q].responses
  /\ ~IsExpired(a, x.id)
  /\ Trusts(a, Author(x.id))
  /\ book' = UpdateStatus(a, q, Accepted(x.id, Author(x.id)))
  /\ Publish({[kind |-> "QuoteAccept", from |-> a, id |-> q, response |-> x.id]})
  /\ rep' = [rep EXCEPT ![a][a] = RecordIntent(@, Recent)]
  /\ pending' = pending \cup {a}
  /\ UNCHANGED <<time, rcvd>>

(* best_response: a largest amount among the live responses; equal amounts *)
(* are settled by the order of arrival.                                    *)
BestResponses(a, q) ==
  LET live == {x \in book[a][q].responses : ~IsExpired(a, x.id)}
  IN  {x \in live : \A y \in live : y.amount <= x.amount}

AcceptBest(a, q) ==
  /\ Knows(a, q)
  /\ \E x \in BestResponses(a, q) : AcceptResponse(a, q, x)

AcceptSpecific(a, q) ==
  /\ Knows(a, q)
  /\ \E x \in book[a][q].responses : AcceptResponse(a, q, x)

MarkExpired(a) ==
  book' = [book EXCEPT ![a] = [q \in Ids |->
    IF Knows(a, q) /\ IsExpired(a, q)
    THEN [book[a][q] EXCEPT !.status = Expired] ELSE book[a][q]]]

(* quotes: the requesters cleanup_expired_with_requesters returns are      *)
(* dropped, so nobody is penalised.                                        *)
ListQuotes(a) ==
  /\ Idle(a)
  /\ MarkExpired(a)
  /\ UNCHANGED <<time, rep, pending, msgs, rcvd>>

(* The pending swap, which does not name the quote, ends.                  *)
SwapDone(a) ==
  /\ ~Idle(a)
  /\ rep' = [rep EXCEPT ![a][a] = RecordSwap(@, Recent)]
  /\ pending' = pending \ {a}
  /\ UNCHANGED <<time, book, msgs, rcvd>>

(* ... or fails, or succeeds without the agent learning of it.             *)
SwapFailed(a) ==
  /\ ~Idle(a)
  /\ pending' = pending \ {a}
  /\ UNCHANGED <<time, book, rep, msgs, rcvd>>

-----------------------------------------------------------------------------
(* Gossip handlers.                                                        *)

RecvQuoteRequest(a) ==
  \E m \in Deliverable(a, "QuoteRequest") :
    /\ Handled(a, m)
    /\ IF Trusts(a, m.from) THEN AddRequest(a, m.id, m.minRep) ELSE UNCHANGED book
    /\ UNCHANGED <<time, rep, pending, msgs>>

RecvQuoteResponse(a) ==
  \E m \in Deliverable(a, "QuoteResponse") :
    /\ Handled(a, m)
    /\ IF Trusts(a, m.from) THEN AddResponse(a, m.response) ELSE UNCHANGED book
    /\ UNCHANGED <<time, rep, pending, msgs>>

(* Nothing gates an acceptance, and the field named responder is given the *)
(* accepting agent.                                                        *)
RecvQuoteAccept(a) ==
  \E m \in Deliverable(a, "QuoteAccept") :
    /\ Handled(a, m)
    /\ book' = UpdateStatus(a, m.id, Accepted(m.response, m.from))
    /\ UNCHANGED <<time, rep, pending, msgs>>

-----------------------------------------------------------------------------
NewlyExpiredOpen(a) ==
  {q \in Ids : Knows(a, q) /\ IsExpired(a, q) /\ Status(a, q) = Open}

NewlyExpired(a) ==
  {q \in Ids : Knows(a, q) /\ IsExpired(a, q) /\ Status(a, q) # Expired}

RefreshUnmarked(a) ==
  /\ Idle(a)
  /\ rep' = [rep EXCEPT ![a] = [p \in Agents |->
       RecordExpired(rep[a][p], Cardinality({q \in NewlyExpired(a) : Author(q) = p}))]]
  /\ UNCHANGED <<time, book, pending, msgs, rcvd>>

(* The refresh penalises the requester of every newly expired quote, an    *)
(* accepted one included.                                                  *)
Refresh(a) ==
  /\ Idle(a)
  /\ book' = [book EXCEPT ![a] = [q \in Ids |->
       IF q \in NewlyExpired(a)
       THEN [book[a][q] EXCEPT !.status = Expired] ELSE book[a][q]]]
  /\ rep' = [rep EXCEPT ![a] = [p \in Agents |->
       RecordExpired(rep[a][p], Cardinality({q \in NewlyExpired(a) : Author(q) = p}))]]
  /\ UNCHANGED <<time, pending, msgs, rcvd>>

Tick ==
  /\ time < MaxTime
  /\ time' = time + 1
  /\ UNCHANGED <<book, rep, pending, msgs, rcvd>>

Next ==
  \/ Tick
  \/ \E a \in Agents :
       \/ \E r \in MinReps : Quote(a, r)
       \/ \E q \in Ids, n \in Amounts : Respond(a, q, n)
       \/ \E q \in Ids : AcceptBest(a, q)
       \/ \E q \in Ids : AcceptSpecific(a, q)
       \/ ListQuotes(a)
       \/ SwapDone(a)
       \/ SwapFailed(a)
       \/ RecvQuoteRequest(a)
       \/ RecvQuoteResponse(a)
       \/ RecvQuoteAccept(a)
       \/ Refresh(a)

Spec == Init /\ [][Next]_vars

(* Time passes, an idle agent's refresh timer fires, and a swap ends.      *)
Fairness ==
  /\ WF_vars(Tick)
  /\ \A a \in Agents : WF_vars(Refresh(a)) /\ WF_vars(SwapDone(a) \/ SwapFailed(a))

FairSpec == Spec /\ Fairness

-----------------------------------------------------------------------------
(* Properties.                                                             *)

(* Every variable stays in its type.                                       *)
TypeOK ==
  /\ time \in 0 .. MaxTime
  /\ book \in [Agents -> [Ids -> QuoteEntry \cup {NoEntry}]]
  /\ rep \in [Agents -> [Agents -> PeerReputation]]
  /\ pending \subseteq Agents
  /\ msgs \subseteq AgentMessage
  /\ rcvd \in [Agents -> SUBSET msgs]

(* The status keeps step with the collected responses, whatever order      *)
(* responses, acceptances and expiries come in: an open request has none,  *)
(* a responded one has some, and those are all for it.                     *)
StatusMatchesResponses ==
  \A a \in Agents, q \in Ids : Knows(a, q) =>
    /\ Status(a, q) = Open => book[a][q].responses = {}
    /\ Status(a, q) = Responded => book[a][q].responses # {}
    /\ \A x \in book[a][q].responses : x.quote = q

(* An agent that accepts a quote does so once, and so swaps once for it,   *)
(* though others may accept the same quote and it may expire meanwhile.    *)
AcceptedOncePerAgent ==
  \A m, n \in msgs :
    m.kind = "QuoteAccept" /\ n.kind = "QuoteAccept" /\ m.from = n.from /\ m.id = n.id
      => m = n

(* An acceptance names a response that its responder did make for this     *)
(* quote and still has on its own book, as accepted or expired at least    *)
(* in the accepting agent's.                                               *)
AcceptanceNamesResponse ==
  \A m \in msgs : m.kind = "QuoteAccept" =>
    /\ Knows(m.from, m.id) /\ Status(m.from, m.id).is \in {"Accepted", "Expired"}
    /\ \E x \in book[Author(m.response)][m.id].responses : x.id = m.response

(* Penalties are earned: at most one per quote a holds past its time and   *)
(* one more per acceptance of it that a handled.                           *)
PastExpiry(a, p) ==
  {q \in Ids : Knows(a, q) /\ Author(q) = p /\ IsExpired(a, q)}

PenaltiesEarned ==
  \A a, p \in Agents :
    rep[a][p].expired - (IF p \in Tarnished THEN PriorPenalties ELSE 0)
      <= Cardinality(PastExpiry(a, p))
           + Cardinality({m \in rcvd[a] :
               m.kind = "QuoteAccept" /\ m.id \in PastExpiry(a, p)})

(* An expired quote comes back only through an acceptance that arrives     *)
(* late: no command, response or refresh of the agent revives it.          *)
RevivedOnlyByAcceptance ==
  [][\A a \in Agents, q \in Ids :
       Knows(a, q) /\ Status(a, q) = Expired /\ Status(a, q)' # Expired =>
         \E m \in rcvd'[a] \ rcvd[a] : m.kind = "QuoteAccept" /\ m.id = q]_vars

(* Every quote an agent knows ends up expired in its book for good.        *)
QuotesSettle ==
  \A a \in Agents, q \in Ids : <>[](Knows(a, q) => Status(a, q) = Expired)

(* quotes.rs says of Expired "Quote request expired without acceptance":   *)
(* a quote its requester accepted should not end there, nor cost the       *)
(* requester a penalty.                                                    *)
ExpiredWithoutAcceptance ==
  \A a \in Agents, q \in Ids : Knows(a, q) /\ Status(a, q) = Expired =>
    ~\E m \in msgs : m.kind = "QuoteAccept" /\ m.id = q /\ m.from = Author(q)

(* quotes.rs says of Accepted "Requester accepted a specific response":    *)
(* nobody but the requester should accept a quote.                         *)
OnlyRequesterAccepts ==
  \A m \in msgs : m.kind = "QuoteAccept" => m.from = Author(m.id)
===============================================================================
