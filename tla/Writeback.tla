------------------------------- MODULE Writeback -------------------------------
(***************************************************************************)
(* Governed write-back of connectors/writeback.py: the append-only intent  *)
(* history of infrastructure/postgres_writeback.py, the API handlers of    *)
(* api/routes/connectors.py that move it, the bounded POST loop of         *)
(* connectors/writeback_network.py and the receiver that                   *)
(* connectors/writeback_receiver.py keeps as the provider's reference.     *)
(*                                                                         *)
(* A handler that talks to the provider is three steps: a transaction that *)
(* loads or marks the intent, the provider exchange with no transaction    *)
(* open, and a transaction that persists the outcome against the version   *)
(* it marked.  Other handlers, the process's death, lost requests, late    *)
(* requests and lost answers come between any two of them.                 *)
(***************************************************************************)
EXTENDS Naturals, SequencesExt

CONSTANTS
    Intents,            \* intent_id
    Actors,             \* authenticated users
    Keys,               \* idempotency_key; the code lets two intents share one
    ProviderKeys,       \* Idempotency-Key of a request to the provider
    CompensationKey,    \* the key with ":compensation" behind it, which may be another intent's
    Payloads,           \* payload_digest
    Proposals,          \* what clients propose
    Calls,              \* handlers that may be inside a provider exchange at once
    MaximumAttempts,    \* retry_policy.maximum_attempts
    ExchangeBound,      \* bound: provider exchanges begun
    None

Statuses == {"proposed", "approved", "dispatched", "acknowledged", "compensation_requested",
             "compensated", "rejected", "failed"}

\* What WRITEBACK_PROPOSAL_IDENTITY_FIELDS binds in every version.
Proposal == [requested_by : Actors, idempotency_key : Keys, payload_digest : Payloads,
             feature_enabled : BOOLEAN]

ASSUME WritebackAssumption ==
    /\ MaximumAttempts \in Nat \ {0} /\ ExchangeBound \in Nat /\ Proposals \subseteq Proposal
    /\ Keys \subseteq ProviderKeys /\ CompensationKey \in [Keys -> ProviderKeys]

\* How an acknowledgement came about: a POST's answer, a status lookup, or an operator.
Sources == {"post", "lookup", "operator"}
Acknowledgement == [compensation : BOOLEAN, accepted : BOOLEAN, source : Sources]

Intent == [proposal : Proposal, status : Statuses, approval : Actors \cup {None},
           acknowledgement : Acknowledgement \cup {None},
           compensation_requested_by : Actors \cup {None}]

\* A provider mutation; a compensation's operation is the intent's behind "compensate.".
Mutation == [key : ProviderKeys, compensation : BOOLEAN, payload_digest : Payloads]

Routes == {"dispatch", "recover", "compensate"}
Steps == {"exchange", "accepted", "not_accepted"}
Call == [route : Routes, intent : Intents, version : Nat \ {0},
         payload_digest : Payloads, attempts : 0 .. MaximumAttempts - 1, step : Steps]

ASSUME WritebackNoneAssumption ==
    /\ None \notin Actors /\ None \notin Statuses
    /\ None \notin Acknowledgement /\ None \notin Call

VARIABLES
    history,        \* connector_writeback_intents: the versions of each intent
    observations,   \* connector_writeback_recovery_observations: the outcomes kept per intent
    call,           \* what each handler is doing
    wire,           \* requests whose sender no longer waits for them
    receipts,       \* writeback_receiver_receipts
    effects,        \* writeback_receiver_effects, in the order they were applied
    exchanges       \* how many exchanges have begun

vars == <<history, observations, call, wire, receipts, effects, exchanges>>

Version(i) == Len(history[i])
Current(i) == history[i][Version(i)]
Status(i) == IF history[i] = <<>> THEN None ELSE Current(i).status

Init ==
    /\ history = [i \in Intents |-> <<>>]
    /\ observations = [i \in Intents |-> {}]
    /\ call = [c \in Calls |-> None]
    /\ wire = {}
    /\ receipts = {}
    /\ effects = <<>>
    /\ exchanges = 0

-----------------------------------------------------------------------------
\* The repository

Transitions(status) ==
    CASE status = "proposed" -> {"approved", "rejected"}
      [] status = "approved" -> {"dispatched", "rejected"}
      [] status = "dispatched" -> {"acknowledged", "compensation_requested", "failed"}
      [] status = "acknowledged" -> {"compensation_requested"}
      [] status = "compensation_requested" -> {"compensated", "failed"}
      [] OTHER -> {}

ValidTransition(previous, next) ==
    /\ previous.proposal = next.proposal
    /\ next.status \in Transitions(previous.status)

\* The trigger's own statement of the lifecycle.
GuardAdmits(previous, next) ==
    /\ previous.proposal = next.proposal
    /\ <<previous.status, next.status>> \in
          {<<"proposed", "approved">>, <<"proposed", "rejected">>,
           <<"approved", "dispatched">>, <<"approved", "rejected">>,
           <<"dispatched", "acknowledged">>, <<"dispatched", "compensation_requested">>,
           <<"dispatched", "failed">>, <<"acknowledged", "compensation_requested">>,
           <<"compensation_requested", "compensated">>, <<"compensation_requested", "failed">>}

\* Mutant: the status is checked against the row that the handler had read.
Put_StaleRead(i, expected, intent) ==
    /\ ValidTransition(history[i][expected], intent)
    /\ history' = [history EXCEPT ![i] = Append(@, intent)]

\* put with an expected_version, under the intent's advisory lock.
Put(i, expected, intent) ==
    /\ Version(i) = expected
    /\ ValidTransition(Current(i), intent)
    /\ GuardAdmits(Current(i), intent)
    /\ history' = [history EXCEPT ![i] = Append(@, intent)]

StoreObservation(i, outcome) ==
    observations' = [observations EXCEPT ![i] = @ \cup {outcome}]

-----------------------------------------------------------------------------
\* The contract of connectors/writeback.py: the next version of an intent.

approve_writeback(intent, actor) ==
    [intent EXCEPT !.status = "approved", !.approval = actor]

dispatch_writeback(intent) == [intent EXCEPT !.status = "dispatched"]

acknowledge_writeback(intent, accepted, source) ==
    [intent EXCEPT !.status = "acknowledged",
                   !.acknowledgement = [compensation |-> FALSE, accepted |-> accepted,
                                        source |-> source]]

request_compensation(intent, actor) ==
    [intent EXCEPT !.status = "compensation_requested", !.compensation_requested_by = actor]

complete_compensation(intent) ==
    [intent EXCEPT !.status = "compensated",
                   !.acknowledgement = [compensation |-> TRUE, accepted |-> TRUE,
                                        source |-> "post"]]

-----------------------------------------------------------------------------
\* Handlers without provider I/O

Propose(i, proposal) ==
    /\ history[i] = <<>>
    /\ history' = [history EXCEPT ![i] = <<[proposal |-> proposal, status |-> "proposed",
                                            approval |-> None, acknowledgement |-> None,
                                            compensation_requested_by |-> None]>>]
    /\ UNCHANGED <<observations, call, wire, receipts, effects, exchanges>>

\* Mutant: the requester may approve.
Approve_BySelf(i, actor) ==
    /\ Status(i) = "proposed" /\ Current(i).proposal.feature_enabled
    /\ Put(i, Version(i), approve_writeback(Current(i), actor))
    /\ UNCHANGED <<observations, call, wire, receipts, effects, exchanges>>

Approve(i, actor) ==
    /\ Status(i) = "proposed"
    /\ actor # Current(i).proposal.requested_by
    /\ Current(i).proposal.feature_enabled
    /\ Put(i, Version(i), approve_writeback(Current(i), actor))
    /\ UNCHANGED <<observations, call, wire, receipts, effects, exchanges>>

\* An operator reports the provider's answer; it may be a refusal.
Acknowledge(i, accepted) ==
    /\ Status(i) = "dispatched"
    /\ Put(i, Version(i), acknowledge_writeback(Current(i), accepted, "operator"))
    /\ UNCHANGED <<observations, call, wire, receipts, effects, exchanges>>

RequestCompensation(i, actor) ==
    /\ Status(i) \in {"dispatched", "acknowledged"}
    /\ actor # Current(i).proposal.requested_by
    /\ Put(i, Version(i), request_compensation(Current(i), actor))
    /\ UNCHANGED <<observations, call, wire, receipts, effects, exchanges>>

-----------------------------------------------------------------------------
\* First step of a handler with provider I/O: load or mark the intent.

Enter(c, route, i, version, digest) ==
    /\ exchanges < ExchangeBound
    /\ exchanges' = exchanges + 1
    /\ call' = [call EXCEPT ![c] = [route |-> route, intent |-> i, version |-> version,
                                    payload_digest |-> digest, attempts |-> 0,
                                    step |-> "exchange"]]

\* mark_dispatched; an intent that is already dispatched is sent again under its key.
MarkDispatched(c, i) ==
    /\ call[c] = None
    /\ \/ /\ Status(i) = "approved"
          /\ Current(i).proposal.feature_enabled
          /\ Put(i, Version(i), dispatch_writeback(Current(i)))
          /\ Enter(c, "dispatch", i, Version(i) + 1, Current(i).proposal.payload_digest)
       \/ /\ Status(i) = "dispatched"
          /\ Enter(c, "dispatch", i, Version(i), Current(i).proposal.payload_digest)
          /\ UNCHANGED history
    /\ UNCHANGED <<observations, wire, receipts, effects>>

LoadForRecovery(c, i) ==
    /\ call[c] = None
    /\ Status(i) = "dispatched"
    /\ Enter(c, "recover", i, Version(i), Current(i).proposal.payload_digest)
    /\ UNCHANGED <<history, observations, wire, receipts, effects>>

\* The payload of a compensation is the resolver's, and the request body names the digest it
\* must have: no version of the intent binds it and no approval covers it.
LoadForCompensation(c, i, digest) ==
    /\ call[c] = None
    /\ Status(i) = "compensation_requested"
    /\ Enter(c, "compensate", i, Version(i), digest)
    /\ UNCHANGED <<history, observations, wire, receipts, effects>>

\* The process dies, or the handler gives up before the provider is asked: the permission was
\* revoked meanwhile, no payload resolver answers or its payload has another digest, the
\* compensation key is too long, the lookup fails in transport.
Abandon(c) ==
    /\ call[c] # None
    /\ call' = [call EXCEPT ![c] = None]
    /\ UNCHANGED <<history, observations, wire, receipts, effects, exchanges>>

-----------------------------------------------------------------------------
\* The provider

\* The version the handler marked, which nothing can change any more.
Marked(c) == history[call[c].intent][call[c].version]

KeyOf(c) ==
    IF call[c].route = "compensate" THEN CompensationKey[Marked(c).proposal.idempotency_key]
    ELSE Marked(c).proposal.idempotency_key

MutationOf(c) == [key |-> KeyOf(c), compensation |-> call[c].route = "compensate",
                  payload_digest |-> call[c].payload_digest]

\* The receipts' primary key: the key of one receiver, whatever the operation.
SameKey(m, r) == m.key = r.key
Conflicts(m) == \E r \in receipts : SameKey(m, r) /\ r # m

\* Mutant: the effect is applied without looking for the key's receipt.
Receive_NoReceipt(m) ==
    /\ receipts' = receipts \cup {m}
    /\ effects' = Append(effects, m)

\* receive: the first request of a key commits its effect and its receipt together, an equal
\* one is answered from the receipt, a different one is refused.
Receive(m) ==
    IF \E r \in receipts : SameKey(m, r)
    THEN UNCHANGED <<receipts, effects>>
    ELSE /\ receipts' = receipts \cup {m}
         /\ effects' = Append(effects, m)

Posting(c) == call[c] # None /\ call[c].route \in {"dispatch", "compensate"} /\ call[c].step = "exchange"

Answered(c, step) == call' = [call EXCEPT ![c].step = step]

PostAccepted(c) ==
    /\ Posting(c)
    /\ ~Conflicts(MutationOf(c))
    /\ Receive(MutationOf(c))
    /\ Answered(c, "accepted")
    /\ UNCHANGED <<history, observations, wire, exchanges>>

\* A permanent failure: the provider refuses the mutation or reports a conflict.
PostRefused(c) ==
    /\ Posting(c)
    /\ call' = [call EXCEPT ![c] = None]
    /\ UNCHANGED <<history, observations, wire, receipts, effects, exchanges>>

\* The provider applied the mutation and its answer fails validation.
PostUnreadable(c) ==
    /\ Posting(c)
    /\ ~Conflicts(MutationOf(c))
    /\ Receive(MutationOf(c))
    /\ call' = [call EXCEPT ![c] = None]
    /\ UNCHANGED <<history, observations, wire, exchanges>>

\* Mutant: the loop compares before it counts the attempt.
PostLost_OneMore(c) ==
    /\ Posting(c)
    /\ wire' = wire \cup {MutationOf(c)}
    /\ call' = [call EXCEPT ![c] = IF @.attempts < MaximumAttempts
                                   THEN [@ EXCEPT !.attempts = call[c].attempts + 1]
                                   ELSE None]
    /\ UNCHANGED <<history, observations, receipts, effects, exchanges>>

\* Timeout, broken connection or transient status: the request may still arrive, and the loop
\* sends it again until maximum_attempts.
PostLost(c) ==
    /\ Posting(c)
    /\ wire' = wire \cup {MutationOf(c)}
    /\ call' = [call EXCEPT ![c] = IF @.attempts + 1 < MaximumAttempts
                                   THEN [@ EXCEPT !.attempts = call[c].attempts + 1]
                                   ELSE None]
    /\ UNCHANGED <<history, observations, receipts, effects, exchanges>>

ArrivesLate(m) ==
    /\ m \in wire
    /\ wire' = wire \ {m}
    /\ Receive(m)
    /\ UNCHANGED <<history, observations, call, exchanges>>

\* observe_recovery: a lookup by key alone.  The provider may also answer that it does not know
\* yet, whatever it holds.
Lookup(c) ==
    /\ call[c] # None /\ call[c].route = "recover" /\ call[c].step = "exchange"
    /\ \/ /\ \E r \in receipts : SameKey(MutationOf(c), r)
          /\ Answered(c, "accepted")
       \/ Answered(c, "not_accepted")
    /\ UNCHANGED <<history, observations, wire, receipts, effects, exchanges>>

-----------------------------------------------------------------------------
\* Last step of a handler with provider I/O: persist the outcome.

Persisting(c, route) == call[c] # None /\ call[c].route = route /\ call[c].step # "exchange"

PersistAcknowledgement(c) ==
    /\ Persisting(c, "dispatch")
    /\ LET i == call[c].intent
       IN  \/ /\ Status(i) # "acknowledged"
              /\ Put(i, call[c].version, acknowledge_writeback(Marked(c), TRUE, "post"))
           \/ /\ Status(i) = "acknowledged" \/ Version(i) # call[c].version
              /\ UNCHANGED history
    /\ call' = [call EXCEPT ![c] = None]
    /\ UNCHANGED <<observations, wire, receipts, effects, exchanges>>

\* Mutant: any observation advances the intent.
PersistRecovery_AnyOutcome(c) ==
    /\ Persisting(c, "recover")
    /\ LET i == call[c].intent
       IN  /\ Version(i) = call[c].version
           /\ Put(i, Version(i), acknowledge_writeback(Current(i), TRUE, "lookup"))
           /\ StoreObservation(i, call[c].step)
    /\ call' = [call EXCEPT ![c] = None]
    /\ UNCHANGED <<wire, receipts, effects, exchanges>>

\* persist_recovery: the observation is kept whatever it says, unless the intent moved.
PersistRecovery(c) ==
    /\ Persisting(c, "recover")
    /\ LET i == call[c].intent
           moved == Status(i) # "acknowledged" /\ Version(i) # call[c].version
       IN  \/ /\ ~moved
              /\ StoreObservation(i, call[c].step)
              /\ IF Status(i) = "acknowledged" \/ call[c].step # "accepted"
                 THEN UNCHANGED history
                 ELSE Put(i, Version(i), acknowledge_writeback(Current(i), TRUE, "lookup"))
           \/ moved /\ UNCHANGED <<history, observations>>
    /\ call' = [call EXCEPT ![c] = None]
    /\ UNCHANGED <<wire, receipts, effects, exchanges>>

PersistCompensation(c) ==
    /\ Persisting(c, "compensate")
    /\ LET i == call[c].intent
       IN  \/ /\ Status(i) # "compensated"
              /\ Put(i, call[c].version, complete_compensation(Marked(c)))
           \/ /\ Status(i) = "compensated" \/ Version(i) # call[c].version
              /\ UNCHANGED history
    /\ call' = [call EXCEPT ![c] = None]
    /\ UNCHANGED <<observations, wire, receipts, effects, exchanges>>

-----------------------------------------------------------------------------
Next ==
    \/ \E i \in Intents :
          \/ \E proposal \in Proposals : Propose(i, proposal)
          \/ \E actor \in Actors : Approve(i, actor) \/ RequestCompensation(i, actor)
          \/ \E accepted \in BOOLEAN : Acknowledge(i, accepted)
          \/ \E c \in Calls :
                \/ MarkDispatched(c, i) \/ LoadForRecovery(c, i)
                \/ \E digest \in Payloads : LoadForCompensation(c, i, digest)
    \/ \E c \in Calls :
          \/ Abandon(c) \/ Lookup(c)
          \/ PostAccepted(c) \/ PostRefused(c) \/ PostUnreadable(c) \/ PostLost(c)
          \/ PersistAcknowledgement(c) \/ PersistRecovery(c) \/ PersistCompensation(c)
    \/ \E m \in Mutation : ArrivesLate(m)

Spec == Init /\ [][Next]_vars

-----------------------------------------------------------------------------
\* Properties

\* Types of the tables, the handlers and the requests in flight.
TypeOK ==
    /\ history \in [Intents -> Seq(Intent)]
    /\ observations \in [Intents -> SUBSET {"accepted", "not_accepted"}]
    /\ call \in [Calls -> Call \cup {None}]
    /\ wire \subseteq Mutation
    /\ receipts \subseteq Mutation
    /\ effects \in Seq(Mutation)
    /\ exchanges \in 0 .. ExchangeBound

\* The versions of an intent are one path through the lifecycle of _WRITEBACK_TRANSITIONS for
\* one proposal, however its handlers interleave: no version is written from a stale read.
HistoryIsLegal ==
    \A i \in Intents :
        /\ history[i] # <<>> => history[i][1].status = "proposed"
        /\ \A n \in 1 .. Len(history[i]) - 1 : ValidTransition(history[i][n], history[i][n + 1])

\* A key has at most one effect at the provider, over retries, late requests, two handlers
\* of one intent, two intents with one key, an intent whose key is the compensation key of
\* another, and a process that dies after the provider accepted.
OneEffectPerKey ==
    \A m, n \in 1 .. Len(effects) : SameKey(effects[m], effects[n]) => m = n

Applied(m) == \E n \in 1 .. Len(effects) : effects[n] = m

\* What the network path records happened.  A POST's acknowledgement is of this intent's own
\* mutation.  A compensated intent has a compensation applied under its compensation key, with
\* a payload that no version names.  An acknowledgement by lookup says only that the key has an
\* effect, which may be another intent's, and its accepted observation is kept.
RecordedWasApplied ==
    \A i \in Intents : \A n \in 1 .. Len(history[i]) :
        LET v == history[i][n]
            k == v.proposal.idempotency_key
        IN  /\ v.status = "acknowledged" /\ v.acknowledgement.source = "post" =>
                  Applied([key |-> k, compensation |-> FALSE,
                           payload_digest |-> v.proposal.payload_digest])
            /\ v.status = "acknowledged" /\ v.acknowledgement.source = "lookup" =>
                  /\ \E x \in 1 .. Len(effects) : effects[x].key = k
                  /\ "accepted" \in observations[i]
            /\ v.status = "compensated" =>
                  \E digest \in Payloads :
                      Applied([key |-> CompensationKey[k], compensation |-> TRUE,
                               payload_digest |-> digest])

\* Nobody causes a provider effect alone.  Whatever is applied, or may still arrive, belongs to
\* an intent that one actor proposed and another approved; a mutation carries the key and the
\* payload that were approved, and a compensation the key of an intent whose compensation an
\* actor other than its maker requested.  A compensation's payload is nobody's decision but
\* the dispatching handler's, so nothing is said of it.
EffectsWereAuthorised ==
    \A m \in wire \cup receipts \cup ToSet(effects) :
        \E i \in Intents : \E n \in 1 .. Len(history[i]) :
            LET v == history[i][n]
            IN  /\ v.proposal.feature_enabled
                /\ v.approval \in Actors \ {v.proposal.requested_by}
                /\ IF m.compensation
                   THEN /\ m.key = CompensationKey[v.proposal.idempotency_key]
                        /\ v.compensation_requested_by \in Actors \ {v.proposal.requested_by}
                   ELSE /\ m.key = v.proposal.idempotency_key
                        /\ m.payload_digest = v.proposal.payload_digest
=============================================================================
