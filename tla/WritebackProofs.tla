----------------------------- MODULE WritebackProofs -----------------------------
(***************************************************************************)
(* Proofs about Writeback, for every set of intents, actors, keys and      *)
(* payloads, every number of handlers and every retry policy.              *)
(*                                                                         *)
(* None of the properties is inductive alone.  What a handler persists     *)
(* depends on what it marked, so CallsInv follows every handler from its   *)
(* first transaction to its last; what the provider holds is told by its   *)
(* receipts and by its effects, and ReceiptsInv says that they agree.      *)
(***************************************************************************)
EXTENDS Writeback, TLAPS

\* Who stands behind a version, by how far it got.
VersionOK(v) ==
    /\ v.status # "proposed" =>
          v.proposal.feature_enabled /\ v.approval \in Actors \ {v.proposal.requested_by}
    /\ v.status \in {"compensation_requested", "compensated"} =>
          v.compensation_requested_by \in Actors \ {v.proposal.requested_by}

VersionsInv == \A i \in Intents : \A n \in 1 .. Len(history[i]) : VersionOK(history[i][n])

\* A handler holds a stored version in the status its route starts from, sends the payload of
\* the proposal unless it compensates, and an accepted answer is backed by a receipt.
CallOK(c) ==
    call[c] # None =>
        /\ call[c].version \in 1 .. Len(history[call[c].intent])
        /\ Marked(c).status = IF call[c].route = "compensate" THEN "compensation_requested"
                              ELSE "dispatched"
        /\ call[c].route # "compensate" =>
              call[c].payload_digest = Marked(c).proposal.payload_digest
        /\ call[c].step = "not_accepted" => call[c].route = "recover"
        /\ call[c].step = "accepted" =>
              IF call[c].route = "recover" THEN \E r \in receipts : SameKey(MutationOf(c), r)
              ELSE MutationOf(c) \in receipts

CallsInv == \A c \in Calls : CallOK(c)

\* Receipts and effects are of the same mutations.
ReceiptsInv ==
    /\ \A m \in receipts : Applied(m)
    /\ \A n \in 1 .. Len(effects) : effects[n] \in receipts

WritebackInv ==
    /\ TypeOK
    /\ HistoryIsLegal
    /\ VersionsInv
    /\ CallsInv
    /\ ReceiptsInv
    /\ OneEffectPerKey
    /\ EffectsWereAuthorised
    /\ RecordedWasApplied

\* What RecordedWasApplied asks of one version.
VersionRecorded(i, v) ==
    LET k == v.proposal.idempotency_key
    IN  /\ v.status = "acknowledged" /\ v.acknowledgement.source = "post" =>
              Applied([key |-> k, compensation |-> FALSE,
                       payload_digest |-> v.proposal.payload_digest])
        /\ v.status = "acknowledged" /\ v.acknowledgement.source = "lookup" =>
              /\ \E x \in 1 .. Len(effects) : effects[x].key = k
              /\ "accepted" \in observations[i]
        /\ v.status = "compensated" =>
              \E digest \in Payloads :
                  Applied([key |-> CompensationKey[k], compensation |-> TRUE,
                           payload_digest |-> digest])

\* A version that stands behind a mutation.
Backs(v, m) ==
    /\ v.proposal.feature_enabled
    /\ v.approval \in Actors \ {v.proposal.requested_by}
    /\ IF m.compensation
       THEN /\ m.key = CompensationKey[v.proposal.idempotency_key]
            /\ v.compensation_requested_by \in Actors \ {v.proposal.requested_by}
       ELSE /\ m.key = v.proposal.idempotency_key
            /\ m.payload_digest = v.proposal.payload_digest

\* What EffectsWereAuthorised asks of one mutation.
Authorised(m) == \E i \in Intents : \E n \in 1 .. Len(history[i]) : Backs(history[i][n], m)

\* Versions are only ever appended, effects too, and receipts and observations are kept.
HistoryGrows ==
    \A i \in Intents :
        /\ Len(history[i]) <= Len(history'[i])
        /\ \A n \in 1 .. Len(history[i]) : history'[i][n] = history[i][n]
-----------------------------------------------------------------------------
\* Sequences

LEMMA AppendFacts ==
    ASSUME NEW S, NEW s \in Seq(S), NEW x \in S
    PROVE  /\ Append(s, x) \in Seq(S)
           /\ Len(s) \in Nat
           /\ Len(Append(s, x)) = Len(s) + 1
           /\ \A n \in 1 .. Len(s) : Append(s, x)[n] = s[n]
           /\ Append(s, x)[Len(s) + 1] = x
  OBVIOUS

LEMMA ElementFacts ==
    ASSUME NEW S, NEW s \in Seq(S)
    PROVE  Len(s) \in Nat /\ (s # <<>> => Len(s) > 0) /\ \A n \in 1 .. Len(s) : s[n] \in S
  OBVIOUS

\* The current version of an intent that has one.
LEMMA CurrentFacts ==
    ASSUME TypeOK, NEW i \in Intents, history[i] # <<>>
    PROVE  /\ Version(i) \in 1 .. Len(history[i]) /\ Version(i) = Len(history[i])
           /\ Current(i) \in Intent /\ Status(i) = Current(i).status
  <1>1. history[i] \in Seq(Intent)
    BY DEF TypeOK
  <1> QED
    BY <1>1, ElementFacts DEF Version, Current, Status

\* What a handler marked is a version, and the mutation it sends is well formed.
LEMMA MarkedFacts ==
    ASSUME TypeOK, CallsInv, NEW c \in Calls, call[c] # None
    PROVE  /\ call[c] \in Call /\ call[c].intent \in Intents
           /\ call[c].version \in 1 .. Len(history[call[c].intent])
           /\ history[call[c].intent] # <<>>
           /\ Marked(c) \in Intent /\ MutationOf(c) \in Mutation
  <1>1. call[c] \in Call /\ call[c].intent \in Intents
    BY DEF TypeOK, Call
  <1>2. call[c].version \in 1 .. Len(history[call[c].intent])
    BY DEF CallsInv, CallOK
  <1>3. history[call[c].intent] \in Seq(Intent)
    BY <1>1 DEF TypeOK
  <1>4. history[call[c].intent] # <<>>
    BY <1>2, <1>3
  <1>5. Marked(c) \in Intent
    BY <1>2, <1>3, ElementFacts DEF Marked
  <1>6. MutationOf(c) \in Mutation
    <2>1. Marked(c).proposal.idempotency_key \in Keys
      BY <1>5 DEF Intent, Proposal
    <2>2. KeyOf(c) \in ProviderKeys
      BY <2>1, WritebackAssumption DEF KeyOf
    <2>3. call[c].payload_digest \in Payloads
      BY <1>1 DEF Call
    <2> QED
      BY <2>2, <2>3 DEF MutationOf, Mutation
  <1> QED
    BY <1>1, <1>2, <1>4, <1>5, <1>6
-----------------------------------------------------------------------------
\* History

\* A new version of an intent keeps everything that is said of histories.
LEMMA VersionAdded ==
    ASSUME WritebackInv, NEW i \in Intents, NEW v \in Intent,
           history' = [history EXCEPT ![i] = Append(@, v)],
           history[i] = <<>> => v.status = "proposed",
           history[i] # <<>> => ValidTransition(Current(i), v),
           VersionOK(v)
    PROVE  /\ history' \in [Intents -> Seq(Intent)]
           /\ HistoryGrows /\ HistoryIsLegal' /\ VersionsInv'
           /\ Len(history'[i]) = Len(history[i]) + 1 /\ history'[i][Len(history[i]) + 1] = v
           /\ \A j \in Intents : j # i => history'[j] = history[j]
  <1> DEFINE L == Len(history[i])
  <1>1. history \in [Intents -> Seq(Intent)] /\ history[i] \in Seq(Intent)
    BY DEF WritebackInv, TypeOK
  <1>2. /\ history'[i] = Append(history[i], v)
        /\ \A j \in Intents : j # i => history'[j] = history[j]
    BY <1>1
  <1>3. /\ history'[i] \in Seq(Intent) /\ L \in Nat /\ Len(history'[i]) = L + 1
        /\ \A n \in 1 .. L : history'[i][n] = history[i][n]
        /\ history'[i][L + 1] = v
    BY <1>1, <1>2, AppendFacts
  <1>4. history' \in [Intents -> Seq(Intent)]
    BY <1>1, <1>3
  <1>5. \A j \in Intents : Len(history[j]) \in Nat
    BY <1>1, ElementFacts
  <1>6. HistoryGrows
    BY <1>2, <1>3, <1>5 DEF HistoryGrows
  <1>7. HistoryIsLegal'
    <2> SUFFICES ASSUME NEW j \in Intents
                 PROVE  /\ history'[j] # <<>> => history'[j][1].status = "proposed"
                        /\ \A n \in 1 .. Len(history'[j]) - 1 :
                              ValidTransition(history'[j][n], history'[j][n + 1])
      BY DEF HistoryIsLegal, ValidTransition
    <2>1. /\ history[j] # <<>> => history[j][1].status = "proposed"
          /\ \A n \in 1 .. Len(history[j]) - 1 : ValidTransition(history[j][n], history[j][n + 1])
      BY DEF WritebackInv, HistoryIsLegal
    <2>2. CASE j # i
      BY <2>1, <2>2, <1>2
    <2>3. CASE j = i /\ history[i] = <<>>
      <3>1. L = 0
        BY <2>3
      <3> QED
        BY <2>3, <3>1, <1>3
    <2>4. CASE j = i /\ history[i] # <<>>
      <3>1. L > 0 /\ Current(i) = history[i][L]
        BY <2>4, <1>1, ElementFacts DEF Current, Version
      <3>2. history'[i][1].status = "proposed"
        BY <2>1, <2>4, <3>1, <1>3
      <3>3. ASSUME NEW n \in 1 .. L
            PROVE  ValidTransition(history'[i][n], history'[i][n + 1])
        <4>1. CASE n = L
          BY <4>1, <3>1, <1>3, <2>4
        <4>2. CASE n # L
          <5>1. n \in 1 .. L - 1 /\ n + 1 \in 1 .. L
            BY <4>2, <1>3
          <5> QED
            BY <5>1, <2>1, <2>4, <1>3
        <4> QED
          BY <4>1, <4>2
      <3> QED
        BY <2>4, <3>2, <3>3, <1>3
    <2> QED
      BY <2>2, <2>3, <2>4
  <1>8. VersionsInv'
    <2>1. \A j \in Intents : \A n \in 1 .. Len(history[j]) : VersionOK(history[j][n])
      BY DEF WritebackInv, VersionsInv
    <2>2. \A n \in 1 .. L + 1 : VersionOK(history'[i][n])
      BY <2>1, <1>3
    <2> QED
      BY <2>1, <2>2, <1>2, <1>3 DEF VersionsInv, VersionOK
  <1> QED
    BY <1>2, <1>3, <1>4, <1>6, <1>7, <1>8

LEMMA HistoryUnchanged ==
    ASSUME WritebackInv, UNCHANGED history
    PROVE  HistoryGrows /\ HistoryIsLegal' /\ VersionsInv'
  <1>1. \A i \in Intents : Len(history[i]) \in Nat
    BY ElementFacts DEF WritebackInv, TypeOK
  <1>2. HistoryIsLegal' /\ VersionsInv'
    BY DEF WritebackInv, HistoryIsLegal, VersionsInv, ValidTransition, VersionOK
  <1> QED
    BY <1>1, <1>2 DEF HistoryGrows
-----------------------------------------------------------------------------
\* The provider

LEMMA ReceiveFacts ==
    ASSUME WritebackInv, NEW m \in Mutation, Receive(m)
    PROVE  /\ receipts' \subseteq Mutation /\ effects' \in Seq(Mutation)
           /\ ReceiptsInv' /\ OneEffectPerKey'
           /\ receipts \subseteq receipts' /\ \A r \in receipts' : r \in receipts \/ r = m
           /\ \A x : Applied(x) => Applied(x)'
           /\ ~Conflicts(m) => m \in receipts'
  <1>1. receipts \subseteq Mutation /\ effects \in Seq(Mutation)
    BY DEF WritebackInv, TypeOK
  <1>2. /\ \A r \in receipts : Applied(r)
        /\ \A n \in 1 .. Len(effects) : effects[n] \in receipts
        /\ \A k, n \in 1 .. Len(effects) : SameKey(effects[k], effects[n]) => k = n
    BY DEF WritebackInv, ReceiptsInv, OneEffectPerKey
  <1>3. CASE \E r \in receipts : SameKey(m, r)
    <2>1. receipts' = receipts /\ effects' = effects
      BY <1>3 DEF Receive
    <2>2. ~Conflicts(m) => m \in receipts
      BY <1>3 DEF Conflicts
    <2> QED
      BY <1>1, <1>2, <2>1, <2>2 DEF ReceiptsInv, OneEffectPerKey, Applied, SameKey
  <1>4. CASE ~ \E r \in receipts : SameKey(m, r)
    <2> DEFINE L == Len(effects)
    <2>1. receipts' = receipts \cup {m} /\ effects' = Append(effects, m)
      BY <1>4 DEF Receive
    <2>2. /\ effects' \in Seq(Mutation) /\ L \in Nat /\ Len(effects') = L + 1
          /\ \A n \in 1 .. L : effects'[n] = effects[n]
          /\ effects'[L + 1] = m
      BY <1>1, <2>1, AppendFacts
    <2>3. \A x : Applied(x) => Applied(x)'
      BY <2>2 DEF Applied
    <2>4. Applied(m)'
      BY <2>2 DEF Applied
    <2>5. \A n \in 1 .. Len(effects') : effects'[n] \in receipts'
      BY <1>2, <2>1, <2>2
    <2>6. ReceiptsInv'
      BY <1>2, <2>1, <2>3, <2>4, <2>5 DEF ReceiptsInv
    <2>7. \A n \in 1 .. L : ~SameKey(m, effects[n]) /\ ~SameKey(effects[n], m)
      BY <1>2, <1>4 DEF SameKey
    <2>8. \A k, n \in 1 .. Len(effects') : SameKey(effects'[k], effects'[n]) => k = n
      <3> SUFFICES ASSUME NEW k \in 1 .. L + 1, NEW n \in 1 .. L + 1,
                          SameKey(effects'[k], effects'[n])
                   PROVE  k = n
        BY <2>2
      <3>1. CASE k \in 1 .. L /\ n \in 1 .. L
        BY <3>1, <1>2, <2>2
      <3>2. CASE k = L + 1 /\ n \in 1 .. L
        BY <3>2, <2>2, <2>7
      <3>3. CASE k \in 1 .. L /\ n = L + 1
        BY <3>3, <2>2, <2>7
      <3>4. CASE k = L + 1 /\ n = L + 1
        BY <3>4
      <3> QED
        BY <2>2, <3>1, <3>2, <3>3, <3>4
    <2>9. OneEffectPerKey'
      BY <2>8 DEF OneEffectPerKey, SameKey
    <2> QED
      BY <1>1, <2>1, <2>2, <2>3, <2>6, <2>9
  <1> QED
    BY <1>3, <1>4

\* What a dispatch or a compensation sends is authorised by the version it marked.
LEMMA SentIsAuthorised ==
    ASSUME WritebackInv, NEW c \in Calls, Posting(c)
    PROVE  Authorised(MutationOf(c))
  <1>1. call[c] # None
    BY DEF Posting
  <1>2. /\ call[c].intent \in Intents /\ Marked(c) \in Intent
        /\ call[c].version \in 1 .. Len(history[call[c].intent])
    BY <1>1, MarkedFacts DEF WritebackInv
  <1>3. VersionOK(Marked(c))
    BY <1>2 DEF WritebackInv, VersionsInv, Marked
  <1>4. Marked(c).status = IF call[c].route = "compensate" THEN "compensation_requested"
                           ELSE "dispatched"
    BY <1>1 DEF WritebackInv, CallsInv, CallOK
  <1>5. /\ Marked(c).proposal.feature_enabled
        /\ Marked(c).approval \in Actors \ {Marked(c).proposal.requested_by}
        /\ call[c].route = "compensate" =>
              Marked(c).compensation_requested_by \in Actors \ {Marked(c).proposal.requested_by}
    BY <1>3, <1>4 DEF VersionOK
  <1>6. call[c].route # "compensate" =>
            call[c].payload_digest = Marked(c).proposal.payload_digest
    BY <1>1 DEF WritebackInv, CallsInv, CallOK
  <1>7. CASE call[c].route = "compensate"
    <2>1. /\ MutationOf(c).key = CompensationKey[Marked(c).proposal.idempotency_key]
          /\ MutationOf(c).compensation
      BY <1>7 DEF MutationOf, KeyOf
    <2> QED
      BY <1>2, <1>5, <1>7, <2>1 DEF Authorised, Backs, Marked
  <1>8. CASE call[c].route # "compensate"
    <2>1. /\ MutationOf(c).key = Marked(c).proposal.idempotency_key
          /\ ~MutationOf(c).compensation
          /\ MutationOf(c).payload_digest = Marked(c).proposal.payload_digest
      BY <1>6, <1>8 DEF MutationOf, KeyOf
    <2> QED
      BY <1>2, <1>5, <2>1 DEF Authorised, Backs, Marked
  <1> QED
    BY <1>7, <1>8

\* An authorisation is never withdrawn.
LEMMA AuthorisedKept ==
    ASSUME TypeOK, TypeOK', HistoryGrows, NEW m, Authorised(m)
    PROVE  Authorised(m)'
  <1>1. PICK i \in Intents : \E n \in 1 .. Len(history[i]) : Backs(history[i][n], m)
    BY DEF Authorised
  <1>2. PICK n \in 1 .. Len(history[i]) : Backs(history[i][n], m)
    BY <1>1
  <1>3. Len(history[i]) \in Nat /\ Len(history'[i]) \in Nat
    BY ElementFacts DEF TypeOK
  <1>4. n \in 1 .. Len(history'[i]) /\ history'[i][n] = history[i][n]
    BY <1>3 DEF HistoryGrows
  <1>5. Backs(history[i][n], m)'
    BY <1>2, <1>4 DEF Backs
  <1> QED
    BY <1>4, <1>5 DEF Authorised
-----------------------------------------------------------------------------
\* Steps

\* What has to be shown of a step.
LEMMA StepKeepsInv ==
    ASSUME WritebackInv, TypeOK', HistoryGrows, HistoryIsLegal', VersionsInv',
           ReceiptsInv', OneEffectPerKey',
           receipts \subseteq receipts', \A x : Applied(x) => Applied(x)',
           \A i \in Intents : observations[i] \subseteq observations'[i],
           \A i \in Intents : \A n \in Len(history[i]) + 1 .. Len(history'[i]) :
               VersionRecorded(i, history[i][n])',
           \A c \in Calls : call'[c] = call[c] \/ CallOK(c)',
           \A m \in wire' \cup receipts' : m \in wire \cup receipts \/ Authorised(m)
    PROVE  WritebackInv'
  <1>0. \A i \in Intents : Len(history[i]) \in Nat /\ Len(history'[i]) \in Nat
    BY ElementFacts DEF WritebackInv, TypeOK
  <1>1. CallsInv'
    <2> SUFFICES ASSUME NEW c \in Calls, call'[c] = call[c], call[c] # None
                 PROVE  CallOK(c)'
      BY DEF CallsInv, CallOK
    <2>1. /\ call[c].intent \in Intents
          /\ call[c].version \in 1 .. Len(history[call[c].intent])
      BY MarkedFacts DEF WritebackInv
    <2>2. /\ history'[call[c].intent][call[c].version] = history[call[c].intent][call[c].version]
          /\ call[c].version \in 1 .. Len(history'[call[c].intent])
      BY <2>1, <1>0 DEF HistoryGrows
    <2>3. Marked(c)' = Marked(c)
      BY <2>2 DEF Marked
    <2>4. MutationOf(c)' = MutationOf(c)
      BY <2>3 DEF MutationOf, KeyOf
    <2>5. CallOK(c)
      BY DEF WritebackInv, CallsInv
    <2> QED
      BY <2>2, <2>3, <2>4, <2>5 DEF CallOK, SameKey
  <1>2. EffectsWereAuthorised'
    <2>1. \A m \in wire \cup receipts : Authorised(m)
      BY DEF WritebackInv, EffectsWereAuthorised, Authorised, Backs
    <2>2. \A m \in wire' \cup receipts' : Authorised(m)'
      BY <2>1, AuthorisedKept DEF WritebackInv
    <2>3. ToSet(effects)' \subseteq receipts'
      <3>1. DOMAIN effects' = 1 .. Len(effects')
        BY DEF TypeOK
      <3> QED
        BY <3>1 DEF ReceiptsInv, ToSet
    <2>4. \A m \in (wire \cup receipts \cup ToSet(effects))' : Authorised(m)'
      BY <2>2, <2>3
    <2> QED
      BY <2>4 DEF EffectsWereAuthorised, Authorised, Backs
  <1>3. RecordedWasApplied'
    <2>1. \A i \in Intents : \A n \in 1 .. Len(history[i]) : VersionRecorded(i, history[i][n])
      BY DEF WritebackInv, RecordedWasApplied, VersionRecorded
    <2>2. ASSUME NEW i \in Intents, NEW n \in 1 .. Len(history'[i])
          PROVE  VersionRecorded(i, history[i][n])'
      <3>1. CASE n \in 1 .. Len(history[i])
        <4>1. history'[i][n] = history[i][n]
          BY <3>1 DEF HistoryGrows
        <4>2. VersionRecorded(i, history[i][n])
          BY <3>1, <2>1
        <4>3. ASSUME NEW k, \E x \in 1 .. Len(effects) : effects[x].key = k
              PROVE  \E x \in 1 .. Len(effects') : effects'[x].key = k
          <5>1. PICK x \in 1 .. Len(effects) : effects[x].key = k
            BY <4>3
          <5>2. PICK m : m = effects[x]
            OBVIOUS
          <5>3. Applied(m)'
            BY <5>2 DEF Applied
          <5> QED
            BY <5>1, <5>2, <5>3 DEF Applied
        <4>4. PICK v : v = history[i][n]
          OBVIOUS
        <4>5. VersionRecorded(i, v)'
          BY <4>2, <4>3, <4>4 DEF VersionRecorded
        <4> QED
          BY <4>1, <4>4, <4>5 DEF VersionRecorded
      <3>2. CASE n \in Len(history[i]) + 1 .. Len(history'[i])
        BY <3>2
      <3> QED
        BY <3>1, <3>2, <1>0
    <2> QED
      BY <2>2 DEF RecordedWasApplied, VersionRecorded
  <1> QED
    BY <1>1, <1>2, <1>3 DEF WritebackInv

\* A step that appends a version.
LEMMA VersionStep ==
    ASSUME WritebackInv, NEW i \in Intents, NEW v \in Intent,
           history' = [history EXCEPT ![i] = Append(@, v)],
           history[i] = <<>> => v.status = "proposed",
           history[i] # <<>> => ValidTransition(Current(i), v),
           VersionOK(v), VersionRecorded(i, v)',
           UNCHANGED <<wire, receipts, effects>>,
           exchanges' \in 0 .. ExchangeBound,
           observations' \in [Intents -> SUBSET {"accepted", "not_accepted"}],
           \A j \in Intents : observations[j] \subseteq observations'[j],
           call' \in [Calls -> Call \cup {None}],
           \A c \in Calls : call'[c] = call[c] \/ CallOK(c)'
    PROVE  WritebackInv'
  <1>1. /\ history' \in [Intents -> Seq(Intent)]
        /\ HistoryGrows /\ HistoryIsLegal' /\ VersionsInv'
        /\ Len(history'[i]) = Len(history[i]) + 1 /\ history'[i][Len(history[i]) + 1] = v
        /\ \A j \in Intents : j # i => history'[j] = history[j]
    BY VersionAdded
  <1>2. TypeOK'
    BY <1>1 DEF WritebackInv, TypeOK
  <1>3. ReceiptsInv' /\ OneEffectPerKey' /\ \A x : Applied(x) => Applied(x)'
    BY DEF WritebackInv, ReceiptsInv, OneEffectPerKey, Applied, SameKey
  <1>4. \A j \in Intents : Len(history[j]) \in Nat
    BY ElementFacts DEF WritebackInv, TypeOK
  <1>5. ASSUME NEW j \in Intents, NEW n \in Len(history[j]) + 1 .. Len(history'[j])
        PROVE  VersionRecorded(j, history[j][n])'
    <2>1. j = i /\ n = Len(history[i]) + 1
      BY <1>1, <1>4
    <2>2. history'[j][n] = v
      BY <1>1, <2>1
    <2> QED
      BY <2>1, <2>2 DEF VersionRecorded
  <1> QED
    BY <1>1, <1>2, <1>3, <1>5, StepKeepsInv

\* A step that leaves histories and provider alone; what it sends is authorised.
LEMMA QuietStep ==
    ASSUME WritebackInv, UNCHANGED <<history, receipts, effects>>,
           exchanges' \in 0 .. ExchangeBound,
           observations' \in [Intents -> SUBSET {"accepted", "not_accepted"}],
           \A j \in Intents : observations[j] \subseteq observations'[j],
           wire' \subseteq Mutation, \A m \in wire' : m \in wire \/ Authorised(m),
           call' \in [Calls -> Call \cup {None}],
           \A c \in Calls : call'[c] = call[c] \/ CallOK(c)'
    PROVE  WritebackInv'
  <1>1. HistoryGrows /\ HistoryIsLegal' /\ VersionsInv'
    BY HistoryUnchanged
  <1>2. TypeOK'
    BY DEF WritebackInv, TypeOK
  <1>3. ReceiptsInv' /\ OneEffectPerKey' /\ \A x : Applied(x) => Applied(x)'
    BY DEF WritebackInv, ReceiptsInv, OneEffectPerKey, Applied, SameKey
  <1>4. \A j \in Intents : Len(history[j]) \in Nat
    BY ElementFacts DEF WritebackInv, TypeOK
  <1>5. \A j \in Intents : \A n \in Len(history[j]) + 1 .. Len(history'[j]) :
            VersionRecorded(j, history[j][n])'
    BY <1>4
  <1> QED
    BY <1>1, <1>2, <1>3, <1>5, StepKeepsInv

\* A step in which the provider receives an authorised request.
LEMMA ReceiveStep ==
    ASSUME WritebackInv, UNCHANGED <<history, observations, exchanges>>,
           NEW m \in Mutation, Authorised(m), Receive(m), wire' \subseteq wire,
           call' \in [Calls -> Call \cup {None}],
           \A c \in Calls : call'[c] = call[c] \/ CallOK(c)'
    PROVE  WritebackInv'
  <1>1. HistoryGrows /\ HistoryIsLegal' /\ VersionsInv'
    BY HistoryUnchanged
  <1>2. /\ receipts' \subseteq Mutation /\ effects' \in Seq(Mutation)
        /\ ReceiptsInv' /\ OneEffectPerKey'
        /\ receipts \subseteq receipts' /\ \A r \in receipts' : r \in receipts \/ r = m
        /\ \A x : Applied(x) => Applied(x)'
    BY ReceiveFacts
  <1>3. TypeOK'
    BY <1>2 DEF WritebackInv, TypeOK
  <1>4. \A j \in Intents : Len(history[j]) \in Nat
    BY ElementFacts DEF WritebackInv, TypeOK
  <1>5. \A j \in Intents : \A n \in Len(history[j]) + 1 .. Len(history'[j]) :
            VersionRecorded(j, history[j][n])'
    BY <1>4
  <1> QED
    BY <1>1, <1>2, <1>3, <1>5, StepKeepsInv
-----------------------------------------------------------------------------
\* Handlers without provider I/O

LEMMA ProposeInv ==
    ASSUME WritebackInv, NEW i \in Intents, NEW proposal \in Proposals, Propose(i, proposal)
    PROVE  WritebackInv'
  <1> DEFINE v == [proposal |-> proposal, status |-> "proposed", approval |-> None,
                   acknowledgement |-> None, compensation_requested_by |-> None]
  <1>1. proposal \in Proposal
    BY WritebackAssumption
  <1>2. v \in Intent
    BY <1>1 DEF Intent, Statuses
  <1>3. history[i] = <<>> /\ history' = [history EXCEPT ![i] = Append(@, v)]
    <2>1. Append(<<>>, v) = <<v>>
      OBVIOUS
    <2>2. history \in [Intents -> Seq(Intent)]
      BY DEF WritebackInv, TypeOK
    <2> QED
      BY <2>1, <2>2 DEF Propose
  <1>4. VersionOK(v) /\ VersionRecorded(i, v)'
    BY DEF VersionOK, VersionRecorded
  <1> HIDE DEF v
  <1>5. v.status = "proposed"
    BY DEF v
  <1>6. /\ exchanges' \in 0 .. ExchangeBound /\ call' = call /\ call' \in [Calls -> Call \cup {None}]
        /\ observations' = observations
        /\ observations' \in [Intents -> SUBSET {"accepted", "not_accepted"}]
        /\ UNCHANGED <<wire, receipts, effects>>
    BY DEF Propose, WritebackInv, TypeOK
  <1> QED
    BY <1>2, <1>3, <1>4, <1>5, <1>6, VersionStep

\* The handlers that replace the current version and touch nothing else.
LEMMA PlainPut ==
    ASSUME WritebackInv, NEW i \in Intents, NEW v \in Intent, history[i] # <<>>,
           Put(i, Version(i), v), VersionOK(v), VersionRecorded(i, v)',
           UNCHANGED <<observations, call, wire, receipts, effects, exchanges>>
    PROVE  WritebackInv'
  <1>1. history' = [history EXCEPT ![i] = Append(@, v)] /\ ValidTransition(Current(i), v)
    BY DEF Put
  <1>2. /\ exchanges' \in 0 .. ExchangeBound /\ call' \in [Calls -> Call \cup {None}]
        /\ observations' \in [Intents -> SUBSET {"accepted", "not_accepted"}]
    BY DEF WritebackInv, TypeOK
  <1> QED
    BY <1>1, <1>2, VersionStep

\* An intent in a status has a current version, about which VersionsInv holds.
LEMMA StoredFacts ==
    ASSUME WritebackInv, NEW i \in Intents, NEW s \in Statuses, Status(i) = s
    PROVE  history[i] # <<>> /\ Current(i) \in Intent /\ Current(i).status = s /\ VersionOK(Current(i))
  <1>1. history[i] # <<>>
    BY WritebackNoneAssumption DEF Status
  <1>2. /\ Version(i) \in 1 .. Len(history[i]) /\ Current(i) \in Intent
        /\ Status(i) = Current(i).status
    BY <1>1, CurrentFacts DEF WritebackInv
  <1> QED
    BY <1>1, <1>2 DEF WritebackInv, VersionsInv, Current

LEMMA ApproveInv ==
    ASSUME WritebackInv, NEW i \in Intents, NEW actor \in Actors, Approve(i, actor)
    PROVE  WritebackInv'
  <1> DEFINE u == Current(i)
  <1>0. PICK v : v = approve_writeback(u, actor)
    OBVIOUS
  <1>1. history[i] # <<>> /\ u \in Intent /\ u.status = "proposed"
    BY StoredFacts DEF Approve, Statuses
  <1>2. v \in Intent /\ v.status = "approved" /\ v.approval = actor /\ v.proposal = u.proposal
    BY <1>0, <1>1 DEF approve_writeback, Intent, Statuses
  <1>3. VersionOK(v) /\ VersionRecorded(i, v)'
    BY <1>2 DEF VersionOK, VersionRecorded, Approve
  <1>4. Put(i, Version(i), v) /\ UNCHANGED <<observations, call, wire, receipts, effects, exchanges>>
    BY <1>0 DEF Approve
  <1> QED
    BY <1>1, <1>2, <1>3, <1>4, PlainPut

LEMMA AcknowledgeInv ==
    ASSUME WritebackInv, NEW i \in Intents, NEW accepted \in BOOLEAN, Acknowledge(i, accepted)
    PROVE  WritebackInv'
  <1> DEFINE u == Current(i)
  <1>0. PICK v : v = acknowledge_writeback(u, accepted, "operator")
    OBVIOUS
  <1>1. history[i] # <<>> /\ u \in Intent /\ u.status = "dispatched" /\ VersionOK(u)
    BY StoredFacts DEF Acknowledge, Statuses
  <1>2. /\ v \in Intent /\ v.status = "acknowledged" /\ v.acknowledgement.source = "operator"
        /\ v.proposal = u.proposal /\ v.approval = u.approval
    BY <1>0, <1>1 DEF acknowledge_writeback, Intent, Statuses, Acknowledgement, Sources
  <1>3. VersionOK(v) /\ VersionRecorded(i, v)'
    BY <1>1, <1>2 DEF VersionOK, VersionRecorded
  <1>4. Put(i, Version(i), v) /\ UNCHANGED <<observations, call, wire, receipts, effects, exchanges>>
    BY <1>0 DEF Acknowledge
  <1> QED
    BY <1>1, <1>2, <1>3, <1>4, PlainPut

LEMMA RequestCompensationInv ==
    ASSUME WritebackInv, NEW i \in Intents, NEW actor \in Actors, RequestCompensation(i, actor)
    PROVE  WritebackInv'
  <1> DEFINE u == Current(i)
  <1>0. PICK v : v = request_compensation(u, actor)
    OBVIOUS
  <1>1. /\ history[i] # <<>> /\ u \in Intent /\ VersionOK(u)
        /\ u.status \in {"dispatched", "acknowledged"}
    BY StoredFacts DEF RequestCompensation, Statuses
  <1>2. /\ v \in Intent /\ v.status = "compensation_requested"
        /\ v.compensation_requested_by = actor
        /\ v.proposal = u.proposal /\ v.approval = u.approval
    BY <1>0, <1>1 DEF request_compensation, Intent, Statuses
  <1>3. VersionOK(v) /\ VersionRecorded(i, v)'
    BY <1>1, <1>2 DEF VersionOK, VersionRecorded, RequestCompensation
  <1>4. Put(i, Version(i), v) /\ UNCHANGED <<observations, call, wire, receipts, effects, exchanges>>
    BY <1>0 DEF RequestCompensation
  <1> QED
    BY <1>1, <1>2, <1>3, <1>4, PlainPut
-----------------------------------------------------------------------------
\* First step of a handler with provider I/O

\* A handler that has entered with a stored version in the status of its route.
LEMMA EnterFacts ==
    ASSUME WritebackInv, NEW c \in Calls, NEW i \in Intents, NEW route \in Routes,
           NEW version \in Nat \ {0}, NEW digest \in Payloads,
           Enter(c, route, i, version, digest), version \in 1 .. Len(history'[i]),
           history'[i][version].status = IF route = "compensate" THEN "compensation_requested"
                                         ELSE "dispatched",
           route # "compensate" => digest = history'[i][version].proposal.payload_digest
    PROVE  /\ exchanges' \in 0 .. ExchangeBound
           /\ call' \in [Calls -> Call \cup {None}]
           /\ \A d \in Calls : call'[d] = call[d] \/ CallOK(d)'
  <1> DEFINE x == [route |-> route, intent |-> i, version |-> version,
                   payload_digest |-> digest, attempts |-> 0, step |-> "exchange"]
  <1>1. call' = [call EXCEPT ![c] = x] /\ exchanges < ExchangeBound /\ exchanges' = exchanges + 1
    BY DEF Enter
  <1>2. exchanges' \in 0 .. ExchangeBound
    BY <1>1, WritebackAssumption DEF WritebackInv, TypeOK
  <1>3. x \in Call
    BY WritebackAssumption DEF Call, Steps
  <1>4. call' \in [Calls -> Call \cup {None}] /\ call'[c] = x
        /\ \A d \in Calls : d # c => call'[d] = call[d]
    BY <1>1, <1>3 DEF WritebackInv, TypeOK
  <1>5. /\ call'[c].route = route /\ call'[c].intent = i /\ call'[c].version = version
        /\ call'[c].payload_digest = digest /\ call'[c].step = "exchange"
    BY <1>4
  <1>6. Marked(c)' = history'[i][version]
    BY <1>5 DEF Marked
  <1>7. CallOK(c)'
    BY <1>5, <1>6 DEF CallOK
  <1> QED
    BY <1>2, <1>4, <1>7

\* The handlers that only load.
LEMMA LoadInv ==
    ASSUME WritebackInv, NEW c \in Calls, NEW i \in Intents, NEW route \in Routes,
           Status(i) = IF route = "compensate" THEN "compensation_requested" ELSE "dispatched",
           NEW digest \in Payloads, Enter(c, route, i, Version(i), digest),
           route # "compensate" => digest = Current(i).proposal.payload_digest,
           UNCHANGED <<history, observations, wire, receipts, effects>>
    PROVE  WritebackInv'
  <1>1. history[i] # <<>> /\ Current(i).status = Status(i)
    BY StoredFacts DEF Statuses
  <1>2. Version(i) \in 1 .. Len(history[i]) /\ Version(i) = Len(history[i])
    BY <1>1, CurrentFacts DEF WritebackInv
  <1>3. history[i] \in Seq(Intent)
    BY DEF WritebackInv, TypeOK
  <1>4. /\ Version(i) \in Nat \ {0} /\ Version(i) \in 1 .. Len(history'[i])
        /\ history'[i][Version(i)] = Current(i)
    BY <1>2, <1>3, ElementFacts DEF Current
  <1>5. /\ exchanges' \in 0 .. ExchangeBound
        /\ call' \in [Calls -> Call \cup {None}]
        /\ \A d \in Calls : call'[d] = call[d] \/ CallOK(d)'
    BY <1>1, <1>4, EnterFacts
  <1>6. /\ wire' \subseteq Mutation /\ \A m \in wire' : m \in wire
        /\ observations' = observations
        /\ observations' \in [Intents -> SUBSET {"accepted", "not_accepted"}]
    BY DEF WritebackInv, TypeOK
  <1> QED
    BY <1>5, <1>6, QuietStep

\* The payload that a proposal names.
LEMMA DigestFacts ==
    ASSUME WritebackInv, NEW i \in Intents, NEW s \in Statuses, Status(i) = s
    PROVE  Current(i).proposal.payload_digest \in Payloads
  BY StoredFacts DEF Intent, Proposal

LEMMA LoadForRecoveryInv ==
    ASSUME WritebackInv, NEW c \in Calls, NEW i \in Intents, LoadForRecovery(c, i)
    PROVE  WritebackInv'
  <1>1. Current(i).proposal.payload_digest \in Payloads
    BY DigestFacts DEF LoadForRecovery, Statuses
  <1> QED
    BY <1>1, LoadInv DEF LoadForRecovery, Routes

LEMMA MarkDispatchedInv ==
    ASSUME WritebackInv, NEW c \in Calls, NEW i \in Intents, MarkDispatched(c, i)
    PROVE  WritebackInv'
  <1> DEFINE digest == Current(i).proposal.payload_digest
  <1>1. CASE /\ Status(i) = "dispatched" /\ Enter(c, "dispatch", i, Version(i), digest)
             /\ UNCHANGED history
    <2>1. UNCHANGED <<history, observations, wire, receipts, effects>>
      BY <1>1 DEF MarkDispatched
    <2>2. digest \in Payloads
      BY <1>1, DigestFacts DEF Statuses
    <2> QED
      BY <1>1, <2>1, <2>2, LoadInv DEF Routes
  <1>2. CASE /\ Status(i) = "approved"
             /\ Put(i, Version(i), dispatch_writeback(Current(i)))
             /\ Enter(c, "dispatch", i, Version(i) + 1, digest)
    <2> DEFINE u == Current(i)
    <2>0. PICK v : v = dispatch_writeback(u)
      OBVIOUS
    <2>1. history[i] # <<>> /\ u \in Intent /\ u.status = "approved" /\ VersionOK(u)
      BY <1>2, StoredFacts DEF Statuses
    <2>2. /\ v \in Intent /\ v.status = "dispatched"
          /\ v.proposal = u.proposal /\ v.approval = u.approval
      BY <2>0, <2>1 DEF dispatch_writeback, Intent, Statuses
    <2>3. VersionOK(v) /\ VersionRecorded(i, v)'
      BY <2>1, <2>2 DEF VersionOK, VersionRecorded
    <2>4. history' = [history EXCEPT ![i] = Append(@, v)] /\ ValidTransition(u, v)
      BY <1>2, <2>0 DEF Put
    <2>5. /\ Len(history'[i]) = Len(history[i]) + 1 /\ history'[i][Len(history[i]) + 1] = v
          /\ Len(history[i]) \in Nat
      BY <2>1, <2>2, <2>3, <2>4, VersionAdded, ElementFacts DEF WritebackInv, TypeOK
    <2>6. /\ Version(i) + 1 \in Nat \ {0} /\ Version(i) + 1 \in 1 .. Len(history'[i])
          /\ history'[i][Version(i) + 1] = v
      BY <2>5 DEF Version
    <2>7. /\ exchanges' \in 0 .. ExchangeBound
          /\ call' \in [Calls -> Call \cup {None}]
          /\ \A d \in Calls : call'[d] = call[d] \/ CallOK(d)'
      <3>1. digest \in Payloads /\ digest = v.proposal.payload_digest
        BY <2>1, <2>2 DEF Intent, Proposal
      <3> HIDE DEF digest
      <3> QED
        BY <1>2, <2>2, <2>6, <3>1, EnterFacts DEF Routes
    <2>8. /\ UNCHANGED <<wire, receipts, effects>> /\ observations' = observations
          /\ observations' \in [Intents -> SUBSET {"accepted", "not_accepted"}]
      BY DEF MarkDispatched, WritebackInv, TypeOK
    <2> QED
      BY <2>1, <2>2, <2>3, <2>4, <2>7, <2>8, VersionStep
  <1> QED
    BY <1>1, <1>2 DEF MarkDispatched
-----------------------------------------------------------------------------
\* Provider exchange

\* A handler that ends, or stays with what it marked.
LEMMA CallLeft ==
    ASSUME WritebackInv, NEW c \in Calls, call' = [call EXCEPT ![c] = None]
    PROVE  /\ call' \in [Calls -> Call \cup {None}]
           /\ \A d \in Calls : call'[d] = call[d] \/ CallOK(d)'
  BY DEF WritebackInv, TypeOK, CallOK

LEMMA CallAnswered ==
    ASSUME WritebackInv, NEW c \in Calls, call[c] # None, NEW step \in {"accepted", "not_accepted"},
           Answered(c, step), UNCHANGED history,
           step = "not_accepted" => call[c].route = "recover",
           step = "accepted" =>
               IF call[c].route = "recover" THEN \E r \in receipts' : SameKey(MutationOf(c), r)
               ELSE MutationOf(c) \in receipts'
    PROVE  /\ call' \in [Calls -> Call \cup {None}]
           /\ \A d \in Calls : call'[d] = call[d] \/ CallOK(d)'
  <1> DEFINE x == [call[c] EXCEPT !.step = step]
  <1>1. call[c] \in Call /\ call \in [Calls -> Call \cup {None}]
    BY MarkedFacts DEF WritebackInv, TypeOK
  <1>2. x \in Call
    BY <1>1 DEF Call, Steps
  <1>3. call' = [call EXCEPT ![c] = x]
    BY <1>1 DEF Answered
  <1>4. /\ call' \in [Calls -> Call \cup {None}] /\ call'[c] = x
        /\ \A d \in Calls : d # c => call'[d] = call[d]
    BY <1>1, <1>2, <1>3
  <1>5. /\ call'[c].route = call[c].route /\ call'[c].intent = call[c].intent
        /\ call'[c].version = call[c].version /\ call'[c].step = step
        /\ call'[c].payload_digest = call[c].payload_digest
    BY <1>1, <1>4 DEF Call
  <1>6. Marked(c)' = Marked(c) /\ MutationOf(c)' = MutationOf(c)
    BY <1>5 DEF Marked, MutationOf, KeyOf
  <1>7. CallOK(c)
    BY DEF WritebackInv, CallsInv
  <1>8. CallOK(c)'
    BY <1>5, <1>6, <1>7 DEF CallOK, SameKey
  <1> QED
    BY <1>4, <1>8

\* A step in which only a handler moves.
LEMMA CallStep ==
    ASSUME WritebackInv, UNCHANGED <<history, observations, wire, receipts, effects, exchanges>>,
           call' \in [Calls -> Call \cup {None}],
           \A d \in Calls : call'[d] = call[d] \/ CallOK(d)'
    PROVE  WritebackInv'
  <1>1. /\ exchanges' \in 0 .. ExchangeBound
        /\ observations' \in [Intents -> SUBSET {"accepted", "not_accepted"}]
        /\ wire' \subseteq Mutation
    BY DEF WritebackInv, TypeOK
  <1> QED
    BY <1>1, QuietStep

LEMMA EndsInv ==
    ASSUME WritebackInv, NEW c \in Calls, Abandon(c) \/ PostRefused(c)
    PROVE  WritebackInv'
  <1>1. /\ call' = [call EXCEPT ![c] = None]
        /\ UNCHANGED <<history, observations, wire, receipts, effects, exchanges>>
    BY DEF Abandon, PostRefused
  <1> QED
    BY <1>1, CallLeft, CallStep

LEMMA PostAcceptedInv ==
    ASSUME WritebackInv, NEW c \in Calls, PostAccepted(c)
    PROVE  WritebackInv'
  <1>1. call[c] # None /\ call[c].route # "recover"
    BY DEF PostAccepted, Posting
  <1>2. MutationOf(c) \in Mutation
    BY <1>1, MarkedFacts DEF WritebackInv
  <1>3. Receive(MutationOf(c)) /\ ~Conflicts(MutationOf(c)) /\ Answered(c, "accepted")
        /\ UNCHANGED <<history, observations, wire, exchanges>>
    BY DEF PostAccepted
  <1>4. MutationOf(c) \in receipts'
    BY <1>2, <1>3, ReceiveFacts
  <1>5. /\ call' \in [Calls -> Call \cup {None}]
        /\ \A d \in Calls : call'[d] = call[d] \/ CallOK(d)'
    BY <1>1, <1>3, <1>4, CallAnswered
  <1>6. Authorised(MutationOf(c))
    BY SentIsAuthorised DEF PostAccepted
  <1> QED
    BY <1>2, <1>3, <1>5, <1>6, ReceiveStep

LEMMA PostUnreadableInv ==
    ASSUME WritebackInv, NEW c \in Calls, PostUnreadable(c)
    PROVE  WritebackInv'
  <1>1. MutationOf(c) \in Mutation
    BY MarkedFacts DEF WritebackInv, PostUnreadable, Posting
  <1>2. /\ Receive(MutationOf(c)) /\ call' = [call EXCEPT ![c] = None]
        /\ UNCHANGED <<history, observations, wire, exchanges>>
    BY DEF PostUnreadable
  <1>3. Authorised(MutationOf(c))
    BY SentIsAuthorised DEF PostUnreadable
  <1> QED
    BY <1>1, <1>2, <1>3, CallLeft, ReceiveStep

LEMMA ArrivesLateInv ==
    ASSUME WritebackInv, NEW m \in Mutation, ArrivesLate(m)
    PROVE  WritebackInv'
  <1>1. Authorised(m)
    BY DEF ArrivesLate, WritebackInv, EffectsWereAuthorised, Authorised, Backs
  <1>2. /\ Receive(m) /\ wire' \subseteq wire /\ call' = call
        /\ UNCHANGED <<history, observations, exchanges>>
    BY DEF ArrivesLate
  <1>3. call' \in [Calls -> Call \cup {None}]
    BY <1>2 DEF WritebackInv, TypeOK
  <1> QED
    BY <1>1, <1>2, <1>3, ReceiveStep

LEMMA PostLostInv ==
    ASSUME WritebackInv, NEW c \in Calls, PostLost(c)
    PROVE  WritebackInv'
  <1>1. call[c] # None /\ call[c].step = "exchange"
    BY DEF PostLost, Posting
  <1>2. MutationOf(c) \in Mutation /\ call[c] \in Call
    BY <1>1, MarkedFacts DEF WritebackInv
  <1>3. Authorised(MutationOf(c))
    BY SentIsAuthorised DEF PostLost
  <1>4. /\ UNCHANGED <<history, observations, receipts, effects, exchanges>>
        /\ wire' = wire \cup {MutationOf(c)}
    BY DEF PostLost
  <1>5. /\ exchanges' \in 0 .. ExchangeBound
        /\ observations' \in [Intents -> SUBSET {"accepted", "not_accepted"}]
        /\ wire' \subseteq Mutation /\ call \in [Calls -> Call \cup {None}]
    BY <1>2, <1>4 DEF WritebackInv, TypeOK
  <1>6. /\ call' \in [Calls -> Call \cup {None}]
        /\ \A d \in Calls : call'[d] = call[d] \/ CallOK(d)'
    <2>1. CASE call[c].attempts + 1 < MaximumAttempts
      <3> DEFINE x == [call[c] EXCEPT !.attempts = call[c].attempts + 1]
      <3>0. call' = [call EXCEPT ![c] = IF call[c].attempts + 1 < MaximumAttempts
                                        THEN x ELSE None]
        BY DEF PostLost
      <3>1. call' = [call EXCEPT ![c] = x]
        BY <2>1, <3>0
      <3>2. x \in Call
        BY <1>2, <2>1, WritebackAssumption DEF Call
      <3>3. /\ call' \in [Calls -> Call \cup {None}] /\ call'[c] = x
            /\ \A d \in Calls : d # c => call'[d] = call[d]
        BY <1>5, <3>1, <3>2
      <3>4. /\ call'[c].route = call[c].route /\ call'[c].intent = call[c].intent
            /\ call'[c].version = call[c].version /\ call'[c].step = "exchange"
            /\ call'[c].payload_digest = call[c].payload_digest
        BY <1>1, <1>2, <3>3 DEF Call
      <3>5. Marked(c)' = Marked(c)
        BY <1>4, <3>4 DEF Marked
      <3>6. CallOK(c)
        BY DEF WritebackInv, CallsInv
      <3>7. CallOK(c)'
        BY <1>1, <1>4, <3>4, <3>5, <3>6 DEF CallOK
      <3> QED
        BY <3>3, <3>7
    <2>2. CASE ~(call[c].attempts + 1 < MaximumAttempts)
      <3>1. call' = [call EXCEPT ![c] = None]
        BY <2>2 DEF PostLost
      <3> QED
        BY <3>1, CallLeft
    <2> QED
      BY <2>1, <2>2
  <1> QED
    BY <1>3, <1>4, <1>5, <1>6, QuietStep

LEMMA LookupInv ==
    ASSUME WritebackInv, NEW c \in Calls, Lookup(c)
    PROVE  WritebackInv'
  <1>1. /\ call[c] # None /\ call[c].route = "recover"
        /\ UNCHANGED <<history, observations, wire, receipts, effects, exchanges>>
    BY DEF Lookup
  <1>2. CASE (\E r \in receipts : SameKey(MutationOf(c), r)) /\ Answered(c, "accepted")
    <2>1. /\ call' \in [Calls -> Call \cup {None}]
          /\ \A d \in Calls : call'[d] = call[d] \/ CallOK(d)'
      BY <1>1, <1>2, CallAnswered
    <2> QED
      BY <1>1, <2>1, CallStep
  <1>3. CASE Answered(c, "not_accepted")
    <2>1. /\ call' \in [Calls -> Call \cup {None}]
          /\ \A d \in Calls : call'[d] = call[d] \/ CallOK(d)'
      BY <1>1, <1>3, CallAnswered
    <2> QED
      BY <1>1, <2>1, CallStep
  <1> QED
    BY <1>2, <1>3 DEF Lookup
-----------------------------------------------------------------------------
\* Last step of a handler with provider I/O

\* What a handler that is about to persist knows of the version it marked.
LEMMA PersistFacts ==
    ASSUME WritebackInv, NEW c \in Calls, call[c] # None
    PROVE  /\ call[c].intent \in Intents /\ history[call[c].intent] # <<>>
           /\ Marked(c) \in Intent /\ VersionOK(Marked(c)) /\ MutationOf(c) \in Mutation
           /\ Version(call[c].intent) = call[c].version => Current(call[c].intent) = Marked(c)
  <1>1. /\ call[c].intent \in Intents /\ history[call[c].intent] # <<>>
        /\ call[c].version \in 1 .. Len(history[call[c].intent])
        /\ Marked(c) \in Intent /\ MutationOf(c) \in Mutation
    BY MarkedFacts DEF WritebackInv
  <1>2. VersionOK(Marked(c))
    BY <1>1 DEF WritebackInv, VersionsInv, Marked
  <1>3. Version(call[c].intent) = call[c].version => Current(call[c].intent) = Marked(c)
    BY DEF Current, Marked
  <1> QED
    BY <1>1, <1>2, <1>3

\* A handler that persists a version and ends.
LEMMA PersistPut ==
    ASSUME WritebackInv, NEW c \in Calls, call[c] # None, NEW v \in Intent,
           Put(call[c].intent, call[c].version, v), VersionOK(v),
           NEW i \in Intents, i = call[c].intent, VersionRecorded(i, v)',
           call' = [call EXCEPT ![c] = None],
           observations' \in [Intents -> SUBSET {"accepted", "not_accepted"}],
           \A j \in Intents : observations[j] \subseteq observations'[j],
           UNCHANGED <<wire, receipts, effects, exchanges>>
    PROVE  WritebackInv'
  <1>1. history[i] # <<>>
    BY PersistFacts
  <1>2. history' = [history EXCEPT ![i] = Append(@, v)] /\ ValidTransition(Current(i), v)
    BY DEF Put
  <1>3. exchanges' \in 0 .. ExchangeBound
    BY DEF WritebackInv, TypeOK
  <1>4. /\ call' \in [Calls -> Call \cup {None}]
        /\ \A d \in Calls : call'[d] = call[d] \/ CallOK(d)'
    BY CallLeft
  <1> QED
    BY <1>1, <1>2, <1>3, <1>4, VersionStep

LEMMA PersistAcknowledgementInv ==
    ASSUME WritebackInv, NEW c \in Calls, PersistAcknowledgement(c)
    PROVE  WritebackInv'
  <1>0. PICK i : i = call[c].intent
    OBVIOUS
  <1>1. /\ call[c] # None /\ call[c].route = "dispatch" /\ call[c].step # "exchange"
        /\ call' = [call EXCEPT ![c] = None]
        /\ UNCHANGED <<observations, wire, receipts, effects, exchanges>>
    BY DEF PersistAcknowledgement, Persisting
  <1>2. /\ i \in Intents /\ Marked(c) \in Intent /\ VersionOK(Marked(c)) /\ call[c] \in Call
    BY <1>0, <1>1, PersistFacts, MarkedFacts DEF WritebackInv
  <1>3. CASE UNCHANGED history
    BY <1>1, <1>3, CallLeft, CallStep
  <1>4. CASE Put(i, call[c].version, acknowledge_writeback(Marked(c), TRUE, "post"))
    <2> DEFINE u == Marked(c)
    <2>0. PICK v : v = acknowledge_writeback(u, TRUE, "post")
      OBVIOUS
    <2>1. /\ v \in Intent /\ v.status = "acknowledged" /\ v.acknowledgement.source = "post"
          /\ v.proposal = u.proposal /\ v.approval = u.approval
      BY <1>2, <2>0 DEF acknowledge_writeback, Intent, Statuses, Acknowledgement, Sources
    <2>2. /\ u.status = "dispatched" /\ MutationOf(c) \in receipts
          /\ call[c].payload_digest = u.proposal.payload_digest
      BY <1>1, <1>2 DEF WritebackInv, CallsInv, CallOK, Call, Steps
    <2>3. VersionOK(v)
      BY <1>2, <2>1, <2>2 DEF VersionOK
    <2>4. MutationOf(c) = [key |-> v.proposal.idempotency_key, compensation |-> FALSE,
                           payload_digest |-> v.proposal.payload_digest]
      BY <1>1, <2>1, <2>2 DEF MutationOf, KeyOf
    <2>5. \E n \in 1 .. Len(effects) : effects[n] = MutationOf(c)
      BY <2>2 DEF WritebackInv, ReceiptsInv, Applied
    <2>6. PICK m : m = MutationOf(c)
      OBVIOUS
    <2>7. Applied(m)'
      BY <1>1, <2>5, <2>6 DEF Applied
    <2>8. VersionRecorded(i, v)'
      BY <2>1, <2>4, <2>6, <2>7 DEF VersionRecorded
    <2>9. observations' \in [Intents -> SUBSET {"accepted", "not_accepted"}]
      BY <1>1 DEF WritebackInv, TypeOK
    <2> QED
      BY <1>0, <1>1, <1>2, <1>4, <2>0, <2>1, <2>3, <2>8, <2>9, PersistPut
  <1> QED
    BY <1>0, <1>3, <1>4 DEF PersistAcknowledgement

LEMMA PersistCompensationInv ==
    ASSUME WritebackInv, NEW c \in Calls, PersistCompensation(c)
    PROVE  WritebackInv'
  <1>0. PICK i : i = call[c].intent
    OBVIOUS
  <1>1. /\ call[c] # None /\ call[c].route = "compensate" /\ call[c].step # "exchange"
        /\ call' = [call EXCEPT ![c] = None]
        /\ UNCHANGED <<observations, wire, receipts, effects, exchanges>>
    BY DEF PersistCompensation, Persisting
  <1>2. /\ i \in Intents /\ Marked(c) \in Intent /\ VersionOK(Marked(c)) /\ call[c] \in Call
    BY <1>0, <1>1, PersistFacts, MarkedFacts DEF WritebackInv
  <1>3. CASE UNCHANGED history
    BY <1>1, <1>3, CallLeft, CallStep
  <1>4. CASE Put(i, call[c].version, complete_compensation(Marked(c)))
    <2> DEFINE u == Marked(c)
    <2>0. PICK v : v = complete_compensation(u)
      OBVIOUS
    <2>1. /\ v \in Intent /\ v.status = "compensated" /\ v.acknowledgement.source = "post"
          /\ v.proposal = u.proposal /\ v.approval = u.approval
          /\ v.compensation_requested_by = u.compensation_requested_by
      BY <1>2, <2>0 DEF complete_compensation, Intent, Statuses, Acknowledgement, Sources
    <2>2. u.status = "compensation_requested" /\ MutationOf(c) \in receipts
      BY <1>1, <1>2 DEF WritebackInv, CallsInv, CallOK, Call, Steps
    <2>3. VersionOK(v)
      BY <1>2, <2>1, <2>2 DEF VersionOK
    <2>4. /\ MutationOf(c) = [key |-> CompensationKey[v.proposal.idempotency_key],
                              compensation |-> TRUE, payload_digest |-> call[c].payload_digest]
          /\ call[c].payload_digest \in Payloads
      BY <1>1, <1>2, <2>1 DEF MutationOf, KeyOf, Call
    <2>5. \E n \in 1 .. Len(effects) : effects[n] = MutationOf(c)
      BY <2>2 DEF WritebackInv, ReceiptsInv, Applied
    <2>6. PICK m : m = MutationOf(c)
      OBVIOUS
    <2>7. Applied(m)'
      BY <1>1, <2>5, <2>6 DEF Applied
    <2>8. VersionRecorded(i, v)'
      BY <2>1, <2>4, <2>6, <2>7 DEF VersionRecorded
    <2>9. observations' \in [Intents -> SUBSET {"accepted", "not_accepted"}]
      BY <1>1 DEF WritebackInv, TypeOK
    <2> QED
      BY <1>0, <1>1, <1>2, <1>4, <2>0, <2>1, <2>3, <2>8, <2>9, PersistPut
  <1> QED
    BY <1>0, <1>3, <1>4 DEF PersistCompensation

\* The observation is kept before anything is concluded from it.
LEMMA ObservationKept ==
    ASSUME WritebackInv, NEW i \in Intents, NEW outcome \in {"accepted", "not_accepted"},
           StoreObservation(i, outcome)
    PROVE  /\ observations' \in [Intents -> SUBSET {"accepted", "not_accepted"}]
           /\ \A j \in Intents : observations[j] \subseteq observations'[j]
           /\ outcome \in observations'[i]
  BY DEF WritebackInv, TypeOK, StoreObservation

LEMMA PersistRecoveryInv ==
    ASSUME WritebackInv, NEW c \in Calls, PersistRecovery(c)
    PROVE  WritebackInv'
  <1>0. PICK i : i = call[c].intent
    OBVIOUS
  <1>1. /\ call[c] # None /\ call[c].route = "recover" /\ call[c].step # "exchange"
        /\ call' = [call EXCEPT ![c] = None]
        /\ UNCHANGED <<wire, receipts, effects, exchanges>>
    BY DEF PersistRecovery, Persisting
  <1>2. /\ i \in Intents /\ Marked(c) \in Intent /\ VersionOK(Marked(c)) /\ call[c] \in Call
        /\ MutationOf(c) \in Mutation
        /\ Version(i) = call[c].version => Current(i) = Marked(c)
    BY <1>0, <1>1, PersistFacts, MarkedFacts DEF WritebackInv
  <1>3. call[c].step \in {"accepted", "not_accepted"}
    BY <1>1, <1>2 DEF Call, Steps
  <1>4. CASE UNCHANGED <<history, observations>>
    BY <1>1, <1>4, CallLeft, CallStep
  <1>5. CASE UNCHANGED history /\ StoreObservation(i, call[c].step)
    <2>1. /\ observations' \in [Intents -> SUBSET {"accepted", "not_accepted"}]
          /\ \A j \in Intents : observations[j] \subseteq observations'[j]
      BY <1>2, <1>3, <1>5, ObservationKept
    <2>2. exchanges' \in 0 .. ExchangeBound /\ wire' \subseteq Mutation
      BY <1>1 DEF WritebackInv, TypeOK
    <2>3. /\ call' \in [Calls -> Call \cup {None}]
          /\ \A d \in Calls : call'[d] = call[d] \/ CallOK(d)'
      BY <1>1, CallLeft
    <2> QED
      BY <1>1, <1>5, <2>1, <2>2, <2>3, QuietStep
  <1>6. CASE /\ Version(i) = call[c].version /\ call[c].step = "accepted"
             /\ StoreObservation(i, call[c].step)
             /\ Put(i, Version(i), acknowledge_writeback(Current(i), TRUE, "lookup"))
    <2> DEFINE u == Marked(c)
    <2>0. PICK v : v = acknowledge_writeback(u, TRUE, "lookup")
      OBVIOUS
    <2>1. /\ v \in Intent /\ v.status = "acknowledged" /\ v.acknowledgement.source = "lookup"
          /\ v.proposal = u.proposal /\ v.approval = u.approval
      BY <1>2, <2>0 DEF acknowledge_writeback, Intent, Statuses, Acknowledgement, Sources
    <2>2. u.status = "dispatched" /\ \E r \in receipts : SameKey(MutationOf(c), r)
      BY <1>1, <1>6 DEF WritebackInv, CallsInv, CallOK
    <2>3. VersionOK(v)
      BY <1>2, <2>1, <2>2 DEF VersionOK
    <2>4. PICK r \in receipts : SameKey(MutationOf(c), r)
      BY <2>2
    <2>5. r \in Mutation /\ Applied(r)
      BY DEF WritebackInv, TypeOK, ReceiptsInv
    <2>6. r.key = v.proposal.idempotency_key
      BY <1>1, <2>1, <2>4 DEF SameKey, MutationOf, KeyOf
    <2>7. \E n \in 1 .. Len(effects') : effects'[n].key = v.proposal.idempotency_key
      BY <1>1, <2>5, <2>6 DEF Applied
    <2>8. /\ observations' \in [Intents -> SUBSET {"accepted", "not_accepted"}]
          /\ \A j \in Intents : observations[j] \subseteq observations'[j]
          /\ "accepted" \in observations'[i]
      BY <1>2, <1>6, ObservationKept
    <2>9. VersionRecorded(i, v)'
      BY <2>1, <2>7, <2>8 DEF VersionRecorded
    <2> QED
      BY <1>0, <1>1, <1>2, <1>6, <2>0, <2>1, <2>3, <2>8, <2>9, PersistPut
  <1> QED
    BY <1>0, <1>4, <1>5, <1>6, <1>3 DEF PersistRecovery
-----------------------------------------------------------------------------
\* The invariant

LEMMA InitInv == Init => WritebackInv
  <1> SUFFICES ASSUME Init PROVE WritebackInv
    OBVIOUS
  <1>1. /\ \A i \in Intents : history[i] = <<>> /\ Len(history[i]) = 0
        /\ effects = <<>> /\ Len(effects) = 0 /\ wire = {} /\ receipts = {}
        /\ \A c \in Calls : call[c] = None
    BY DEF Init
  <1>2. TypeOK
    BY WritebackAssumption DEF Init, TypeOK
  <1>3. HistoryIsLegal /\ VersionsInv /\ RecordedWasApplied
    BY <1>1 DEF HistoryIsLegal, VersionsInv, RecordedWasApplied
  <1>4. CallsInv
    BY <1>1 DEF CallsInv, CallOK
  <1>5. ReceiptsInv /\ OneEffectPerKey
    BY <1>1 DEF ReceiptsInv, OneEffectPerKey
  <1>6. EffectsWereAuthorised
    <2>1. ToSet(effects) = {}
      BY <1>1 DEF ToSet
    <2> QED
      BY <1>1, <2>1 DEF EffectsWereAuthorised
  <1> QED
    BY <1>2, <1>3, <1>4, <1>5, <1>6 DEF WritebackInv

LEMMA NextInv == WritebackInv /\ [Next]_vars => WritebackInv'
  <1> SUFFICES ASSUME WritebackInv, [Next]_vars PROVE WritebackInv'
    OBVIOUS
  <1>1. CASE UNCHANGED vars
    <2>1. call' \in [Calls -> Call \cup {None}]
      BY <1>1 DEF vars, WritebackInv, TypeOK
    <2> QED
      BY <1>1, <2>1, CallStep DEF vars
  <1>2. ASSUME NEW i \in Intents, NEW proposal \in Proposals, Propose(i, proposal)
        PROVE  WritebackInv'
    BY <1>2, ProposeInv
  <1>3. ASSUME NEW i \in Intents, NEW actor \in Actors,
               Approve(i, actor) \/ RequestCompensation(i, actor)
        PROVE  WritebackInv'
    BY <1>3, ApproveInv, RequestCompensationInv
  <1>4. ASSUME NEW i \in Intents, NEW accepted \in BOOLEAN, Acknowledge(i, accepted)
        PROVE  WritebackInv'
    BY <1>4, AcknowledgeInv
  <1>5. ASSUME NEW i \in Intents, NEW c \in Calls, MarkDispatched(c, i)
        PROVE  WritebackInv'
    BY <1>5, MarkDispatchedInv
  <1>6. ASSUME NEW i \in Intents, NEW c \in Calls, LoadForRecovery(c, i)
        PROVE  WritebackInv'
    BY <1>6, LoadForRecoveryInv
  <1>7. ASSUME NEW i \in Intents, NEW c \in Calls, NEW digest \in Payloads,
               LoadForCompensation(c, i, digest)
        PROVE  WritebackInv'
    BY <1>7, LoadInv DEF LoadForCompensation, Routes
  <1>8. ASSUME NEW c \in Calls, Abandon(c) \/ PostRefused(c)
        PROVE  WritebackInv'
    BY <1>8, EndsInv
  <1>9. ASSUME NEW c \in Calls,
               Lookup(c) \/ PostAccepted(c) \/ PostUnreadable(c) \/ PostLost(c)
        PROVE  WritebackInv'
    BY <1>9, LookupInv, PostAcceptedInv, PostUnreadableInv, PostLostInv
  <1>10. ASSUME NEW c \in Calls,
                PersistAcknowledgement(c) \/ PersistRecovery(c) \/ PersistCompensation(c)
         PROVE  WritebackInv'
    BY <1>10, PersistAcknowledgementInv, PersistRecoveryInv, PersistCompensationInv
  <1>11. ASSUME NEW m \in Mutation, ArrivesLate(m)
         PROVE  WritebackInv'
    BY <1>11, ArrivesLateInv
  <1> QED
    BY <1>1, <1>2, <1>3, <1>4, <1>5, <1>6, <1>7, <1>8, <1>9, <1>10, <1>11 DEF Next

LEMMA InvariantHolds == Spec => []WritebackInv
  BY InitInv, NextInv, PTL DEF Spec

\* Intent histories, handlers, requests in flight and the receiver keep their types.
THEOREM WritebackTypes == Spec => []TypeOK
  <1>1. WritebackInv => TypeOK
    BY DEF WritebackInv
  <1> QED
    BY <1>1, InvariantHolds, PTL

\* put and its trigger keep every intent on one path of the lifecycle, for any number of
\* handlers that persist with versions they read before their provider exchange.
THEOREM LegalHistory == Spec => []HistoryIsLegal
  <1>1. WritebackInv => HistoryIsLegal
    BY DEF WritebackInv
  <1> QED
    BY <1>1, InvariantHolds, PTL

\* The receiver's receipt makes a key's effect happen once over any number of retries, late
\* requests and handlers.
THEOREM EffectOnce == Spec => []OneEffectPerKey
  <1>1. WritebackInv => OneEffectPerKey
    BY DEF WritebackInv
  <1> QED
    BY <1>1, InvariantHolds, PTL

\* What the network path records happened at the provider: a POST's acknowledgement is of the
\* intent's own mutation, a lookup's of some mutation under its key, and a compensated intent
\* has a compensation applied under its compensation key, of a payload no version binds.
THEOREM RecordsTrue == Spec => []RecordedWasApplied
  <1>1. WritebackInv => RecordedWasApplied
    BY DEF WritebackInv
  <1> QED
    BY <1>1, InvariantHolds, PTL

\* What reaches the provider, or may still, belongs to an intent that different actors requested
\* and approved.  An ordinary mutation carries the approved payload; of a compensation the
\* intent and the second request are authorised, its payload is not.
THEOREM TwoPersonEffects == Spec => []EffectsWereAuthorised
  <1>1. WritebackInv => EffectsWereAuthorised
    BY DEF WritebackInv
  <1> QED
    BY <1>1, InvariantHolds, PTL
=============================================================================
