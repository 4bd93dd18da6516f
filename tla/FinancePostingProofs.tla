-------------------------- MODULE FinancePostingProofs --------------------------
(***************************************************************************)
(* Proofs about FinancePosting, for every finite set of entry numbers and  *)
(* every set of users, commands, amounts, periods and dates.               *)
(*                                                                         *)
(* That the store verifies is nearly inductive: it needs that an entry's   *)
(* reversal link names a retained effect, that no two effects are of one   *)
(* entry and that a pending void names an entry. That posting is           *)
(* independent needs who wrote an entry, which no table keeps: the author  *)
(* of an entry with a known preparer is that preparer.                     *)
(***************************************************************************)
EXTENDS FinancePosting, FiniteSetTheorems, TLAPS

Posted == {effects[k].entry : k \in 1 .. Len(effects)}

\* A reversal undoes one original exactly, and no other reversal does.
ReversalOK(k) ==
    effects[k].reverses # None =>
        /\ effects[k].reverses \in 1 .. Len(effects)
        /\ effects[effects[k].reverses].reverses = None
        /\ Inverts(effects[k].snapshot, effects[effects[k].reverses].snapshot)
        /\ \A j \in 1 .. Len(effects) : effects[j].reverses = effects[k].reverses => j = k

EntryOK(e) ==
    entry[e] # None =>
        /\ entry[e].snapshot.reverses # None => entry[e].snapshot.reverses \in 1 .. Len(effects)
        /\ entry[e].snapshot.preparer # None => author[e] = entry[e].snapshot.preparer

PostingInv ==
    /\ TypeOK
    /\ Cardinality(Posted) = Len(effects)
    /\ \A k \in 1 .. Len(effects) : Verified(k) /\ ReversalOK(k)
    /\ \A e \in Entries : EntryOK(e)
    /\ \A c \in Commands : commands[c] # None => ReceiptVerified(commands[c])
    /\ voiding # None => entry[voiding] # None
-----------------------------------------------------------------------------
\* Facts about the state

LEMMA EffectFacts ==
    ASSUME TypeOK
    PROVE  /\ Len(effects) \in Nat /\ DOMAIN effects = 1 .. Len(effects)
           /\ \A k \in 1 .. Len(effects) : effects[k] \in Effect /\ effects[k].entry \in Entries
           /\ Posted \subseteq Entries
  <1>1. effects \in Seq(Effect)
    BY DEF TypeOK
  <1>2. \A k \in 1 .. Len(effects) : effects[k] \in Effect
    BY <1>1
  <1> QED
    BY <1>1, <1>2 DEF Effect, Posted

LEMMA Unposted ==
    ASSUME TypeOK, NEW e \in Entries
    PROVE  PostingsOf(e) = {} <=> \A k \in 1 .. Len(effects) : effects[k].entry # e
  BY EffectFacts DEF PostingsOf

\* An entry that does not exist, or is not Validated, has no posting.
LEMMA PostedIsValidated ==
    ASSUME PostingInv, NEW e \in Entries, entry[e] = None \/ entry[e].status # "Validated"
    PROVE  PostingsOf(e) = {}
  <1>1. \A k \in 1 .. Len(effects) : Verified(k)
    BY DEF PostingInv
  <1>2. \A k \in 1 .. Len(effects) : effects[k].entry # e
    BY <1>1 DEF Verified
  <1> QED
    BY <1>2, Unposted DEF PostingInv
-----------------------------------------------------------------------------
\* Steps

\* A step that changes one entry without a posting and keeps its preparer and its link.
LEMMA EntryStep ==
    ASSUME PostingInv, NEW e \in Entries, NEW x \in Entry,
           PostingsOf(e) = {},
           entry' = [entry EXCEPT ![e] = x],
           author' \in [Entries -> Actors \cup {None}],
           \A d \in Entries : d # e => author'[d] = author[d],
           entry[e] # None => /\ x.snapshot.preparer = entry[e].snapshot.preparer
                              /\ x.snapshot.reverses = entry[e].snapshot.reverses,
           x.snapshot.reverses # None => x.snapshot.reverses \in 1 .. Len(effects),
           x.snapshot.preparer # None => author'[e] = x.snapshot.preparer,
           UNCHANGED <<effects, period>>,
           commands' \in [Commands -> Receipt \cup {None}],
           \A c \in Commands :
               commands'[c] = commands[c] \/ ReceiptVerified(commands[c])',
           voiding' \in {voiding, None}
    PROVE  PostingInv'
  <1>1. TypeOK /\ entry \in [Entries -> Entry \cup {None}]
    BY DEF PostingInv, TypeOK
  <1>2. /\ entry' \in [Entries -> Entry \cup {None}] /\ entry'[e] = x
        /\ \A d \in Entries : d # e => entry'[d] = entry[d]
    BY <1>1
  <1>3. TypeOK' /\ (voiding' # None => entry'[voiding'] # None)
    BY <1>1, <1>2, PostingNoneAssumption DEF TypeOK, PostingInv
  <1>4. \A k \in 1 .. Len(effects) : effects[k].entry \in Entries \ {e}
    BY <1>1, EffectFacts, Unposted
  <1>5. \A k \in 1 .. Len(effects) : Verified(k)' /\ ReversalOK(k)'
    <2>1. \A k \in 1 .. Len(effects) : entry'[effects[k].entry] = entry[effects[k].entry]
      BY <1>2, <1>4
    <2> QED
      BY <2>1 DEF PostingInv, Verified, ReversalOK, Inverts
  <1>6. \A d \in Entries : EntryOK(d)'
    BY <1>2 DEF PostingInv, EntryOK
  <1>7. x # None
    BY PostingNoneAssumption
  <1>8. ASSUME NEW c \in Commands, commands'[c] # None, commands'[c] = commands[c]
        PROVE  ReceiptVerified(commands[c])'
    <2> DEFINE r == commands[c]
    <2>1. r \in Receipt /\ ReceiptVerified(r)
      BY <1>1, <1>8 DEF PostingInv, TypeOK
    <2>2. CASE r.operation = "post"
      <3>1. r.result \in DOMAIN effects /\ effects[r.result].actor = r.actor
            /\ effects[r.result].entry = r.entry
        BY <2>1, <2>2 DEF ReceiptVerified
      <3>2. Verified(r.result)'
        BY <1>1, <1>5, <1>8, <3>1, EffectFacts DEF Verified
      <3> QED
        BY <1>8, <2>2, <3>1, <3>2 DEF ReceiptVerified
    <2>3. CASE r.operation # "post"
      <3>1. r.result \in Entries
        BY <2>1, <2>3 DEF Receipt
      <3>2. /\ entry[r.result] # None /\ entry[r.result].snapshot.preparer = r.actor
            /\ entry[r.result].snapshot.reverses = r.effect /\ r.effect \in DOMAIN effects
        BY <2>1, <2>3 DEF ReceiptVerified
      <3>3. /\ entry'[r.result] # None /\ entry'[r.result].snapshot.preparer = r.actor
            /\ entry'[r.result].snapshot.reverses = r.effect
        BY <1>2, <1>7, <3>1, <3>2
      <3>4. Verified(r.effect)'
        BY <1>1, <1>5, <1>8, <3>2, EffectFacts DEF Verified
      <3> QED
        BY <1>8, <2>3, <3>2, <3>3, <3>4 DEF ReceiptVerified
    <2> QED
      BY <2>2, <2>3
  <1>9. \A c \in Commands : commands'[c] # None => ReceiptVerified(commands[c])'
    BY <1>8
  <1>10. Cardinality(Posted)' = Len(effects)'
    BY DEF PostingInv, Posted
  <1> QED
    BY <1>3, <1>5, <1>6, <1>9, <1>10 DEF PostingInv

\* A step that changes only periods or the pending void.
LEMMA OutsideStep ==
    ASSUME PostingInv, UNCHANGED <<entry, author, effects, commands>>,
           period' \in [Periods -> [status : PeriodStatuses, window : Windows]],
           voiding' \in Entries \cup {None}, voiding' # None => entry[voiding'] # None
    PROVE  PostingInv'
  <1>1. TypeOK'
    BY DEF PostingInv, TypeOK
  <1>2. Cardinality(Posted)' = Len(effects)'
    BY DEF PostingInv, Posted
  <1>3. \A k \in 1 .. Len(effects) : Verified(k)' /\ ReversalOK(k)'
    BY DEF PostingInv, Verified, ReversalOK, Inverts
  <1>4. \A e \in Entries : EntryOK(e)'
    BY DEF PostingInv, EntryOK
  <1>5. \A c \in Commands : commands'[c] # None => ReceiptVerified(commands[c])'
    BY DEF PostingInv, ReceiptVerified, Verified
  <1> QED
    BY <1>1, <1>2, <1>3, <1>4, <1>5 DEF PostingInv
-----------------------------------------------------------------------------
\* One lemma per action

LEMMA CreateEntryKeeps ==
    ASSUME PostingInv, NEW e \in Entries, NEW a \in Actors, NEW authenticated \in BOOLEAN,
           NEW n \in Amounts, NEW p \in Periods, NEW d \in Dates, NEW s \in Sources,
           CreateEntry(e, a, authenticated, n, p, d, s)
    PROVE  PostingInv'
  <1> DEFINE preparer == IF authenticated THEN a ELSE None
             content == [entry |-> e, amount |-> n, period |-> p, date |-> d, source |-> s,
                         preparer |-> preparer, reverses |-> None]
             x == [snapshot |-> content, status |-> "Draft", created_by |-> a,
                   validator |-> None, digest |-> None]
  <1>1. TypeOK
    BY DEF PostingInv
  <1>2. content \in Snapshot
    BY InputsAssumption DEF Snapshot
  <1>3. x \in Entry
    BY <1>2 DEF Entry, EntryStatuses
  <1>4. /\ entry[e] = None /\ entry' = [entry EXCEPT ![e] = x]
        /\ author' = [author EXCEPT ![e] = a]
        /\ UNCHANGED <<effects, commands, period, voiding>>
    BY DEF CreateEntry, SaveDraft
  <1>5. PostingsOf(e) = {}
    BY <1>4, PostedIsValidated
  <1>6. /\ author' \in [Entries -> Actors \cup {None}] /\ author'[e] = a
        /\ \A f \in Entries : f # e => author'[f] = author[f]
    BY <1>1, <1>4 DEF TypeOK
  <1>7. x.snapshot.reverses = None /\ (x.snapshot.preparer # None => x.snapshot.preparer = a)
    OBVIOUS
  <1>8. /\ commands' \in [Commands -> Receipt \cup {None}]
        /\ \A c \in Commands : commands'[c] = commands[c]
        /\ voiding' \in {voiding, None}
    BY <1>1, <1>4 DEF TypeOK
  <1> HIDE DEF x
  <1> QED
    BY <1>3, <1>4, <1>5, <1>6, <1>7, <1>8, EntryStep

LEMMA ReplaceEntryKeeps ==
    ASSUME PostingInv, NEW e \in Entries, NEW a \in Actors, NEW authenticated \in BOOLEAN,
           NEW n \in Amounts, NEW p \in Periods, NEW d \in Dates, NEW s \in Sources,
           ReplaceEntry(e, a, authenticated, n, p, d, s)
    PROVE  PostingInv'
  <1>1. TypeOK /\ EntryOK(e)
    BY DEF PostingInv
  <1>2. PICK old : old = entry[e]
    OBVIOUS
  <1> DEFINE content == [old.snapshot EXCEPT !.amount = n, !.period = p, !.date = d,
                                             !.source = s]
             x == [old EXCEPT !.snapshot = content]
  <1>3. old # None /\ old \in Entry /\ old.snapshot \in Snapshot
    BY <1>1, <1>2 DEF TypeOK, ReplaceEntry, Entry
  <1>4. /\ content \in Snapshot /\ content.preparer = old.snapshot.preparer
        /\ content.reverses = old.snapshot.reverses
    BY <1>3, InputsAssumption DEF Snapshot
  <1>5. x \in Entry /\ x.snapshot = content
    BY <1>3, <1>4 DEF Entry
  <1>6. x = [old EXCEPT !.snapshot.amount = n, !.snapshot.period = p,
                        !.snapshot.date = d, !.snapshot.source = s]
    BY <1>3 DEF Entry, Snapshot
  <1>7. /\ entry' = [entry EXCEPT ![e] = x] /\ author' = [author EXCEPT ![e] = a]
        /\ UNCHANGED <<effects, commands, period, voiding>>
        /\ old.snapshot.preparer # None => old.snapshot.preparer = a
        /\ PostingsOf(e) = {}
    BY <1>2, <1>6 DEF ReplaceEntry, SaveDraft, HeaderUpdatable
  <1>8. /\ author' \in [Entries -> Actors \cup {None}] /\ author'[e] = a
        /\ \A f \in Entries : f # e => author'[f] = author[f]
        /\ commands' \in [Commands -> Receipt \cup {None}]
        /\ \A c \in Commands : commands'[c] = commands[c]
        /\ voiding' \in {voiding, None}
    BY <1>1, <1>7 DEF TypeOK
  <1>9. old.snapshot.reverses # None => old.snapshot.reverses \in 1 .. Len(effects)
    BY <1>1, <1>2, <1>3 DEF EntryOK
  <1>10. /\ x.snapshot.preparer = old.snapshot.preparer
         /\ x.snapshot.reverses = old.snapshot.reverses
    BY <1>4, <1>5
  <1> HIDE DEF x
  <1> QED
    BY <1>2, <1>5, <1>7, <1>8, <1>9, <1>10, EntryStep

\* A review or a void: only the status, the validator and the digest of an entry change.
LEMMA StatusKeeps ==
    ASSUME PostingInv, NEW e \in Entries, NEW s \in EntryStatuses,
           NEW v \in Actors \cup {None}, NEW g \in Snapshot \cup {None},
           entry[e] # None, PostingsOf(e) = {},
           entry' = [entry EXCEPT ![e] = [entry[e] EXCEPT !.status = s, !.validator = v,
                                                          !.digest = g]],
           UNCHANGED <<author, effects, commands, period>>,
           voiding' \in {voiding, None}
    PROVE  PostingInv'
  <1>1. TypeOK /\ EntryOK(e)
    BY DEF PostingInv
  <1>2. PICK old : old = entry[e]
    OBVIOUS
  <1> DEFINE x == [old EXCEPT !.status = s, !.validator = v, !.digest = g]
  <1>3. old \in Entry
    BY <1>1, <1>2 DEF TypeOK
  <1>4. x \in Entry /\ x.snapshot = old.snapshot
    BY <1>3 DEF Entry
  <1>5. entry' = [entry EXCEPT ![e] = x]
    BY <1>2
  <1>6. /\ author' \in [Entries -> Actors \cup {None}]
        /\ \A f \in Entries : author'[f] = author[f]
        /\ commands' \in [Commands -> Receipt \cup {None}]
        /\ \A c \in Commands : commands'[c] = commands[c]
    BY <1>1 DEF TypeOK
  <1>7. /\ old.snapshot.reverses # None => old.snapshot.reverses \in 1 .. Len(effects)
        /\ old.snapshot.preparer # None => author'[e] = old.snapshot.preparer
    BY <1>1, <1>2, <1>6 DEF EntryOK
  <1> HIDE DEF x
  <1> QED
    BY <1>2, <1>4, <1>5, <1>6, <1>7, EntryStep

LEMMA ValidateEntryKeeps ==
    ASSUME PostingInv, NEW e \in Entries, NEW a \in Actors, NEW authenticated \in BOOLEAN,
           ValidateEntry(e, a, authenticated)
    PROVE  PostingInv'
  <1> DEFINE sealed == authenticated /\ entry[e].snapshot.preparer # None
  <1>1. TypeOK
    BY DEF PostingInv
  <1>2. entry[e] # None /\ PostingsOf(e) = {}
    BY DEF ValidateEntry, HeaderUpdatable
  <1>3. entry[e] \in Entry /\ entry[e].snapshot \in Snapshot
    BY <1>1, <1>2 DEF TypeOK, Entry
  <1>4. PICK v \in Actors \cup {None} : v = IF sealed THEN a ELSE None
    OBVIOUS
  <1>5. PICK g \in Snapshot \cup {None} : g = IF sealed THEN entry[e].snapshot ELSE None
    BY <1>3
  <1>6. entry' = [entry EXCEPT ![e] = [entry[e] EXCEPT !.status = "Validated",
                                                       !.validator = v, !.digest = g]]
    BY <1>1, <1>3, <1>4, <1>5 DEF ValidateEntry, TypeOK, Entry
  <1>7. UNCHANGED <<author, effects, commands, period>> /\ voiding' \in {voiding, None}
    BY <1>1 DEF ValidateEntry, TypeOK
  <1>8. "Validated" \in EntryStatuses
    BY DEF EntryStatuses
  <1> HIDE DEF sealed
  <1> QED
    BY <1>2, <1>6, <1>7, <1>8, StatusKeeps

LEMMA VoidEntryKeeps ==
    ASSUME PostingInv, NEW e \in Entries, VoidEntry(e)
    PROVE  PostingInv'
  <1>1. TypeOK
    BY DEF PostingInv
  <1>2. /\ UNCHANGED <<author, effects, commands, period>>
        /\ voiding = e /\ voiding' = None
    BY DEF VoidEntry
  <1>3. CASE entry' = entry
    BY <1>1, <1>2, <1>3, OutsideStep DEF TypeOK
  <1>4. CASE entry' # entry
    <2>1. /\ entry[e].status = "Validated" /\ PostingsOf(e) = {}
          /\ entry' = [entry EXCEPT ![e].status = "Voided"]
      BY <1>4 DEF VoidEntry, HeaderUpdatable
    <2>2. entry[e] # None
      BY <1>2, PostingNoneAssumption DEF PostingInv
    <2>3. entry[e] \in Entry
      BY <1>1, <2>2 DEF TypeOK
    <2>4. PICK v \in Actors \cup {None}, g \in Snapshot \cup {None} :
             v = entry[e].validator /\ g = entry[e].digest
      BY <2>3 DEF Entry
    <2>5. entry' = [entry EXCEPT ![e] = [entry[e] EXCEPT !.status = "Voided",
                                                         !.validator = v, !.digest = g]]
      BY <1>1, <2>1, <2>3, <2>4 DEF TypeOK, Entry
    <2> QED
      BY <1>2, <2>1, <2>2, <2>5, StatusKeeps DEF EntryStatuses
  <1> QED
    BY <1>3, <1>4

LEMMA VoidReadKeeps ==
    ASSUME PostingInv, NEW e \in Entries, VoidRead(e)
    PROVE  PostingInv'
  BY OutsideStep DEF VoidRead, PostingInv, TypeOK

LEMMA SetPeriodStatusKeeps ==
    ASSUME PostingInv, NEW p \in Periods, NEW s \in PeriodStatuses, SetPeriodStatus(p, s)
    PROVE  PostingInv'
  <1>1. TypeOK
    BY DEF PostingInv
  <1>2. period' \in [Periods -> [status : PeriodStatuses, window : Windows]]
    BY <1>1 DEF SetPeriodStatus, TypeOK
  <1> QED
    BY <1>2, OutsideStep DEF SetPeriodStatus, PostingInv, TypeOK

LEMMA UpsertPeriodKeeps ==
    ASSUME PostingInv, NEW p \in Periods, NEW w \in Windows, UpsertPeriod(p, w)
    PROVE  PostingInv'
  <1>1. TypeOK
    BY DEF PostingInv
  <1>2. period' \in [Periods -> [status : PeriodStatuses, window : Windows]]
    BY <1>1 DEF UpsertPeriod, TypeOK
  <1> QED
    BY <1>2, OutsideStep DEF UpsertPeriod, PostingInv, TypeOK

LEMMA PrepareReversalKeeps ==
    ASSUME PostingInv, NEW c \in Commands, NEW k \in DOMAIN effects, NEW e \in Entries,
           NEW a \in Actors, NEW p \in Periods, NEW d \in Dates,
           PrepareReversal(c, k, e, a, p, d)
    PROVE  PostingInv'
  <1>1. TypeOK /\ k \in 1 .. Len(effects) /\ Verified(k)
    BY EffectFacts DEF PostingInv
  <1>2. PICK amount : amount = -effects[k].snapshot.amount
    OBVIOUS
  <1> DEFINE content == [entry |-> e, amount |-> amount, period |-> p, date |-> d,
                         source |-> "Generated", preparer |-> a, reverses |-> k]
             x == [snapshot |-> content, status |-> "Draft", created_by |-> a,
                   validator |-> None, digest |-> None]
             r == [operation |-> "prepare_reversal", actor |-> a, effect |-> k, result |-> e]
  <1>3. k \in EffectIds
    <2>1. Len(effects) \in Nat /\ Len(effects) <= Cardinality(Entries)
      BY <1>1, EffectFacts DEF TypeOK
    <2>2. Cardinality(Entries) \in Nat
      BY InputsAssumption, FS_CardinalityType
    <2> QED
      BY <1>1, <2>1, <2>2 DEF EffectIds
  <1>4. content \in Snapshot
    <2>1. effects[k].snapshot \in Snapshot
      BY <1>1, EffectFacts DEF Effect
    <2>2. amount \in Amounts
      BY <1>2, <2>1, AmountsAssumption DEF Snapshot
    <2> QED
      BY <1>3, <2>2 DEF Snapshot, SourceTypes
  <1>5. x \in Entry
    BY <1>4 DEF Entry, EntryStatuses
  <1>6. r \in Receipt
    BY <1>3 DEF Receipt
  <1>7. /\ entry[e] = None /\ entry' = [entry EXCEPT ![e] = x]
        /\ author' = [author EXCEPT ![e] = a] /\ commands' = [commands EXCEPT ![c] = r]
        /\ UNCHANGED <<effects, period, voiding>>
    BY <1>2 DEF PrepareReversal
  <1>8. PostingsOf(e) = {}
    BY <1>7, PostedIsValidated
  <1>9. /\ author' \in [Entries -> Actors \cup {None}] /\ author'[e] = a
        /\ \A f \in Entries : f # e => author'[f] = author[f]
        /\ commands' \in [Commands -> Receipt \cup {None}] /\ commands'[c] = r
        /\ \A b \in Commands : b # c => commands'[b] = commands[b]
    BY <1>1, <1>6, <1>7 DEF TypeOK
  <1>10. x.snapshot.reverses = k /\ x.snapshot.preparer = a
    OBVIOUS
  <1>11. r.operation # "post" /\ r.actor = a /\ r.effect = k /\ r.result = e
    OBVIOUS
  <1>12. x # None
    BY <1>5, PostingNoneAssumption
  <1> HIDE DEF x, r
  <1>13. entry'[e] = x
    BY <1>1, <1>7 DEF TypeOK
  <1>14. Verified(k)'
    <2>1. effects[k].entry \in Entries \ {e}
      BY <1>1, <1>8, EffectFacts, Unposted
    <2>2. entry'[effects[k].entry] = entry[effects[k].entry]
      BY <1>1, <1>7, <2>1 DEF TypeOK
    <2> QED
      BY <1>1, <1>7, <2>2 DEF Verified
  <1>15. ReceiptVerified(commands[c])'
    BY <1>7, <1>9, <1>10, <1>11, <1>12, <1>13, <1>14 DEF ReceiptVerified
  <1>16. \A b \in Commands : commands'[b] = commands[b] \/ ReceiptVerified(commands[b])'
    BY <1>9, <1>15
  <1> QED
    BY <1>1, <1>5, <1>7, <1>8, <1>9, <1>10, <1>16, EntryStep

\* Posting appends one effect, of an entry that had none, and the receipt for it.
LEMMA PostKeeps ==
    ASSUME PostingInv, NEW c \in Commands, NEW e \in Entries, NEW a \in Actors, Post(c, e, a)
    PROVE  PostingInv'
  <1>1. TypeOK
    BY DEF PostingInv
  <1>2. PICK x : x = entry[e]
    OBVIOUS
  <1>3. PICK n : n = Len(effects) + 1
    OBVIOUS
  <1> DEFINE f == [entry |-> e, snapshot |-> x.snapshot, reverses |-> x.snapshot.reverses,
                   actor |-> a]
             r == [operation |-> "post", actor |-> a, entry |-> e, result |-> n]
  <1>4. /\ x # None /\ effects' = Append(effects, f) /\ commands' = [commands EXCEPT ![c] = r]
        /\ UNCHANGED <<entry, author, period, voiding>>
        /\ PostingsOf(e) = {} /\ Reviewed(x, a)
        /\ x.snapshot.reverses # None =>
              /\ effects[x.snapshot.reverses].reverses = None
              /\ Inverts(x.snapshot, effects[x.snapshot.reverses].snapshot)
              /\ \A k \in DOMAIN effects : effects[k].reverses # x.snapshot.reverses
    BY <1>2, <1>3 DEF Post, NoEffectOf
  <1>5. x \in Entry /\ x.snapshot \in Snapshot
    BY <1>1, <1>2, <1>4 DEF TypeOK, Entry
  <1>6. f \in Effect
    BY <1>5 DEF Effect, Snapshot
  <1>7. f.entry = e /\ f.snapshot = x.snapshot /\ f.reverses = x.snapshot.reverses /\ f.actor = a
    OBVIOUS
  <1>8. r.operation = "post" /\ r.actor = a /\ r.entry = e /\ r.result = n
    OBVIOUS
  <1>9. f.reverses # None => f.reverses \in 1 .. Len(effects)
    BY <1>2, <1>4, <1>7 DEF PostingInv, EntryOK
  <1> HIDE DEF f
  <1>10. /\ Len(effects) \in Nat /\ effects \in Seq(Effect) /\ DOMAIN effects = 1 .. Len(effects)
    BY <1>1, EffectFacts DEF TypeOK
  <1>11. /\ effects' \in Seq(Effect) /\ Len(effects') = n /\ DOMAIN effects' = 1 .. n
         /\ effects'[n] = f /\ \A k \in 1 .. Len(effects) : effects'[k] = effects[k]
    BY <1>3, <1>4, <1>6, <1>10
  <1>12. \A k \in 1 .. n : k = n \/ k \in 1 .. Len(effects)
    BY <1>3, <1>10
  <1>13. Posted' = Posted \cup {e} /\ e \notin Posted /\ Posted \subseteq Entries
    <2>1. e \notin Posted
      BY <1>1, <1>4, Unposted DEF Posted
    <2>2. Posted' = {effects'[k].entry : k \in 1 .. n}
      BY <1>11 DEF Posted
    <2>3. Posted' = Posted \cup {e}
      BY <1>3, <1>7, <1>10, <1>11, <1>12, <2>2 DEF Posted
    <2> QED
      BY <1>1, <2>1, <2>3, EffectFacts
  <1>14. Cardinality(Posted') = n /\ n <= Cardinality(Entries)
    <2>1. IsFiniteSet(Posted)
      BY <1>13, InputsAssumption, FS_Subset
    <2>2. Cardinality(Posted') = Cardinality(Posted) + 1
      BY <1>13, <2>1, FS_AddElement
    <2>3. Cardinality(Posted') = n
      BY <1>3, <2>2 DEF PostingInv
    <2>4. Posted' \subseteq Entries
      BY <1>13
    <2>5. Cardinality(Posted') <= Cardinality(Entries)
      BY <2>4, InputsAssumption, FS_Subset
    <2> QED
      BY <2>3, <2>5
  <1>15. n \in EffectIds
    <2>1. Cardinality(Entries) \in Nat
      BY InputsAssumption, FS_CardinalityType
    <2> QED
      BY <1>3, <1>10, <1>14, <2>1 DEF EffectIds
  <1>16. r \in Receipt
    BY <1>15 DEF Receipt
  <1> HIDE DEF r
  <1>17. TypeOK'
    BY <1>1, <1>4, <1>11, <1>14, <1>16 DEF TypeOK
  <1>18. \A k \in 1 .. n : Verified(k)'
    <2>1. \A k \in 1 .. Len(effects) : Verified(k)'
      BY <1>4, <1>11 DEF PostingInv, Verified
    <2>2. Verified(n)'
      BY <1>2, <1>4, <1>7, <1>11 DEF Verified, Reviewed
    <2> QED
      BY <1>12, <2>1, <2>2
  <1>19. \A k \in 1 .. n : ReversalOK(k)'
    <2>1. \A k \in 1 .. Len(effects) : k \in 1 .. n
      BY <1>3, <1>10
    <2>2. ASSUME NEW k \in 1 .. Len(effects), effects[k].reverses # None
          PROVE  ReversalOK(k)'
      <3> DEFINE q == effects[k].reverses
      <3>1. /\ q \in 1 .. Len(effects) /\ effects[q].reverses = None
            /\ Inverts(effects[k].snapshot, effects[q].snapshot)
            /\ \A j \in 1 .. Len(effects) : effects[j].reverses = q => j = k
        BY <2>2 DEF PostingInv, ReversalOK
      <3>2. f.reverses # q
        BY <1>4, <1>7, <1>10, <2>2
      <3>3. effects'[k] = effects[k] /\ effects'[q] = effects[q]
        BY <1>11, <3>1
      <3>4. \A j \in 1 .. n : effects'[j].reverses = q => j = k
        BY <1>11, <1>12, <3>1, <3>2
      <3> QED
        BY <1>11, <2>1, <3>1, <3>3, <3>4 DEF ReversalOK, Inverts
    <2>3. ASSUME f.reverses # None
          PROVE  ReversalOK(n)'
      <3> DEFINE q == f.reverses
      <3>1. q \in 1 .. Len(effects) /\ effects'[q] = effects[q]
        BY <1>9, <1>11, <2>3
      <3>2. /\ effects[q].reverses = None /\ Inverts(f.snapshot, effects[q].snapshot)
            /\ \A j \in 1 .. Len(effects) : effects[j].reverses # q
        BY <1>4, <1>7, <1>10, <2>3
      <3>3. \A j \in 1 .. n : effects'[j].reverses = q => j = n
        BY <1>11, <1>12, <3>2
      <3> QED
        BY <1>11, <2>1, <3>1, <3>2, <3>3 DEF ReversalOK, Inverts
    <2>4. ASSUME NEW k \in 1 .. n, effects'[k].reverses = None
          PROVE  ReversalOK(k)'
      BY <2>4 DEF ReversalOK
    <2> QED
      BY <1>11, <1>12, <2>2, <2>3, <2>4
  <1>20. \A d \in Entries : EntryOK(d)'
    <2>1. \A k \in 1 .. Len(effects) : k \in 1 .. n
      BY <1>3, <1>10
    <2> QED
      BY <1>4, <1>11, <2>1 DEF PostingInv, EntryOK
  <1>21. \A b \in Commands : commands'[b] # None => ReceiptVerified(commands[b])'
    <2>1. /\ commands'[c] = r /\ \A b \in Commands : b # c => commands'[b] = commands[b]
      BY <1>1, <1>4 DEF TypeOK
    <2>2. ReceiptVerified(commands[c])'
      <3>1. n \in DOMAIN effects' /\ Verified(n)'
        BY <1>3, <1>10, <1>11, <1>18
      <3> QED
        BY <1>7, <1>8, <1>11, <2>1, <3>1 DEF ReceiptVerified, Verified
    <2>3. ASSUME NEW b \in Commands, b # c, commands[b] # None
          PROVE  ReceiptVerified(commands[b])'
      <3>1. ReceiptVerified(commands[b]) /\ commands'[b] = commands[b]
        BY <2>1, <2>3 DEF PostingInv
      <3>2. \A k \in DOMAIN effects :
              k \in DOMAIN effects' /\ effects'[k] = effects[k] /\ Verified(k)'
        BY <1>3, <1>10, <1>11, <1>18
      <3>3. CASE commands[b].operation = "post"
        <4>1. /\ commands[b].result \in DOMAIN effects
              /\ effects[commands[b].result].actor = commands[b].actor
              /\ effects[commands[b].result].entry = commands[b].entry
          BY <3>1, <3>3 DEF ReceiptVerified
        <4>2. Verified(commands[b].result)'
          BY <3>1, <3>2, <4>1 DEF Verified
        <4> QED
          BY <3>1, <3>2, <3>3, <4>1, <4>2 DEF ReceiptVerified
      <3>4. CASE commands[b].operation # "post"
        <4>1. LET y == entry[commands[b].result]
              IN  /\ y # None /\ y.snapshot.preparer = commands[b].actor
                  /\ y.snapshot.reverses = commands[b].effect
                  /\ commands[b].effect \in DOMAIN effects
          BY <3>1, <3>4 DEF ReceiptVerified
        <4>2. Verified(commands[b].effect)'
          BY <3>1, <3>2, <4>1 DEF Verified
        <4> QED
          BY <1>4, <3>1, <3>2, <3>4, <4>1, <4>2 DEF ReceiptVerified
      <3> QED
        BY <3>3, <3>4
    <2> QED
      BY <2>1, <2>2, <2>3
  <1> QED
    BY <1>4, <1>11, <1>14, <1>17, <1>18, <1>19, <1>20, <1>21 DEF PostingInv
-----------------------------------------------------------------------------
\* The invariant

LEMMA InitInv == Init => PostingInv
  <1> SUFFICES ASSUME Init PROVE PostingInv
    OBVIOUS
  <1>1. effects = <<>> /\ Len(effects) = 0 /\ 1 .. Len(effects) = {}
    BY DEF Init
  <1>2. Cardinality(Posted) = 0
    <2>1. Posted = {}
      BY <1>1 DEF Posted
    <2> QED
      BY <2>1, FS_EmptySet
  <1>3. TypeOK
    <2>1. Cardinality(Entries) \in Nat
      BY InputsAssumption, FS_CardinalityType
    <2> QED
      BY <1>1, <2>1, WindowsAssumption DEF Init, TypeOK, PeriodStatuses
  <1> QED
    BY <1>1, <1>2, <1>3 DEF Init, PostingInv, EntryOK

LEMMA NextInv == PostingInv /\ [Next]_vars => PostingInv'
  <1> SUFFICES ASSUME PostingInv, [Next]_vars PROVE PostingInv'
    OBVIOUS
  <1>1. CASE UNCHANGED vars
    BY <1>1, OutsideStep DEF vars, PostingInv, TypeOK
  <1>2. CASE Next
    BY <1>2, CreateEntryKeeps, ReplaceEntryKeeps, ValidateEntryKeeps, VoidReadKeeps,
       VoidEntryKeeps, PostKeeps, PrepareReversalKeeps, SetPeriodStatusKeeps,
       UpsertPeriodKeeps DEF Next
  <1> QED
    BY <1>1, <1>2

LEMMA InvariantHolds == Spec => []PostingInv
  BY InitInv, NextInv, PTL DEF Spec
-----------------------------------------------------------------------------
\* The tables, the history of authors and the pending void stay well typed, whatever
\* commands run; among them, there are never more effects than entry numbers.
THEOREM PostingTypes == Spec => []TypeOK
  <1>1. PostingInv => TypeOK
    BY DEF PostingInv
  <1> QED
    BY <1>1, InvariantHolds, PTL

\* Every state that the commands reach passes verify_posting_storage: no save, review,
\* void, period change or posting invalidates a retained effect or receipt.
THEOREM StorageSound == Spec => []StorageVerifies
  <1>1. PostingInv => StorageVerifies
    <2> SUFFICES ASSUME PostingInv PROVE StorageVerifies
      OBVIOUS
    <2>1. DOMAIN effects = 1 .. Len(effects)
      BY EffectFacts DEF PostingInv
    <2> QED
      BY <2>1 DEF PostingInv, StorageVerifies, VerifyPostingStorage, ReversalOK
  <1> QED
    BY <1>1, InvariantHolds, PTL

\* Whoever wrote the content that an effect posts neither reviewed nor posted it.
THEOREM IndependentPoster == Spec => []IndependentPosting
  <1>1. PostingInv => IndependentPosting
    <2> SUFFICES ASSUME PostingInv, NEW k \in DOMAIN effects
                 PROVE  author[effects[k].entry] \notin
                            {entry[effects[k].entry].validator, effects[k].actor}
      BY DEF IndependentPosting
    <2>1. k \in 1 .. Len(effects) /\ effects[k].entry \in Entries
      BY EffectFacts DEF PostingInv
    <2>2. Verified(k) /\ EntryOK(effects[k].entry)
      BY <2>1 DEF PostingInv
    <2> QED
      BY <2>2 DEF Verified, EntryOK
  <1> QED
    BY <1>1, InvariantHolds, PTL

\* No command changes what the posted trial balance of a period adds up while the period
\* is not Open.
THEOREM PeriodFrozen == Spec => ClosedPeriodFrozen
  <1> DEFINE Frozen ==
        \A p \in Periods : period[p].status # "Open" => TrialBalance(p)' = TrialBalance(p)
  <1>1. ASSUME PostingInv, [Next]_vars PROVE [Frozen]_vars
    <2>1. CASE effects' = effects
      BY <2>1 DEF TrialBalance
    <2>2. CASE effects' # effects
      <3>1. PICK c \in Commands, e \in Entries, a \in Actors : Post(c, e, a)
        <4>1. Next
          BY <1>1, <2>2 DEF vars
        <4>2. \A e, a, g, n, p, d, s : ~ CreateEntry(e, a, g, n, p, d, s)
                                       /\ ~ ReplaceEntry(e, a, g, n, p, d, s)
          BY <2>2 DEF CreateEntry, ReplaceEntry, SaveDraft
        <4>3. \A e, a, g : ~ ValidateEntry(e, a, g) /\ ~ VoidRead(e) /\ ~ VoidEntry(e)
          BY <2>2 DEF ValidateEntry, VoidRead, VoidEntry
        <4>4. \A c, k, e, a, p, d : ~ PrepareReversal(c, k, e, a, p, d)
          BY <2>2 DEF PrepareReversal
        <4>5. \A p, v : ~ SetPeriodStatus(p, v) /\ ~ UpsertPeriod(p, v)
          BY <2>2 DEF SetPeriodStatus, UpsertPeriod
        <4> QED
          BY <4>1, <4>2, <4>3, <4>4, <4>5 DEF Next
      <3>2. /\ period[entry[e].snapshot.period].status = "Open"
            /\ effects' = Append(effects, [entry |-> e, snapshot |-> entry[e].snapshot,
                              reverses |-> entry[e].snapshot.reverses, actor |-> a])
        BY <3>1 DEF Post, OpenFor
      <3>3. /\ DOMAIN effects' = 1 .. (Len(effects) + 1)
            /\ DOMAIN effects = 1 .. Len(effects) /\ Len(effects) \in Nat
            /\ effects'[Len(effects) + 1].snapshot = entry[e].snapshot
            /\ \A k \in 1 .. Len(effects) : effects'[k] = effects[k]
        <4>1. effects \in Seq(Effect)
          BY <1>1 DEF PostingInv, TypeOK
        <4> QED
          BY <3>2, <4>1
      <3> QED
        BY <3>2, <3>3 DEF TrialBalance
    <2> QED
      BY <2>1, <2>2
  <1> QED
    BY <1>1, InvariantHolds, PTL DEF Spec, ClosedPeriodFrozen

\* Every posted reversal undoes exactly one original posting, by the full amount and in
\* the other direction, and no two undo the same one: what ReversalsNetOut says of the
\* sums, said of the effects.
THEOREM ReversedOnce == Spec => [](\A k \in 1 .. Len(effects) : ReversalOK(k))
  <1>1. PostingInv => \A k \in 1 .. Len(effects) : ReversalOK(k)
    BY DEF PostingInv
  <1> QED
    BY <1>1, InvariantHolds, PTL
-----------------------------------------------------------------------------
\* What a posting and its reversals move together

Amount(i) == effects[i].snapshot.amount

\* The postings that NetOf adds up.
Undoing(k) == {i \in DOMAIN effects : i = k \/ effects[i].reverses = k}

\* The recursive function that the library's fold is, over the postings S.
SumOver(S) ==
    CHOOSE h : h = [s \in SUBSET S |->
        IF s = {} THEN 0
        ELSE Amount(CHOOSE z \in s : TRUE) + h[s \ {CHOOSE z \in s : TRUE}]]

\* NetOf is that function's value.
LEMMA NetOfIs ==
    ASSUME NEW k
    PROVE  NetOf(k) = SumOver(Undoing(k))[Undoing(k)]
  BY DEF NetOf, MapThenSumSet, MapThenFoldSet, Undoing, Amount, SumOver

\* The fold over one or two postings: f shows that the recursive function exists, so
\* that its equation may be used, and the equation gives the sum.
LEMMA SumOfPair ==
    ASSUME NEW S, NEW x, NEW y, S = {x, y}, Amount(x) \in Int, Amount(y) \in Int
    PROVE  SumOver(S)[S] = IF x = y THEN Amount(x) ELSE Amount(x) + Amount(y)
  <1> DEFINE g == SumOver(S)
             pick(s) == CHOOSE z \in s : TRUE
             body(h, s) == IF s = {} THEN 0 ELSE Amount(pick(s)) + h[s \ {pick(s)}]
             of(s) == (IF x \in s THEN Amount(x) ELSE 0) + (IF y \in s /\ x # y THEN Amount(y) ELSE 0)
             f == [s \in SUBSET S |-> of(s)]
  <1>1. \A s \in SUBSET S : s # {} => pick(s) \in s
    OBVIOUS
  <1> HIDE DEF pick
  <1>2. ASSUME NEW s \in SUBSET S PROVE f[s] = body(f, s)
    <2>1. CASE s = {}
      BY <2>1
    <2>2. CASE s # {}
      <3>1. pick(s) \in s /\ (pick(s) = x \/ pick(s) = y) /\ s \ {pick(s)} \in SUBSET S
        BY <1>1, <2>2
      <3>2. f[s] = of(s) /\ f[s \ {pick(s)}] = of(s \ {pick(s)})
        BY <3>1
      <3>3. of(s) = Amount(pick(s)) + of(s \ {pick(s)})
        BY <3>1
      <3> QED
        BY <2>2, <3>2, <3>3
    <2> QED
      BY <2>1, <2>2
  <1>3. f = [s \in SUBSET S |-> body(f, s)]
    BY <1>2
  <1> HIDE DEF f
  <1>4. \E h : h = [s \in SUBSET S |-> body(h, s)]
    BY <1>3, Zenon
  <1>5. g = CHOOSE h : h = [s \in SUBSET S |-> body(h, s)]
    BY Zenon DEF pick, SumOver
  <1>6. g = [s \in SUBSET S |-> body(g, s)]
    BY <1>4, <1>5, Zenon
  <1> HIDE DEF g
  <1>7. g[{}] = 0
    BY <1>6
  <1>8. \A s \in SUBSET S : s # {} => g[s] = Amount(pick(s)) + g[s \ {pick(s)}]
    BY <1>6
  <1>9. S \in SUBSET S /\ S # {} /\ (pick(S) = x \/ pick(S) = y)
    BY <1>1
  <1>10. g[{x}] = Amount(x) /\ g[{y}] = Amount(y)
    <2>1. pick({x}) = x /\ pick({y}) = y
      BY <1>1
    <2>2. /\ {x} \ {x} = {} /\ {x} \in SUBSET S /\ {x} # {}
          /\ {y} \ {y} = {} /\ {y} \in SUBSET S /\ {y} # {}
      OBVIOUS
    <2>3. g[{x}] = Amount(pick({x})) + g[{x} \ {pick({x})}]
      BY <1>8, <2>2
    <2>4. g[{y}] = Amount(pick({y})) + g[{y} \ {pick({y})}]
      BY <1>8, <2>2
    <2>5. g[{x}] = Amount(x) + 0 /\ g[{y}] = Amount(y) + 0
      BY <1>7, <2>1, <2>2, <2>3, <2>4
    <2> QED
      BY <2>5
  <1>11. CASE x = y
    BY <1>10, <1>11 DEF g
  <1>12. CASE x # y
    <2>1. S \ {x} = {y} /\ S \ {y} = {x}
      BY <1>12
    <2>2. g[S] = Amount(x) + Amount(y) \/ g[S] = Amount(y) + Amount(x)
      <3>1. g[S] = Amount(pick(S)) + g[S \ {pick(S)}]
        BY <1>8, <1>9
      <3>2. CASE pick(S) = x
        BY <1>10, <2>1, <3>1, <3>2, Zenon
      <3>3. CASE pick(S) = y
        BY <1>10, <2>1, <3>1, <3>3, Zenon
      <3> QED
        BY <1>9, <3>2, <3>3
    <2> QED
      BY <1>12, <2>2 DEF g
  <1> QED
    BY <1>11, <1>12

\* A posting nobody has reversed moves its amount, and together with its reversal it
\* moves nothing: at most one reversal is posted, never partial and never in the wrong
\* direction, whatever drafts were prepared and rewritten.
THEOREM ReversalsNet == Spec => []ReversalsNetOut
  <1>1. PostingInv => ReversalsNetOut
    <2> SUFFICES ASSUME PostingInv, NEW k \in DOMAIN effects, effects[k].reverses = None
                 PROVE  NetOf(k) = IF \E i \in DOMAIN effects : effects[i].reverses = k
                                   THEN 0 ELSE effects[k].snapshot.amount
      BY DEF ReversalsNetOut
    <2>1. /\ DOMAIN effects = 1 .. Len(effects) /\ Len(effects) \in Nat
          /\ \A i \in DOMAIN effects : effects[i] \in Effect
      BY EffectFacts DEF PostingInv
    <2>2. \A i \in DOMAIN effects : Amount(i) \in Int
      BY <2>1, AmountsAssumption DEF Amount, Effect, Snapshot
    <2>3. k # None
      <3>1. Len(effects) <= Cardinality(Entries) /\ Cardinality(Entries) \in Nat
        BY InputsAssumption, FS_CardinalityType DEF PostingInv, TypeOK
      <3>2. k \in EffectIds
        BY <2>1, <3>1 DEF EffectIds
      <3> QED
        BY <3>2, PostingNoneAssumption
    <2>4. PICK S : S = Undoing(k)
      OBVIOUS
    <2>5. PICK g : g = SumOver(S)
      OBVIOUS
    <2>6. NetOf(k) = g[S]
      BY <2>4, <2>5, NetOfIs, Zenon
    <2>7. CASE \A i \in DOMAIN effects : effects[i].reverses # k
      <3>1. S = {k, k}
        BY <2>4, <2>7 DEF Undoing
      <3>2. g[S] = Amount(k)
        BY <2>2, <2>5, <3>1, SumOfPair
      <3> QED
        BY <2>6, <2>7, <3>2 DEF Amount
    <2>8. CASE \E i \in DOMAIN effects : effects[i].reverses = k
      <3>1. PICK i \in DOMAIN effects : effects[i].reverses = k
        BY <2>8
      <3>2. ReversalOK(i)
        BY <2>1 DEF PostingInv
      <3>3. /\ i # k
            /\ Inverts(effects[i].snapshot, effects[k].snapshot)
            /\ \A j \in DOMAIN effects : effects[j].reverses = k => j = i
        BY <2>1, <2>3, <3>1, <3>2 DEF ReversalOK
      <3>4. S = {k, i}
        BY <2>4, <3>1, <3>3 DEF Undoing
      <3>5. g[S] = Amount(k) + Amount(i)
        <4>1. Amount(k) \in Int /\ Amount(i) \in Int
          BY <2>2
        <4>2. g[S] = IF k = i THEN Amount(k) ELSE Amount(k) + Amount(i)
          BY <2>5, <3>4, <4>1, SumOfPair
        <4> QED
          BY <3>3, <4>2
      <3>6. Amount(k) + Amount(i) = 0
        BY <2>2, <3>3 DEF Inverts, Amount
      <3> QED
        BY <2>6, <2>8, <3>5, <3>6
    <2> QED
      BY <2>7, <2>8
  <1> QED
    BY <1>1, InvariantHolds, PTL
=============================================================================
