------------------------------ MODULE OutboxProofs -----------------------------
(***************************************************************************)
(* Proofs about Outbox, for every set of events, processes and labels and  *)
(* every attempt ceiling, batch limit and replay bound.                    *)
(***************************************************************************)
EXTENDS Outbox, FiniteSetTheorems, TLAPS

\* The claimed evidence of the current generation names the row's owner.
OwnerRecorded(r, E) ==
    r.lock # "null" /\ r.generation > r.floor =>
        \A x \in E : x.generation = r.generation /\ x.action = "claimed" => x.worker = r.by

\* The part of the inductive invariant about one event: what the repository's
\* validator demands, what binds a terminal record to its claim, and the
\* attempts ceiling.
Explained(r, E) ==
    /\ ValidClaims(r, E)
    /\ ValidHistory(r, E)
    /\ ValidState(r, E)
    /\ OwnerRecorded(r, E)
    /\ ~r.published => (r.dead <=> r.attempts >= MaxAttempts)

LEMMA FreshExplained == FreshRow \in Row /\ Explained(FreshRow, {})
BY LimitsAssumption DEF FreshRow, Row, Explained, ValidClaims, ValidHistory, ValidState,
    DeliveryState, OwnerRecorded, Has, Terminal

LEMMA WatermarkedExplained ==
    ASSUME NEW r \in WatermarkedRows
    PROVE  r \in Row /\ Explained(r, {}) /\ r.generation = r.floor
<1>1. /\ r.generation = 2 /\ r.floor = 2 /\ r.ready = TRUE /\ r.error = "none"
      /\ r = [published |-> r.published, dead |-> r.dead, lock |-> r.lock, by |-> r.by,
              ready |-> r.ready, attempts |-> r.attempts, error |-> r.error,
              generation |-> r.generation, floor |-> r.floor]
  BY DEF WatermarkedRows
<1>2. \/ /\ r.published = FALSE /\ r.dead = FALSE /\ r.lock = "null" /\ r.by = Nobody
         /\ r.attempts \in 0 .. MaxAttempts - 1
      \/ /\ r.published = FALSE /\ r.dead = FALSE /\ r.lock = "live" /\ r.by \in WorkerIds
         /\ r.attempts \in 0 .. MaxAttempts - 1
      \/ /\ r.published = FALSE /\ r.dead = TRUE /\ r.lock = "null" /\ r.by = Nobody
         /\ r.attempts = MaxAttempts
      \/ /\ r.published = TRUE /\ r.dead = FALSE /\ r.lock = "null" /\ r.by = Nobody
         /\ r.attempts = 0
  BY DEF WatermarkedRows
<1>3. r \in Row
  <2>1. r.published \in BOOLEAN /\ r.dead \in BOOLEAN /\ r.ready \in BOOLEAN
    BY <1>1, <1>2, Zenon
  <2>2. /\ r.by \in WorkerIds \cup {Nobody} /\ r.attempts \in Nat
        /\ r.lock \in {"null", "live", "lapsed"}
    BY <1>2, LimitsAssumption
  <2>3. /\ r.error \in {"none", "LEASE_EXPIRED", "failure"} /\ r.generation \in Nat
        /\ r.floor \in {0, 2}
    BY <1>1
  <2> DEFINE s == [published |-> r.published, dead |-> r.dead, lock |-> r.lock,
                   by |-> r.by, ready |-> r.ready, attempts |-> r.attempts,
                   error |-> r.error, generation |-> r.generation, floor |-> r.floor]
  <2>4. s \in Row
    BY <2>1, <2>2, <2>3 DEF Row
  <2>5. QED
    BY <1>1, <2>4
<1>4. Explained(r, {})
  BY <1>1, <1>2, LimitsAssumption, WorkersAssumption DEF Explained, ValidClaims,
      ValidHistory, ValidState, DeliveryState, OwnerRecorded, Has, Terminal
<1>5. QED
  BY <1>1, <1>3, <1>4

\* A terminal record that closes the claim of the current generation keeps the
\* history valid, whatever the new row is.
LEMMA TerminalNoted ==
    ASSUME NEW r \in Row, NEW E \in SUBSET Evidence, Explained(r, E),
           r.lock # "null", ~r.published, ~r.dead,
           NEW n \in Row, n.generation = r.generation, n.floor = r.floor,
           NEW x \in Evidence, x.generation = r.generation, x.action \in Terminal,
           x.worker = r.by, r.generation = r.floor => x.action = "expired"
    PROVE  ValidClaims(n, E \cup {x}) /\ ValidHistory(n, E \cup {x})
<1>1. DeliveryState(r) = "claimed"
  BY DEF Explained, ValidState, DeliveryState
<1>2. /\ r.generation >= 1
      /\ \A y \in E : y.generation = r.generation => y.action = "claimed"
      /\ r.generation > r.floor => Has(E, r.generation, "claimed")
      /\ r.generation >= r.floor
  BY <1>1 DEF Explained, ValidState, ValidClaims, Row, Evidence, Has, Terminal
<1>3. ValidClaims(n, E \cup {x})
  BY <1>2 DEF Explained, ValidClaims, Has, Row, Evidence, Terminal
<1>4. ValidHistory(n, E \cup {x})
  <2>1. \A y, z \in E \cup {x} :
            y.generation = z.generation /\ y.action = z.action => y = z
    BY <1>2 DEF Explained, ValidHistory, Evidence, Terminal
  <2>2. \A y, z \in E \cup {x} :
            /\ y.generation = z.generation /\ y.action \in Terminal /\ z.action \in Terminal
            => y.action = z.action
    BY <1>2 DEF Explained, ValidHistory, Evidence, Terminal
  <2>3. \A y, z \in E \cup {x} : y.generation = z.generation
            => ~(y.action = "published" /\ z.action = "requeued")
    BY <1>2 DEF Explained, ValidHistory, Evidence, Terminal
  <2>4. \A y \in E \cup {x} : y.generation > r.floor => Has(E \cup {x}, y.generation, "claimed")
    BY <1>2 DEF Explained, ValidHistory, Evidence, Terminal, Has
  <2>5. \A y \in E \cup {x} : y.generation > r.floor /\ y.generation < r.generation
            => \E z \in E \cup {x} : z.generation = y.generation /\ z.action \in Terminal
    BY <1>2 DEF Explained, ValidHistory, Evidence, Row
  <2>6. \A y \in E \cup {x} : y.generation <= r.floor
            => y.generation = r.floor /\ y.action \in {"expired", "requeued"}
    BY <1>2 DEF Explained, ValidHistory, Evidence, Row
  <2>7. \A y \in E \cup {x} : y.action = "requeued"
            => \/ y.generation = r.floor /\ r.floor = 2
               \/ Has(E \cup {x}, y.generation, "failed")
               \/ Has(E \cup {x}, y.generation, "expired")
    BY <1>2 DEF Explained, ValidHistory, Evidence, Terminal, Has
  <2>8. \A y \in E \cup {x} : y.action = "published" => y.generation = r.generation
    BY DEF Explained, ValidHistory
  <2>9. \A y, z \in E \cup {x} :
            /\ y.generation = z.generation /\ y.generation > r.floor
            /\ y.action = "claimed" /\ z.action \in Terminal
            => y.worker = z.worker
    BY <1>2 DEF Explained, ValidHistory, OwnerRecorded, Evidence, Terminal
  <2>10. QED
    BY <2>1, <2>2, <2>3, <2>4, <2>5, <2>6, <2>7, <2>8, <2>9 DEF ValidHistory
<1>5. QED
  BY <1>3, <1>4

\* _recover_expired keeps an event explained.
LEMMA RecoveredExplained ==
    ASSUME NEW r \in Row, NEW E \in SUBSET Evidence, Explained(r, E),
           ~r.published, ~r.dead, r.lock = "lapsed"
    PROVE  /\ RecoveredRow(r) \in Row
           /\ Noted(E, r, RecoveredRow(r)) \in SUBSET Evidence
           /\ Explained(RecoveredRow(r), Noted(E, r, RecoveredRow(r)))
<1> DEFINE n == RecoveredRow(r)
           x == AppendedEvidence(r, n)
<1>1. DeliveryState(r) = "claimed" /\ r.by \in WorkerIds
  BY DEF Explained, ValidState, DeliveryState, Row
<1>2. /\ n \in Row /\ n.generation = r.generation /\ n.floor = r.floor
      /\ ~n.published /\ n.lock = "null" /\ n.by = Nobody
      /\ n.dead <=> n.attempts >= MaxAttempts
  <2>1. r.attempts + 1 \in Nat /\ (r.attempts + 1 >= MaxAttempts) \in BOOLEAN
    BY LimitsAssumption DEF Row
  <2>2. n.dead = (r.attempts + 1 >= MaxAttempts) /\ n.attempts = r.attempts + 1
    BY Zenon DEF RecoveredRow
  <2>3. /\ n.generation = r.generation /\ n.floor = r.floor
        /\ ~n.published /\ n.lock = "null" /\ n.by = Nobody
    BY DEF RecoveredRow
  <2>4. n \in Row
    BY <2>1 DEF RecoveredRow, Row
  <2>5. QED
    BY <2>2, <2>3, <2>4
<1>3. /\ x \in Evidence /\ x.generation = r.generation /\ x.action = "expired"
      /\ x.worker = r.by
  BY <1>1, WorkersAssumption DEF AppendedEvidence, RecoveredRow, Row, Evidence
<1> HIDE DEF n, x
<1>4. ValidClaims(n, E \cup {x}) /\ ValidHistory(n, E \cup {x})
  BY <1>2, <1>3, TerminalNoted DEF Terminal
<1>5. ValidState(n, E \cup {x})
  BY <1>1, <1>2, <1>3 DEF Explained, ValidState, DeliveryState, Has, Terminal, Row
<1>6. QED
  BY <1>2, <1>3, <1>4, <1>5 DEF Explained, OwnerRecorded, Noted, n, x

\* mark_published keeps an event explained.
LEMMA PublishedExplained ==
    ASSUME NEW r \in Row, NEW E \in SUBSET Evidence, Explained(r, E),
           ~r.published, ~r.dead, r.lock = "live", r.generation > r.floor
    PROVE  /\ PublishedRow(r) \in Row
           /\ Noted(E, r, PublishedRow(r)) \in SUBSET Evidence
           /\ Explained(PublishedRow(r), Noted(E, r, PublishedRow(r)))
<1> DEFINE n == PublishedRow(r)
           x == AppendedEvidence(r, n)
<1>1. DeliveryState(r) = "claimed" /\ r.by \in WorkerIds
  BY DEF Explained, ValidState, DeliveryState, Row
<1>2. /\ n \in Row /\ n.generation = r.generation /\ n.floor = r.floor
      /\ n.published /\ ~n.dead /\ n.lock = "null" /\ n.by = Nobody
  BY DEF PublishedRow, Row
<1>3. /\ x \in Evidence /\ x.generation = r.generation /\ x.action = "published"
      /\ x.worker = r.by
  BY <1>1, WorkersAssumption DEF AppendedEvidence, PublishedRow, Row, Evidence
<1> HIDE DEF n, x
<1>4. ValidClaims(n, E \cup {x}) /\ ValidHistory(n, E \cup {x})
  BY <1>2, <1>3, TerminalNoted DEF Terminal, Row
<1>5. ValidState(n, E \cup {x})
  BY <1>1, <1>2, <1>3 DEF Explained, ValidState, DeliveryState, Has, Terminal, Row
<1>6. QED
  BY <1>2, <1>3, <1>4, <1>5 DEF Explained, OwnerRecorded, Noted, n, x

\* mark_failed keeps an event explained.
LEMMA FailedExplained ==
    ASSUME NEW r \in Row, NEW E \in SUBSET Evidence, Explained(r, E),
           ~r.published, ~r.dead, r.lock = "live", r.generation > r.floor
    PROVE  /\ FailedRow(r) \in Row
           /\ Noted(E, r, FailedRow(r)) \in SUBSET Evidence
           /\ Explained(FailedRow(r), Noted(E, r, FailedRow(r)))
<1> DEFINE n == FailedRow(r)
           x == AppendedEvidence(r, n)
<1>1. DeliveryState(r) = "claimed" /\ r.by \in WorkerIds
  BY DEF Explained, ValidState, DeliveryState, Row
<1>2. /\ n \in Row /\ n.generation = r.generation /\ n.floor = r.floor
      /\ ~n.published /\ n.lock = "null" /\ n.by = Nobody
      /\ n.dead <=> n.attempts >= MaxAttempts
  <2>1. r.attempts + 1 \in Nat /\ (r.attempts + 1 >= MaxAttempts) \in BOOLEAN
    BY LimitsAssumption DEF Row
  <2>2. n.dead = (r.attempts + 1 >= MaxAttempts) /\ n.attempts = r.attempts + 1
    BY Zenon DEF FailedRow
  <2>3. /\ n.generation = r.generation /\ n.floor = r.floor
        /\ ~n.published /\ n.lock = "null" /\ n.by = Nobody
    BY DEF FailedRow
  <2>4. n \in Row
    BY <2>1 DEF FailedRow, Row
  <2>5. QED
    BY <2>2, <2>3, <2>4
<1>3. /\ x \in Evidence /\ x.generation = r.generation /\ x.action = "failed"
      /\ x.worker = r.by
  BY <1>1, WorkersAssumption DEF AppendedEvidence, FailedRow, Row, Evidence
<1> HIDE DEF n, x
<1>4. ValidClaims(n, E \cup {x}) /\ ValidHistory(n, E \cup {x})
  BY <1>2, <1>3, TerminalNoted DEF Terminal, Row
<1>5. ValidState(n, E \cup {x})
  BY <1>1, <1>2, <1>3 DEF Explained, ValidState, DeliveryState, Has, Terminal, Row
<1>6. QED
  BY <1>2, <1>3, <1>4, <1>5 DEF Explained, OwnerRecorded, Noted, n, x

\* requeue_dead_letter keeps an event explained.
LEMMA RequeuedExplained ==
    ASSUME NEW r \in Row, NEW E \in SUBSET Evidence, Explained(r, E),
           ~r.published, r.dead
    PROVE  /\ RequeuedRow(r) \in Row
           /\ Noted(E, r, RequeuedRow(r)) \in SUBSET Evidence
           /\ Explained(RequeuedRow(r), Noted(E, r, RequeuedRow(r)))
<1> DEFINE n == RequeuedRow(r)
           x == AppendedEvidence(r, n)
<1>1. DeliveryState(r) = "dead" /\ r.by = Nobody
  BY DEF Explained, ValidState, DeliveryState, Row
<1>2. /\ n \in Row /\ n.generation = r.generation /\ n.floor = r.floor
      /\ ~n.published /\ ~n.dead /\ n.lock = "null" /\ n.by = Nobody /\ n.attempts = 0
  BY DEF RequeuedRow, Row
<1>3. /\ x \in Evidence /\ x.generation = r.generation /\ x.action = "requeued"
  BY <1>1, WorkersAssumption DEF AppendedEvidence, RequeuedRow, Row, Evidence
<1> HIDE DEF n, x
<1>4. /\ r.generation >= 1 /\ r.generation >= r.floor
      /\ \A y \in E : y.generation = r.generation
            => y.action # "requeued" /\ y.action # "published"
      /\ \/ r.generation = r.floor /\ r.floor = 2
         \/ /\ r.generation > r.floor /\ Has(E, r.generation, "claimed")
            /\ Has(E, r.generation, "failed") \/ Has(E, r.generation, "expired")
  <2>1. /\ ~Has(E, r.generation, "requeued")
        /\ \/ /\ r.generation = r.floor /\ r.floor = 2
              /\ ~Has(E, r.generation, "published")
           \/ /\ r.generation > r.floor /\ Has(E, r.generation, "claimed")
              /\ Has(E, r.generation, "failed") \/ Has(E, r.generation, "expired")
    BY <1>1 DEF Explained, ValidState
  <2>2. \A y \in E : y.generation = r.generation => y.action # "requeued"
    BY <2>1 DEF Has
  <2>3. \A y \in E : y.generation = r.generation => y.action # "published"
    BY <2>1 DEF Explained, ValidHistory, Has, Terminal
  <2>4. QED
    BY <2>1, <2>2, <2>3 DEF Row
<1>5. ValidClaims(n, E \cup {x})
  BY <1>2, <1>3, <1>4 DEF Explained, ValidClaims, Has, Row, Evidence
<1>6. ValidHistory(n, E \cup {x})
  <2>1. \A y, z \in E \cup {x} :
            y.generation = z.generation /\ y.action = z.action => y = z
    BY <1>3, <1>4 DEF Explained, ValidHistory
  <2>2. \A y, z \in E \cup {x} :
            /\ y.generation = z.generation /\ y.action \in Terminal /\ z.action \in Terminal
            => y.action = z.action
    BY <1>3 DEF Explained, ValidHistory, Terminal
  <2>3. \A y, z \in E \cup {x} : y.generation = z.generation
            => ~(y.action = "published" /\ z.action = "requeued")
    BY <1>3, <1>4 DEF Explained, ValidHistory
  <2>4. \A y \in E \cup {x} : y.generation > r.floor => Has(E \cup {x}, y.generation, "claimed")
    BY <1>3, <1>4 DEF Explained, ValidHistory, Has, Row
  <2>5. \A y \in E \cup {x} : y.generation > r.floor /\ y.generation < r.generation
            => \E z \in E \cup {x} : z.generation = y.generation /\ z.action \in Terminal
    BY <1>3 DEF Explained, ValidHistory, Evidence, Row
  <2>6. \A y \in E \cup {x} : y.generation <= r.floor
            => y.generation = r.floor /\ y.action \in {"expired", "requeued"}
    BY <1>3, <1>4 DEF Explained, ValidHistory, Evidence, Row
  <2>7. \A y \in E \cup {x} : y.action = "requeued"
            => \/ y.generation = r.floor /\ r.floor = 2
               \/ Has(E \cup {x}, y.generation, "failed")
               \/ Has(E \cup {x}, y.generation, "expired")
    BY <1>3, <1>4 DEF Explained, ValidHistory, Has
  <2>8. \A y \in E \cup {x} : y.action = "published" => y.generation = r.generation
    BY <1>3 DEF Explained, ValidHistory
  <2>9. \A y, z \in E \cup {x} :
            /\ y.generation = z.generation /\ y.generation > r.floor
            /\ y.action = "claimed" /\ z.action \in Terminal
            => y.worker = z.worker
    BY <1>3 DEF Explained, ValidHistory, Terminal
  <2>10. QED
    BY <1>2, <2>1, <2>2, <2>3, <2>4, <2>5, <2>6, <2>7, <2>8, <2>9 DEF ValidHistory
<1>7. ValidState(n, E \cup {x})
  BY <1>1, <1>2, <1>3, <1>4 DEF Explained, ValidState, DeliveryState, Has, Terminal, Row
<1>8. QED
  BY <1>2, <1>3, <1>5, <1>6, <1>7, LimitsAssumption DEF Explained, OwnerRecorded, Noted, n, x

\* claim_pending keeps an event explained.
LEMMA ClaimedExplained ==
    ASSUME NEW r \in Row, NEW E \in SUBSET Evidence, Explained(r, E),
           ~r.published, ~r.dead, r.lock = "null", NEW w \in WorkerIds
    PROVE  /\ ClaimedRow(r, w) \in Row
           /\ Noted(E, r, ClaimedRow(r, w)) \in SUBSET Evidence
           /\ Explained(ClaimedRow(r, w), Noted(E, r, ClaimedRow(r, w)))
<1> DEFINE n == ClaimedRow(r, w)
           x == AppendedEvidence(r, n)
<1>1. DeliveryState(r) = "pending"
  BY DEF Explained, ValidState, DeliveryState
<1>2. /\ n \in Row /\ n.generation = r.generation + 1 /\ n.floor = r.floor
      /\ ~n.published /\ ~n.dead /\ n.lock = "live" /\ n.by = w /\ w # Nobody
      /\ n.attempts = r.attempts /\ ~r.dead
  BY WorkersAssumption DEF ClaimedRow, Row
<1>3. /\ x \in Evidence /\ x.generation = r.generation + 1 /\ x.action = "claimed"
      /\ x.worker = w
  BY WorkersAssumption DEF AppendedEvidence, ClaimedRow, Row, Evidence
<1> HIDE DEF n, x
<1>4. /\ \A y \in E : y.generation \in Nat /\ y.generation <= r.generation
      /\ r.generation \in Nat /\ r.floor \in Nat /\ r.floor <= r.generation
      /\ ~Has(E, r.generation, "published")
      /\ r.generation > r.floor
            => Has(E, r.generation, "failed") \/ Has(E, r.generation, "expired")
  <2>1. /\ \A y \in E : y.generation \in Nat /\ y.generation <= r.generation
        /\ r.generation \in Nat /\ r.floor \in Nat /\ r.floor <= r.generation
    BY DEF Explained, ValidClaims, Row, Evidence
  <2>2. /\ ~Has(E, r.generation, "published")
        /\ r.generation > r.floor => \/ Has(E, r.generation, "failed")
                                     \/ Has(E, r.generation, "expired")
                                     \/ Has(E, r.generation, "requeued")
    BY <1>1, <2>1 DEF Explained, ValidState, Has
  <2>3. Has(E, r.generation, "requeued") /\ r.generation > r.floor
            => Has(E, r.generation, "failed") \/ Has(E, r.generation, "expired")
    BY <2>1 DEF Explained, ValidHistory, Has
  <2>4. QED
    BY <2>1, <2>2, <2>3
<1>5. ValidClaims(n, E \cup {x})
  BY <1>2, <1>3, <1>4 DEF Explained, ValidClaims, Has, Row, Evidence
<1>6. ValidHistory(n, E \cup {x})
  <2>1. \A y \in E : y.generation # x.generation
    BY <1>3, <1>4
  <2>2. \A y, z \in E \cup {x} :
            y.generation = z.generation /\ y.action = z.action => y = z
    BY <2>1 DEF Explained, ValidHistory
  <2>3. \A y, z \in E \cup {x} :
            /\ y.generation = z.generation /\ y.action \in Terminal /\ z.action \in Terminal
            => y.action = z.action
    BY <2>1 DEF Explained, ValidHistory
  <2>4. \A y, z \in E \cup {x} : y.generation = z.generation
            => ~(y.action = "published" /\ z.action = "requeued")
    BY <1>3, <2>1 DEF Explained, ValidHistory
  <2>5. \A y \in E \cup {x} : y.generation > n.floor => Has(E \cup {x}, y.generation, "claimed")
    BY <1>2, <1>3 DEF Explained, ValidHistory, Has
  <2>6. \A y \in E \cup {x} : y.generation > n.floor /\ y.generation < n.generation
            => \E z \in E \cup {x} : z.generation = y.generation /\ z.action \in Terminal
    BY <1>2, <1>3, <1>4 DEF Explained, ValidHistory, Has, Terminal
  <2>7. \A y \in E \cup {x} : y.generation <= n.floor
            => y.generation = n.floor /\ y.action \in {"expired", "requeued"}
    BY <1>2, <1>3, <1>4 DEF Explained, ValidHistory
  <2>8. \A y \in E \cup {x} : y.action = "requeued"
            => \/ y.generation = n.floor /\ n.floor = 2
               \/ Has(E \cup {x}, y.generation, "failed")
               \/ Has(E \cup {x}, y.generation, "expired")
    BY <1>2, <1>3 DEF Explained, ValidHistory, Has
  <2>9. \A y \in E \cup {x} : y.action = "published" => y.generation = n.generation
    BY <1>3, <1>4 DEF Explained, ValidHistory, Has
  <2>10. \A y, z \in E \cup {x} :
            /\ y.generation = z.generation /\ y.generation > n.floor
            /\ y.action = "claimed" /\ z.action \in Terminal
            => y.worker = z.worker
    BY <1>2, <1>3, <2>1 DEF Explained, ValidHistory, Terminal
  <2>11. QED
    BY <2>2, <2>3, <2>4, <2>5, <2>6, <2>7, <2>8, <2>9, <2>10 DEF ValidHistory
<1>7. ValidState(n, E \cup {x})
  <2>1. DeliveryState(n) = "claimed"
    BY <1>2 DEF DeliveryState
  <2>2. /\ n.generation > n.floor /\ Has(E \cup {x}, n.generation, "claimed")
        /\ ~Has(E \cup {x}, n.generation, "requeued")
        /\ \A a \in Terminal : ~Has(E \cup {x}, n.generation, a)
    BY <1>2, <1>3, <1>4 DEF Has, Terminal
  <2>3. QED
    BY <2>1, <2>2 DEF ValidState
<1>8. OwnerRecorded(n, E \cup {x})
  BY <1>2, <1>3, <1>4 DEF OwnerRecorded
<1>9. ~n.published => (n.dead <=> n.attempts >= MaxAttempts)
  BY <1>2 DEF Explained
<1>10. QED
  BY <1>2, <1>3, <1>5, <1>6, <1>7, <1>8, <1>9 DEF Explained, Noted, n, x

\* The passage of time keeps an event explained.
LEMMA AgedExplained ==
    ASSUME NEW r \in Row, NEW E \in SUBSET Evidence, Explained(r, E), NEW n \in Row,
           n.lock # "null" <=> r.lock # "null", n.by = r.by, n.published = r.published,
           n.dead = r.dead, n.generation = r.generation, n.floor = r.floor,
           n.attempts = r.attempts
    PROVE  Explained(n, E)
<1>1. DeliveryState(n) = DeliveryState(r)
  BY DEF DeliveryState
<1>2. ValidClaims(n, E) /\ ValidHistory(n, E) /\ OwnerRecorded(n, E)
  BY DEF Explained, ValidClaims, ValidHistory, OwnerRecorded
<1>3. ValidState(n, E)
  BY <1>1 DEF Explained, ValidState
<1>4. QED
  BY <1>2, <1>3 DEF Explained

-----------------------------------------------------------------------------
\* The inductive invariant

\* Every event is explained; an id without a row has no history.
StoreInv ==
    \A e \in Events :
        /\ Explained(row[e], evidence[e])
        /\ e \notin stored => row[e] = FreshRow /\ evidence[e] = {}

\* Claims in hand or delivered were handed out, each to one process and once.
CycleInv ==
    /\ \A p \in Processes : \A c \in batch[p] \cup doing[p] :
            c.generation <= row[c.event].generation
    /\ \A c \in delivered : c.generation <= row[c.event].generation
    /\ ClaimsDisjoint
    /\ \A p \in Processes :
            /\ batch[p] \cap doing[p] = {}
            /\ batch[p] \cap delivered = {}
            /\ pc[p] = "asserted" => doing[p] \cap delivered = {}
            /\ pc[p] \in {"delivered", "publishing"} => doing[p] \subseteq delivered
            /\ pc[p] \in {"idle", "claiming", "next"} => doing[p] = {}
            /\ pc[p] \in {"idle", "claiming"} => batch[p] = {}
    /\ AcknowledgedWasDelivered

Inv == TypeOK /\ StoreInv /\ CycleInv

LEMMA InitInv == Init => Inv
<1> SUFFICES ASSUME Init PROVE Inv
  OBVIOUS
<1>1. \A e \in Events : /\ row[e] \in Row /\ Explained(row[e], {})
                        /\ row[e].generation = row[e].floor
  <2>1. FreshRow.generation = FreshRow.floor
    BY DEF FreshRow
  <2>2. QED
    BY <2>1, FreshExplained, WatermarkedExplained DEF Init
<1>2. TypeOK
  BY <1>1 DEF Init, TypeOK, Places
<1>3. StoreInv
  BY <1>1 DEF Init, StoreInv
<1>4. CycleInv
  <2>1. AcknowledgedWasDelivered
    BY <1>1 DEF Init, AcknowledgedWasDelivered, Row
  <2>2. QED
    BY <2>1 DEF Init, CycleInv, ClaimsDisjoint
<1>5. QED
  BY <1>2, <1>3, <1>4 DEF Inv

\* What _recover_expired leaves behind, for whichever rows the LIMIT selects.
LEMMA RecoveryExplained ==
    ASSUME TypeOK, StoreInv, NEW R \in SUBSET Expired(row)
    PROVE  /\ RecoveredRows(R) \in [Events -> Row]
           /\ RecoveredEvidence(R) \in [Events -> SUBSET Evidence]
           /\ \A e \in Events :
                 /\ Explained(RecoveredRows(R)[e], RecoveredEvidence(R)[e])
                 /\ RecoveredRows(R)[e].generation = row[e].generation
                 /\ RecoveredRows(R)[e].floor = row[e].floor
                 /\ RecoveredRows(R)[e].published = row[e].published
                 /\ e \notin stored => RecoveredRows(R)[e] = FreshRow
                                       /\ RecoveredEvidence(R)[e] = {}
                 /\ row[e].lock = "live" => RecoveredRows(R)[e].lock = "live"
<1>1. R \subseteq Expired(row)
  OBVIOUS
<1>2. \A e \in R : /\ e \in stored /\ e \in Events
                   /\ ~row[e].published /\ ~row[e].dead /\ row[e].lock = "lapsed"
  BY <1>1 DEF Expired, TypeOK
<1>3. \A e \in R : /\ RecoveredRow(row[e]) \in Row
                   /\ Noted(evidence[e], row[e], RecoveredRow(row[e])) \in SUBSET Evidence
                   /\ Explained(RecoveredRow(row[e]),
                                Noted(evidence[e], row[e], RecoveredRow(row[e])))
  BY <1>2, RecoveredExplained DEF TypeOK, StoreInv
<1>4. \A e \in R : /\ RecoveredRow(row[e]).generation = row[e].generation
                   /\ RecoveredRow(row[e]).floor = row[e].floor
                   /\ RecoveredRow(row[e]).published = row[e].published
  BY DEF RecoveredRow
<1>5. QED
  BY <1>2, <1>3, <1>4 DEF RecoveredRows, RecoveredEvidence, TypeOK, StoreInv

\* What claim_pending leaves behind.
LEMMA ClaimExplained ==
    ASSUME TypeOK, StoreInv, NEW R \in SUBSET Expired(row),
           NEW B \in Limited(Claimable(RecoveredRows(R))), NEW w \in WorkerIds
    PROVE  /\ ClaimedRows(R, B, w) \in [Events -> Row]
           /\ ClaimedEvidence(R, B, w) \in [Events -> SUBSET Evidence]
           /\ B \subseteq stored
           /\ \A e \in B : /\ ClaimedRows(R, B, w)[e].generation = row[e].generation + 1
                           /\ ~row[e].published
           /\ \A e \in Events \ B : ClaimedRows(R, B, w)[e].generation = row[e].generation
           /\ \A e \in Events :
                 /\ Explained(ClaimedRows(R, B, w)[e], ClaimedEvidence(R, B, w)[e])
                 /\ ClaimedRows(R, B, w)[e].floor = row[e].floor
                 /\ ClaimedRows(R, B, w)[e].published = row[e].published
                 /\ e \notin stored => ClaimedRows(R, B, w)[e] = FreshRow
                                       /\ ClaimedEvidence(R, B, w)[e] = {}
                 /\ row[e].lock = "live" => ClaimedRows(R, B, w)[e].lock = "live"
<1> DEFINE rr == RecoveredRows(R)
           ee == RecoveredEvidence(R)
<1>1. B \subseteq Claimable(rr)
  BY DEF Limited
<1>2. \A e \in B : /\ e \in stored /\ e \in Events
                   /\ ~rr[e].published /\ ~rr[e].dead /\ rr[e].lock = "null"
  BY <1>1 DEF Claimable, TypeOK
<1>3. /\ rr \in [Events -> Row] /\ ee \in [Events -> SUBSET Evidence]
      /\ \A e \in Events :
            /\ Explained(rr[e], ee[e])
            /\ rr[e].generation = row[e].generation
            /\ rr[e].floor = row[e].floor
            /\ rr[e].published = row[e].published
            /\ e \notin stored => rr[e] = FreshRow /\ ee[e] = {}
            /\ row[e].lock = "live" => rr[e].lock = "live"
  BY RecoveryExplained
<1>4. \A e \in Events :
         /\ ClaimedRows(R, B, w)[e] = IF e \in B THEN ClaimedRow(rr[e], w) ELSE rr[e]
         /\ ClaimedEvidence(R, B, w)[e] =
               IF e \in B THEN Noted(ee[e], rr[e], ClaimedRow(rr[e], w)) ELSE ee[e]
  BY DEF ClaimedRows, ClaimedEvidence
<1>5. /\ DOMAIN ClaimedRows(R, B, w) = Events /\ DOMAIN ClaimedEvidence(R, B, w) = Events
      /\ ClaimedRows(R, B, w) = [e \in Events |-> ClaimedRows(R, B, w)[e]]
      /\ ClaimedEvidence(R, B, w) = [e \in Events |-> ClaimedEvidence(R, B, w)[e]]
  BY DEF ClaimedRows, ClaimedEvidence
<1> HIDE DEF rr, ee
<1>6. \A e \in B : /\ ClaimedRow(rr[e], w) \in Row
                   /\ Noted(ee[e], rr[e], ClaimedRow(rr[e], w)) \in SUBSET Evidence
                   /\ Explained(ClaimedRow(rr[e], w),
                                Noted(ee[e], rr[e], ClaimedRow(rr[e], w)))
  BY <1>2, <1>3, ClaimedExplained
<1>7. \A e \in B : /\ ClaimedRow(rr[e], w).generation = rr[e].generation + 1
                   /\ ClaimedRow(rr[e], w).floor = rr[e].floor
                   /\ ClaimedRow(rr[e], w).published = rr[e].published
                   /\ ClaimedRow(rr[e], w).lock = "live"
  BY DEF ClaimedRow
<1>8. \A e \in Events : /\ ClaimedRows(R, B, w)[e] \in Row
                        /\ ClaimedEvidence(R, B, w)[e] \in SUBSET Evidence
  BY <1>3, <1>4, <1>6
<1>9. \A e \in Events :
          /\ Explained(ClaimedRows(R, B, w)[e], ClaimedEvidence(R, B, w)[e])
          /\ ClaimedRows(R, B, w)[e].floor = row[e].floor
          /\ ClaimedRows(R, B, w)[e].published = row[e].published
          /\ e \notin stored => ClaimedRows(R, B, w)[e] = FreshRow
                                /\ ClaimedEvidence(R, B, w)[e] = {}
          /\ row[e].lock = "live" => ClaimedRows(R, B, w)[e].lock = "live"
  BY <1>2, <1>3, <1>4, <1>6, <1>7
<1>10. /\ \A e \in B : /\ ClaimedRows(R, B, w)[e].generation = row[e].generation + 1
                       /\ ~row[e].published
       /\ \A e \in Events \ B : ClaimedRows(R, B, w)[e].generation = row[e].generation
  BY <1>2, <1>3, <1>4, <1>7
<1>11. QED
  BY <1>2, <1>5, <1>8, <1>9, <1>10

\* Giving up a cycle only drops claims.
LEMMA AbandonInv ==
    ASSUME Inv, NEW p \in Processes, Abandon(p)
    PROVE  Inv'
<1>1. TypeOK'
  BY DEF Inv, TypeOK, Places, Abandon
<1>2. StoreInv'
  BY DEF Inv, StoreInv, Abandon
<1>3. CycleInv'
  BY DEF Inv, TypeOK, CycleInv, ClaimsDisjoint, AcknowledgedWasDelivered, Abandon
<1>4. QED
  BY <1>1, <1>2, <1>3 DEF Inv

\* The clock of the fencing guard: a mark that the triggers admit finds a live lease.
LEMMA TriggersFence ==
    ASSUME NEW r, NEW E, NEW n \in {PublishedRow(r), FailedRow(r)}, TriggersAdmit(r, n, E)
    PROVE  r.lock = "live"
<1>1. /\ n.lock = "null" /\ n.by = Nobody /\ n.error \in {"none", "failure"}
      /\ n.error = "none" => n.published
  BY DEF PublishedRow, FailedRow
<1>2. FencingGuard(r, n)
  BY DEF TriggersAdmit
<1>3. QED
  BY <1>1, <1>2 DEF FencingGuard

\* A mark of a live claim, given that the row it writes is explained.
LEMMA MarkedInv ==
    ASSUME Inv, NEW p \in Processes, NEW c \in doing[p], NEW new \in Row,
           LiveClaim(p, c), Marked(p, c, new),
           Noted(evidence[c.event], row[c.event], new) \in SUBSET Evidence,
           Explained(new, Noted(evidence[c.event], row[c.event], new)),
           new.generation = row[c.event].generation, new.published => c \in delivered
    PROVE  Inv'
<1>1. c \in Claim /\ c.event \in Events /\ c = [event |-> c.event, generation |-> c.generation]
  BY DEF Inv, TypeOK, Claim
<1>2. c.event \in stored
  BY <1>1 DEF LiveClaim, Inv, StoreInv, FreshRow
<1>3. TypeOK'
  BY <1>1 DEF Inv, TypeOK, Places, Marked
<1>4. StoreInv'
  BY <1>1, <1>2 DEF Inv, TypeOK, StoreInv, Marked
<1>5. \A e \in Events : row'[e].generation = row[e].generation
  BY <1>1 DEF Inv, TypeOK, Marked
<1>6. AcknowledgedWasDelivered'
  <2>1. SUFFICES ASSUME NEW e \in stored', row'[e].published,
                        row'[e].generation > row'[e].floor
                 PROVE  [event |-> e, generation |-> row'[e].generation] \in delivered'
    BY DEF AcknowledgedWasDelivered
  <2>2. CASE e = c.event
    <3>1. row'[e] = new /\ delivered' = delivered
      BY <2>2, <1>1 DEF Marked, Inv, TypeOK
    <3>2. c.generation = row[c.event].generation
      BY DEF LiveClaim
    <3>3. QED
      BY <2>1, <2>2, <3>1, <3>2, <1>1
  <2>3. CASE e # c.event
    BY <2>1, <2>3 DEF Marked, Inv, TypeOK, CycleInv, AcknowledgedWasDelivered
  <2>4. QED
    BY <2>2, <2>3
<1>7. CycleInv'
  <2>1. /\ batch' = batch /\ delivered' = delivered
        /\ \A q \in Processes : doing'[q] = IF q = p THEN {} ELSE doing[q]
        /\ \A q \in Processes : q # p => pc'[q] = pc[q]
        /\ pc'[p] = IF batch[p] = {} THEN "idle" ELSE "next"
    BY DEF Marked, Inv, TypeOK
  <2>2. \A q \in Processes : \A d \in batch'[q] \cup doing'[q] :
            d.generation <= row'[d.event].generation
    BY <1>5, <2>1 DEF Inv, TypeOK, CycleInv, Claim
  <2>3. \A d \in delivered' : d.generation <= row'[d.event].generation
    BY <1>5, <2>1 DEF Inv, TypeOK, CycleInv, Claim
  <2>4. ClaimsDisjoint'
    BY <2>1 DEF Inv, CycleInv, ClaimsDisjoint
  <2>5. \A q \in Processes :
            /\ batch'[q] \cap doing'[q] = {}
            /\ batch'[q] \cap delivered' = {}
            /\ pc'[q] = "asserted" => doing'[q] \cap delivered' = {}
            /\ pc'[q] \in {"delivered", "publishing"} => doing'[q] \subseteq delivered'
            /\ pc'[q] \in {"idle", "claiming", "next"} => doing'[q] = {}
            /\ pc'[q] \in {"idle", "claiming"} => batch'[q] = {}
    BY <2>1 DEF Inv, CycleInv
  <2>6. QED
    BY <1>6, <2>2, <2>3, <2>4, <2>5 DEF CycleInv
<1>8. QED
  BY <1>3, <1>4, <1>7 DEF Inv

LEMMA MarkPublishedInv == ASSUME Inv, NEW p \in Processes, MarkPublished(p) PROVE Inv'
<1>1. PICK c \in doing[p] : LiveClaim(p, c) /\ Marked(p, c, PublishedRow(row[c.event]))
  BY DEF MarkPublished
<1>2. c.event \in Events /\ c \in delivered
  BY DEF MarkPublished, Inv, TypeOK, Claim, CycleInv
<1>3. PublishedRow(row[c.event]).generation = row[c.event].generation
  BY DEF PublishedRow
<1>4. row[c.event].lock = "live"
  BY <1>1, <1>2, TriggersFence DEF Marked
<1>5. QED
  BY <1>1, <1>2, <1>3, <1>4, PublishedExplained, MarkedInv DEF Inv, TypeOK, StoreInv, LiveClaim

LEMMA MarkFailedInv == ASSUME Inv, NEW p \in Processes, MarkFailed(p) PROVE Inv'
<1>1. PICK c \in doing[p] : LiveClaim(p, c) /\ Marked(p, c, FailedRow(row[c.event]))
  BY DEF MarkFailed
<1>2. c.event \in Events
  BY DEF Inv, TypeOK, Claim
<1>3. /\ FailedRow(row[c.event]).generation = row[c.event].generation
      /\ FailedRow(row[c.event]).published = row[c.event].published
  BY DEF FailedRow
<1>4. row[c.event].lock = "live"
  BY <1>1, <1>2, TriggersFence DEF Marked
<1>5. QED
  BY <1>1, <1>2, <1>3, <1>4, FailedExplained, MarkedInv DEF Inv, TypeOK, StoreInv, LiveClaim

\* An UPDATE outside of any cycle that leaves generation and published alone.
LEMMA RowStepInv ==
    ASSUME Inv, UNCHANGED <<stored, pc, batch, doing, delivered>>,
           late' \in [Processes -> SUBSET Events], row' \in [Events -> Row], evidence' \in [Events -> SUBSET Evidence],
           \A e \in Events : /\ Explained(row'[e], evidence'[e])
                             /\ row'[e].generation = row[e].generation
                             /\ row'[e].floor = row[e].floor
                             /\ row'[e].published = row[e].published
                             /\ e \notin stored => row'[e] = FreshRow /\ evidence'[e] = {}
    PROVE  Inv'
<1>1. TypeOK'
  BY DEF Inv, TypeOK
<1>2. StoreInv'
  BY DEF StoreInv
<1>3. CycleInv'
  BY DEF Inv, TypeOK, Claim, CycleInv, ClaimsDisjoint, AcknowledgedWasDelivered
<1>4. QED
  BY <1>1, <1>2, <1>3 DEF Inv

LEMMA ClaimPendingInv == ASSUME Inv, NEW p \in Processes, ClaimPending(p) PROVE Inv'
<1> DEFINE w == WorkerIdOf[p]
<1>1. w \in WorkerIds
  BY WorkersAssumption
<1>2. \E R \in SUBSET Expired(row) : \E B \in Limited(Claimable(RecoveredRows(R))) :
          /\ row' = ClaimedRows(R, B, w)
          /\ evidence' = ClaimedEvidence(R, B, w)
          /\ batch' = [batch EXCEPT ![p] = ClaimsOf(R, B)]
          /\ pc' = [pc EXCEPT ![p] = IF B = {} THEN "idle" ELSE "next"]
  BY DEF ClaimPending, Limited
<1>3. PICK R \in SUBSET Expired(row) : \E B \in Limited(Claimable(RecoveredRows(R))) :
          /\ row' = ClaimedRows(R, B, w)
          /\ evidence' = ClaimedEvidence(R, B, w)
          /\ batch' = [batch EXCEPT ![p] = ClaimsOf(R, B)]
          /\ pc' = [pc EXCEPT ![p] = IF B = {} THEN "idle" ELSE "next"]
  BY <1>2
<1>4. PICK B \in Limited(Claimable(RecoveredRows(R))) :
          /\ row' = ClaimedRows(R, B, w)
          /\ evidence' = ClaimedEvidence(R, B, w)
          /\ batch' = [batch EXCEPT ![p] = ClaimsOf(R, B)]
          /\ pc' = [pc EXCEPT ![p] = IF B = {} THEN "idle" ELSE "next"]
  BY <1>3
<1>5. /\ pc[p] = "claiming" /\ late' = [late EXCEPT ![p] = {}]
      /\ UNCHANGED <<stored, doing, delivered>>
  BY DEF ClaimPending
<1> HIDE DEF w
<1>6. /\ row' \in [Events -> Row] /\ evidence' \in [Events -> SUBSET Evidence]
      /\ B \subseteq stored
      /\ \A e \in B : row'[e].generation = row[e].generation + 1 /\ ~row[e].published
      /\ \A e \in Events \ B : row'[e].generation = row[e].generation
      /\ \A e \in Events :
            /\ Explained(row'[e], evidence'[e])
            /\ row'[e].floor = row[e].floor /\ row'[e].published = row[e].published
            /\ e \notin stored => row'[e] = FreshRow /\ evidence'[e] = {}
  BY <1>1, <1>4, ClaimExplained DEF Inv
<1>7. B \subseteq Events /\ \A e \in Events : row[e] \in Row /\ row'[e] \in Row
  BY <1>6 DEF Inv, TypeOK
<1>8. ClaimsOf(R, B) = {[event |-> e, generation |-> row[e].generation + 1] : e \in B}
  BY <1>7, RecoveryExplained DEF ClaimsOf, Inv
<1>9. /\ ClaimsOf(R, B) \subseteq Claim
      /\ \A d \in ClaimsOf(R, B) : /\ d.event \in B
                                   /\ d.generation = row[d.event].generation + 1
                                   /\ d.generation = row'[d.event].generation
  BY <1>6, <1>7, <1>8 DEF Claim, Row
<1>10. \A d \in Claim : d.generation <= row[d.event].generation =>
          /\ d \notin ClaimsOf(R, B)
          /\ d.generation <= row'[d.event].generation
  BY <1>6, <1>7, <1>9 DEF Claim, Row
<1>11. TypeOK'
  BY <1>5, <1>4, <1>6, <1>9 DEF Inv, TypeOK, Places
<1>12. StoreInv'
  BY <1>5, <1>6 DEF StoreInv
<1>13. CycleInv'
  <2>1. /\ \A q \in Processes : q # p => batch'[q] = batch[q] /\ pc'[q] = pc[q]
        /\ batch'[p] = ClaimsOf(R, B) /\ doing' = doing /\ delivered' = delivered
        /\ doing[p] = {} /\ batch[p] = {}
        /\ pc'[p] \in {"idle", "next"} /\ (pc'[p] = "idle" => B = {})
    BY <1>5, <1>4 DEF Inv, TypeOK, CycleInv
  <2>2. \A q \in Processes : \A d \in batch[q] \cup doing[q] :
            d \in Claim /\ d.generation <= row[d.event].generation
    BY DEF Inv, TypeOK, CycleInv
  <2>3. \A d \in delivered : d \in Claim /\ d.generation <= row[d.event].generation
    BY DEF Inv, TypeOK, CycleInv
  <2>4. \A q \in Processes : \A d \in batch'[q] \cup doing'[q] :
            d.generation <= row'[d.event].generation
    BY <1>7, <1>9, <1>10, <2>1, <2>2 DEF Row
  <2>5. \A d \in delivered' : d.generation <= row'[d.event].generation
    BY <1>10, <2>1, <2>3
  <2>6. ClaimsDisjoint'
    BY <1>10, <2>1, <2>2 DEF Inv, CycleInv, ClaimsDisjoint
  <2>7. \A q \in Processes :
            /\ batch'[q] \cap doing'[q] = {}
            /\ batch'[q] \cap delivered' = {}
            /\ pc'[q] = "asserted" => doing'[q] \cap delivered' = {}
            /\ pc'[q] \in {"delivered", "publishing"} => doing'[q] \subseteq delivered'
            /\ pc'[q] \in {"idle", "claiming", "next"} => doing'[q] = {}
            /\ pc'[q] \in {"idle", "claiming"} => batch'[q] = {}
    <3>1. B = {} => ClaimsOf(R, B) = {}
      BY <1>8
    <3>2. ClaimsOf(R, B) \cap delivered = {}
      BY <1>10, <2>3
    <3>3. QED
      BY <2>1, <3>1, <3>2 DEF Inv, CycleInv
  <2>8. AcknowledgedWasDelivered'
    <3>1. \A e \in stored : row'[e].published => row'[e].generation = row[e].generation
      BY <1>6, <1>7 DEF Inv, TypeOK
    <3>2. QED
      BY <1>5, <1>6, <3>1 DEF Inv, TypeOK, CycleInv, AcknowledgedWasDelivered
  <2>9. QED
    BY <2>4, <2>5, <2>6, <2>7, <2>8 DEF CycleInv
<1>14. QED
  BY <1>11, <1>12, <1>13 DEF Inv

LEMMA AssertClaimInv == ASSUME Inv, NEW p \in Processes, AssertClaim(p) PROVE Inv'
<1>1. PICK c \in batch[p] : /\ batch' = [batch EXCEPT ![p] = @ \ {c}]
                            /\ doing' = [doing EXCEPT ![p] = {c}]
  BY DEF AssertClaim
<1>2. /\ pc[p] = "next" /\ pc' = [pc EXCEPT ![p] = "asserted"]
      /\ UNCHANGED <<stored, row, evidence, late, delivered>>
  BY DEF AssertClaim
<1>3. TypeOK'
  BY <1>1, <1>2 DEF Inv, TypeOK, Places
<1>4. StoreInv'
  BY <1>2 DEF Inv, StoreInv
<1>5. \A q \in Processes : /\ q # p => /\ batch'[q] = batch[q] /\ doing'[q] = doing[q]
                                       /\ pc'[q] = pc[q]
                           /\ q = p => /\ batch'[q] = batch[q] \ {c} /\ doing'[q] = {c}
                                       /\ pc'[q] = "asserted" /\ doing[q] = {}
  BY <1>1, <1>2 DEF Inv, TypeOK, CycleInv
<1>6. CycleInv'
  <2>1. \A q \in Processes : batch'[q] \cup doing'[q] \subseteq batch[q] \cup doing[q]
    BY <1>5
  <2>2. ClaimsDisjoint'
    BY <2>1 DEF Inv, CycleInv, ClaimsDisjoint
  <2>3. AcknowledgedWasDelivered'
    BY <1>2 DEF Inv, CycleInv, AcknowledgedWasDelivered
  <2>4. QED
    BY <1>2, <1>5, <2>1, <2>2, <2>3 DEF Inv, CycleInv
<1>7. QED
  BY <1>3, <1>4, <1>6 DEF Inv

\* A publisher call of p, however it ends.
LEMMA PublishInv ==
    ASSUME Inv, NEW p \in Processes, PublishReturns(p) \/ PublishRaises(p)
    PROVE  Inv'
<1>1. /\ pc[p] = "asserted" /\ UNCHANGED <<stored, row, evidence, batch, doing, late>>
      /\ \/ pc' = [pc EXCEPT ![p] = "delivered"] /\ delivered' = delivered \cup doing[p]
         \/ /\ pc' = [pc EXCEPT ![p] = "failed"]
            /\ delivered' \in {delivered, delivered \cup doing[p]}
  BY DEF PublishReturns, PublishRaises
<1>2. delivered \subseteq delivered' /\ delivered' \subseteq delivered \cup doing[p]
  BY <1>1
<1>3. TypeOK'
  BY <1>1 DEF Inv, TypeOK, Places
<1>4. StoreInv'
  BY <1>1 DEF Inv, StoreInv
<1>5. CycleInv'
  <2>1. \A q \in Processes : /\ q # p => pc'[q] = pc[q]
                             /\ q = p => /\ pc'[q] \in {"delivered", "failed"}
                                         /\ (pc'[q] = "delivered" => doing[q] \subseteq delivered')
    BY <1>1 DEF Inv, TypeOK
  <2>2. \A q \in Processes : q # p => (batch[q] \cup doing[q]) \cap doing[p] = {}
    BY DEF Inv, CycleInv, ClaimsDisjoint
  <2>3. \A q \in Processes :
            /\ batch'[q] \cap delivered' = {}
            /\ pc'[q] = "asserted" => doing'[q] \cap delivered' = {}
            /\ pc'[q] \in {"delivered", "publishing"} => doing'[q] \subseteq delivered'
    BY <1>1, <1>2, <2>1, <2>2 DEF Inv, CycleInv
  <2>4. ClaimsDisjoint' /\ AcknowledgedWasDelivered'
    BY <1>1, <1>2 DEF Inv, CycleInv, ClaimsDisjoint, AcknowledgedWasDelivered
  <2>5. QED
    BY <1>1, <1>2, <2>1, <2>3, <2>4 DEF Inv, CycleInv
<1>6. QED
  BY <1>3, <1>4, <1>5 DEF Inv

\* Reading the clock moves the cycle on and nothing else.
LEMMA ReadClockInv == ASSUME Inv, NEW p \in Processes, ReadClock(p) PROVE Inv'
<1>1. /\ UNCHANGED <<stored, row, evidence, batch, doing, late, delivered>>
      /\ \A q \in Processes : q # p => pc'[q] = pc[q]
      /\ \/ pc[p] = "idle" /\ pc' = [pc EXCEPT ![p] = "claiming"]
         \/ pc[p] = "delivered" /\ pc' = [pc EXCEPT ![p] = "publishing"]
         \/ pc[p] = "failed" /\ pc' = [pc EXCEPT ![p] = "failing"]
  BY DEF ReadClock, Inv, TypeOK
<1>2. TypeOK'
  BY <1>1 DEF Inv, TypeOK, Places
<1>3. StoreInv'
  BY <1>1 DEF Inv, StoreInv
<1>4. CycleInv'
  BY <1>1 DEF Inv, TypeOK, CycleInv, ClaimsDisjoint, AcknowledgedWasDelivered
<1>5. QED
  BY <1>2, <1>3, <1>4 DEF Inv

LEMMA NextInv == Inv /\ [Next]_vars => Inv'
<1> SUFFICES ASSUME Inv, [Next]_vars PROVE Inv'
  OBVIOUS
<1>1. ASSUME NEW e \in Events, Enqueue(e) PROVE Inv'
  <2>1. TypeOK' /\ StoreInv'
    BY <1>1 DEF Enqueue, Inv, TypeOK, StoreInv
  <2>2. ~row[e].published
    BY <1>1 DEF Enqueue, Inv, StoreInv, FreshRow
  <2>3. CycleInv'
    BY <1>1, <2>2 DEF Enqueue, Inv, CycleInv, ClaimsDisjoint, AcknowledgedWasDelivered
  <2>4. QED
    BY <2>1, <2>3 DEF Inv
<1>2. ASSUME NEW e \in Events, Lapse(e) \/ BecomeReady(e) PROVE Inv'
  <2>1. \A d \in Events : /\ row'[d] \in Row
                          /\ row'[d].generation = row[d].generation
                          /\ row'[d].floor = row[d].floor /\ row'[d].by = row[d].by
                          /\ row'[d].published = row[d].published
                          /\ row'[d].dead = row[d].dead /\ row'[d].attempts = row[d].attempts
                          /\ row'[d].lock # "null" <=> row[d].lock # "null"
                          /\ d \notin stored => row'[d] = row[d]
    <3>1. e \in stored /\ \A d \in Events : row[d] \in Row /\ (d # e => row'[d] = row[d])
      BY <1>2 DEF Lapse, BecomeReady, Inv, TypeOK
    <3>2. CASE Lapse(e)
      <4>1. row[e].lock = "live" /\ row'[e] = [row[e] EXCEPT !.lock = "lapsed"]
        BY <3>2 DEF Lapse, Inv, TypeOK
      <4>2. QED
        BY <3>1, <4>1 DEF Row
    <3>3. CASE BecomeReady(e)
      <4>1. row'[e] = [row[e] EXCEPT !.ready = TRUE]
        BY <3>3 DEF BecomeReady, Inv, TypeOK
      <4>2. row'[e] \in Row
        BY <3>1, <4>1 DEF Row
      <4>3. /\ row'[e].generation = row[e].generation
            /\ row'[e].floor = row[e].floor /\ row'[e].by = row[e].by
            /\ row'[e].published = row[e].published /\ row'[e].dead = row[e].dead
            /\ row'[e].attempts = row[e].attempts /\ row'[e].lock = row[e].lock
        BY <3>1, <4>1 DEF Row
      <4>4. QED
        BY <3>1, <4>2, <4>3
    <3>4. QED
      BY <1>2, <3>2, <3>3
  <2>2. \A d \in Events : Explained(row'[d], evidence[d])
    BY <2>1, AgedExplained DEF Inv, TypeOK, StoreInv
  <2>3. /\ row' \in [Events -> Row] /\ late' \in [Processes -> SUBSET Events]
        /\ UNCHANGED <<stored, evidence, pc, batch, doing, delivered>>
    BY <1>2, <2>1 DEF Lapse, BecomeReady, Inv, TypeOK
  <2>4. QED
    BY <2>1, <2>2, <2>3, RowStepInv DEF Inv, TypeOK, StoreInv
<1>3. ASSUME NEW e \in Events, RequeueDeadLetter(e) PROVE Inv'
  <2> DEFINE n == RequeuedRow(row[e])
  <2>1. /\ n \in Row /\ Noted(evidence[e], row[e], n) \in SUBSET Evidence
        /\ Explained(n, Noted(evidence[e], row[e], n))
    BY <1>3, RequeuedExplained DEF RequeueDeadLetter, Inv, TypeOK, StoreInv
  <2>2. /\ n.generation = row[e].generation /\ n.floor = row[e].floor
        /\ n.published = row[e].published
    BY DEF RequeuedRow
  <2>3. /\ e \in stored /\ row' = [row EXCEPT ![e] = n]
        /\ evidence' = [evidence EXCEPT ![e] = Noted(@, row[e], n)]
        /\ UNCHANGED <<stored, pc, batch, doing, late, delivered>>
    BY <1>3 DEF RequeueDeadLetter
  <2> HIDE DEF n
  <2>4. QED
    BY <2>1, <2>2, <2>3, RowStepInv DEF Inv, TypeOK, StoreInv
<1>4. ASSUME NEW p \in Processes, Cycle(p) PROVE Inv'
  BY <1>4, AssertClaimInv, PublishInv, MarkPublishedInv, MarkFailedInv, AbandonInv
     DEF Cycle, AssertRefused, MarkRefused
<1>5. ASSUME NEW p \in Processes, Crash(p) PROVE Inv'
  BY <1>5, AbandonInv DEF Crash
<1>6. CASE RecoverExpired
  <2>1. PICK R \in SUBSET Expired(row) :
            /\ row' = RecoveredRows(R) /\ evidence' = RecoveredEvidence(R)
            /\ UNCHANGED <<stored, pc, batch, doing, late, delivered>>
    BY <1>6 DEF RecoverExpired, Limited
  <2>2. QED
    BY <2>1, RecoveryExplained, RowStepInv DEF Inv, TypeOK
<1>7. CASE UNCHANGED vars
  BY <1>7 DEF vars, Inv, TypeOK, StoreInv, CycleInv, ClaimsDisjoint, AcknowledgedWasDelivered
<1>8. QED
  BY <1>1, <1>2, <1>3, <1>4, <1>5, <1>6, <1>7, ClaimPendingInv, ReadClockInv DEF Next

LEMMA InvariantHolds == Spec => []Inv
BY InitInv, NextInv, PTL DEF Spec

-----------------------------------------------------------------------------
\* The tables and the processes' cycles keep their types.
THEOREM OutboxTypes == Spec => []TypeOK
BY InvariantHolds, PTL DEF Inv

\* Whatever the migration found and however deliveries, crashes, recoveries and
\* replays interleave, the store passes the repository's own validator, so
\* _verify_retained_evidence never refuses a store that it reads in one piece.
THEOREM EvidenceSound == Spec => []EvidenceExplainsState
<1>1. Inv => EvidenceExplainsState
  BY DEF Inv, StoreInv, Explained, EvidenceExplainsState, ValidStorage, TypeOK
<1>2. QED
  BY <1>1, InvariantHolds, PTL

\* No sequence of failures and crashes leaves an event that is neither settled
\* nor claimable under the ceiling.
THEOREM AttemptsSound == Spec => []NeverStranded
<1>1. Inv => NeverStranded
  BY DEF Inv, StoreInv, Explained, NeverStranded, TypeOK
<1>2. QED
  BY <1>1, InvariantHolds, PTL

\* A generation of an event is held by one process, shared labels or not.
THEOREM ClaimsFenced == Spec => []ClaimsDisjoint
<1>1. Inv => ClaimsDisjoint
  BY DEF Inv, CycleInv
<1>2. QED
  BY <1>1, InvariantHolds, PTL

\* An acknowledged event was accepted by the publisher.
THEOREM AtLeastOnce == Spec => []AcknowledgedWasDelivered
<1>1. Inv => AcknowledgedWasDelivered
  BY DEF Inv, CycleInv
<1>2. QED
  BY <1>1, InvariantHolds, PTL

\* process_once hands a claim to the publisher at most once.
THEOREM DeliveredOncePerClaim == Spec => OneDeliveryPerClaim
<1>1. Inv => \A p \in Processes :
                pc[p] = "asserted" /\ pc'[p] \in {"delivered", "failed"}
                    => doing[p] \cap delivered = {}
  BY DEF Inv, CycleInv
<1>2. QED
  BY <1>1, InvariantHolds, PTL DEF OneDeliveryPerClaim

\* A live lease is ended by the process that holds its generation, and by nobody
\* else: expiry recovery, replay and stale marks leave it alone.  A lapsed lease is
\* ended by recovery only, also when its owner's mark read the clock in time.
THEOREM MarksFenced == Spec => LeaseIsFenced
<1> DEFINE Holds(e) == /\ row[e].lock = "live" =>
                             \E p \in Processes :
                                 [event |-> e, generation |-> row[e].generation] \in doing[p]
                       /\ row[e].lock = "lapsed" => row'[e] = RecoveredRow(row[e])
<1>1. Inv /\ [Next]_vars => \A e \in Events : row'[e].lock = "null" => Holds(e)
  <2> SUFFICES ASSUME Inv, [Next]_vars, NEW e \in Events, row'[e].lock = "null",
                      row[e].lock # "null"
               PROVE  Holds(e)
    BY DEF Inv, TypeOK, Row
  <2>1. ASSUME NEW p \in Processes, NEW c \in doing[p], LiveClaim(p, c),
               NEW n \in {PublishedRow(row[c.event]), FailedRow(row[c.event])}, Marked(p, c, n)
        PROVE  Holds(e)
    <3>1. e = c.event
      BY <2>1 DEF Marked, Inv, TypeOK, Claim
    <3>2. c = [event |-> c.event, generation |-> c.generation]
      BY DEF Inv, TypeOK, Claim
    <3>3. c.generation = row[c.event].generation
      BY <2>1 DEF LiveClaim
    <3>4. row[c.event].lock = "live"
      BY <2>1, TriggersFence DEF Marked
    <3>5. QED
      BY <3>1, <3>2, <3>3, <3>4
  <2>2. ASSUME NEW R \in SUBSET Expired(row), row'[e] = RecoveredRows(R)[e] PROVE Holds(e)
    <3>1. row'[e] = IF e \in R THEN RecoveredRow(row[e]) ELSE row[e]
      BY <2>2 DEF RecoveredRows
    <3>2. e \in R
      BY <3>1
    <3>3. row[e].lock = "lapsed"
      BY <2>2, <3>2 DEF Expired
    <3>4. QED
      BY <3>1, <3>2, <3>3
  <2>3. ASSUME NEW p \in Processes, ClaimPending(p) PROVE Holds(e)
    <3>1. PICK R \in SUBSET Expired(row) : \E B \in Limited(Claimable(RecoveredRows(R))) :
              row' = ClaimedRows(R, B, WorkerIdOf[p])
      BY <2>3 DEF ClaimPending, Limited
    <3>2. PICK B : row' = ClaimedRows(R, B, WorkerIdOf[p])
      BY <3>1
    <3>3. row'[e] = IF e \in B THEN ClaimedRow(RecoveredRows(R)[e], WorkerIdOf[p])
                    ELSE RecoveredRows(R)[e]
      BY <3>2 DEF ClaimedRows
    <3>4. e \notin B
      BY <3>3 DEF ClaimedRow
    <3>5. QED
      BY <2>2, <3>3, <3>4
  <2>4. ASSUME RecoverExpired PROVE Holds(e)
    BY <2>2, <2>4 DEF RecoverExpired, Limited
  <2>5. ASSUME NEW d \in Events, RequeueDeadLetter(d) PROVE FALSE
    <3>1. d = e
      BY <2>5 DEF RequeueDeadLetter, Inv, TypeOK
    <3>2. row[e].dead /\ ~row[e].published
      BY <2>5, <3>1 DEF RequeueDeadLetter
    <3>3. QED
      BY <3>2 DEF Inv, StoreInv, Explained, ValidState, DeliveryState
  <2>6. ASSUME NEW d \in Events, Lapse(d) \/ BecomeReady(d) PROVE FALSE
    BY <2>6 DEF Lapse, BecomeReady, Inv, TypeOK, Row
  <2>7. ASSUME UNCHANGED row PROVE FALSE
    BY <2>7
  <2>8. ASSUME NEW p \in Processes, Cycle(p) \/ Crash(p) PROVE Holds(e)
    <3>1. CASE MarkPublished(p) \/ MarkFailed(p)
      BY <2>1, <3>1 DEF MarkPublished, MarkFailed
    <3>2. CASE UNCHANGED row
      BY <2>7, <3>2
    <3>3. QED
      BY <2>8, <3>1, <3>2 DEF Cycle, Crash, AssertClaim, AssertRefused, PublishReturns,
          PublishRaises, MarkRefused, Abandon
  <2> HIDE DEF Holds
  <2>9. QED
    BY <2>3, <2>4, <2>5, <2>6, <2>7, <2>8 DEF Next, vars, Enqueue, ReadClock
<1>2. QED
  BY <1>1, InvariantHolds, PTL DEF LeaseIsFenced, Spec

-----------------------------------------------------------------------------
\* The triggers and the repository

\* The claimed records of an explained event are as many as the generations it
\* has been dealt since the migration: the admission trigger counts right.
LEMMA ClaimsCounted ==
    ASSUME NEW r \in Row, NEW E \in SUBSET Evidence, Explained(r, E)
    PROVE  Cardinality({y \in E : /\ y.action = "claimed" /\ y.generation > r.floor
                                  /\ y.generation < r.generation + 1})
               = r.generation - r.floor
<1> DEFINE S == {y \in E : /\ y.action = "claimed" /\ y.generation > r.floor
                           /\ y.generation < r.generation + 1}
           T == r.floor + 1 .. r.generation
           f == [y \in S |-> y.generation]
<1>1. r.generation \in Nat /\ r.floor \in Nat /\ r.floor <= r.generation
  BY DEF Row, Explained, ValidClaims
<1>2. \A y \in E : y.generation \in Nat
  BY DEF Evidence
<1>3. f \in [S -> T]
  BY <1>1, <1>2
<1>4. \A y, z \in S : f[y] = f[z] => y = z
  BY DEF Explained, ValidHistory
<1>5. \A g \in T : \E y \in S : f[y] = g
  BY <1>1, <1>2 DEF Explained, ValidClaims, Has
<1>6. f \in Injection(S, T) /\ f \in Surjection(S, T)
  BY <1>3, <1>4, <1>5 DEF Injection, Surjection, IsInjective
<1>7. IsFiniteSet(T) /\ Cardinality(T) = r.generation - r.floor
  <2>1. r.floor + 1 \in Int /\ r.generation \in Int
    BY <1>1
  <2>2. /\ IsFiniteSet(T)
        /\ Cardinality(T) = IF r.floor + 1 > r.generation THEN 0
                            ELSE r.generation - (r.floor + 1) + 1
    BY <2>1, FS_Interval
  <2>3. QED
    BY <1>1, <2>2
<1> HIDE DEF S, T, f
<1>8. Cardinality(S) = Cardinality(T)
  BY <1>6, <1>7, FS_Injection
<1>9. QED
  BY <1>7, <1>8 DEF S

\* _recover_expired passes the guards.
LEMMA RecoveryAdmitted ==
    ASSUME NEW r \in Row, NEW E \in SUBSET Evidence, Explained(r, E),
           ~r.published, ~r.dead, r.lock = "lapsed"
    PROVE  TriggersAdmit(r, RecoveredRow(r), E)
<1> DEFINE n == RecoveredRow(r)
           x == AppendedEvidence(r, n)
<1>1. DeliveryState(r) = "claimed" /\ r.by # Nobody
  BY DEF Explained, ValidState, DeliveryState
<1>2. /\ r.generation \in Nat /\ r.floor \in Nat /\ r.floor <= r.generation
      /\ r.attempts \in Nat
  BY DEF Row, Explained, ValidClaims
<1>3. /\ n.published = r.published /\ n.lock = "null" /\ n.by = Nobody
      /\ n.attempts = r.attempts + 1 /\ n.error = "LEASE_EXPIRED"
      /\ n.generation = r.generation /\ n.floor = r.floor
  BY DEF RecoveredRow
<1>4. x.action = "expired" /\ x.generation = n.generation /\ x.attempts = n.attempts
  BY <1>3 DEF AppendedEvidence
<1>5. ~Has(E, r.generation, "expired")
  BY <1>1 DEF Explained, ValidState, Has, Terminal
<1> HIDE DEF n, x
<1>6. FencingGuard(r, n)
  BY <1>1, <1>2, <1>3 DEF FencingGuard
<1>7. EvidenceAdmission(n, x, E)
  BY <1>3, <1>4, <1>5 DEF EvidenceAdmission
<1>8. QED
  BY <1>6, <1>7 DEF TriggersAdmit, n, x

\* claim_pending passes the guards: the contiguity count of the admission trigger
\* is the number of claims the event has had.
LEMMA ClaimAdmitted ==
    ASSUME NEW r \in Row, NEW E \in SUBSET Evidence, Explained(r, E),
           ~r.published, ~r.dead, r.lock = "null", NEW w \in WorkerIds
    PROVE  TriggersAdmit(r, ClaimedRow(r, w), E)
<1> DEFINE n == ClaimedRow(r, w)
           x == AppendedEvidence(r, n)
<1>1. r.by = Nobody /\ w # Nobody
  BY WorkersAssumption DEF Explained, ValidState, DeliveryState
<1>2. /\ r.generation \in Nat /\ r.floor \in Nat /\ r.floor <= r.generation
      /\ r.attempts \in Nat
      /\ \A y \in E : y.generation \in Nat /\ y.generation <= r.generation
  BY DEF Row, Explained, ValidClaims, Evidence
<1>3. /\ ~n.published /\ ~n.dead /\ n.lock = "live" /\ n.by = w
      /\ n.attempts = r.attempts /\ n.generation = r.generation + 1 /\ n.floor = r.floor
  BY DEF ClaimedRow
<1>4. /\ x.action = "claimed" /\ x.generation = n.generation /\ x.attempts = n.attempts
      /\ x.worker = w
  BY <1>1, <1>2, <1>3 DEF AppendedEvidence
<1>5. ~Has(E, n.generation, "claimed")
  BY <1>2, <1>3 DEF Has
<1>6. Cardinality({y \in E : /\ y.action = "claimed" /\ y.generation > n.floor
                             /\ y.generation < n.generation})
          = n.generation - n.floor - 1
  <2>1. Cardinality({y \in E : /\ y.action = "claimed" /\ y.generation > n.floor
                               /\ y.generation < n.generation})
            = r.generation - r.floor
    BY <1>3, ClaimsCounted
  <2>2. r.generation - r.floor = n.generation - n.floor - 1
    BY <1>2, <1>3
  <2>3. QED
    BY <2>1, <2>2
<1>7. n.generation > n.floor
  BY <1>2, <1>3
<1> HIDE DEF n, x
<1>8. FencingGuard(r, n)
  BY <1>1, <1>2, <1>3 DEF FencingGuard
<1>9. EvidenceAdmission(n, x, E)
  BY <1>3, <1>4, <1>5, <1>6, <1>7 DEF EvidenceAdmission
<1>10. QED
  BY <1>8, <1>9 DEF TriggersAdmit, n, x

\* mark_published and mark_failed of a live claim pass the guards.
LEMMA MarkAdmitted ==
    ASSUME NEW r \in Row, NEW E \in SUBSET Evidence, Explained(r, E),
           r.lock = "live", r.generation > r.floor,
           NEW n \in {PublishedRow(r), FailedRow(r)}
    PROVE  TriggersAdmit(r, n, E)
<1> DEFINE x == AppendedEvidence(r, n)
<1>1. DeliveryState(r) = "claimed" /\ r.by # Nobody /\ ~r.published /\ ~r.dead
  BY DEF Explained, ValidState, DeliveryState
<1>2. /\ r.generation \in Nat /\ r.floor \in Nat /\ r.floor <= r.generation
      /\ r.attempts \in Nat
  BY DEF Row, Explained, ValidClaims
<1>3. /\ n.lock = "null" /\ n.by = Nobody
      /\ n.generation = r.generation /\ n.floor = r.floor
      /\ \/ /\ n.published /\ ~n.dead /\ n.attempts = r.attempts /\ n.error = "none"
         \/ ~n.published /\ n.attempts = r.attempts + 1 /\ n.error = "failure"
  BY <1>1 DEF PublishedRow, FailedRow
<1>4. /\ x.generation = n.generation /\ x.attempts = n.attempts
      /\ x.action = IF n.published THEN "published" ELSE "failed"
  BY <1>1, <1>3 DEF AppendedEvidence
<1>5. ~Has(E, r.generation, "published") /\ ~Has(E, r.generation, "failed")
  BY <1>1, <1>2 DEF Explained, ValidState, Has, Terminal
<1> HIDE DEF x
<1>6. FencingGuard(r, n)
  BY <1>1, <1>2, <1>3 DEF FencingGuard
<1>7. EvidenceAdmission(n, x, E)
  BY <1>3, <1>4, <1>5 DEF EvidenceAdmission
<1>8. QED
  BY <1>6, <1>7 DEF TriggersAdmit, x

\* The operator's replay of a dead letter passes the guards.
LEMMA RequeueAdmitted ==
    ASSUME NEW r \in Row, NEW E \in SUBSET Evidence, Explained(r, E), ~r.published, r.dead
    PROVE  TriggersAdmit(r, RequeuedRow(r), E)
<1> DEFINE n == RequeuedRow(r)
           x == AppendedEvidence(r, n)
<1>1. DeliveryState(r) = "dead" /\ r.by = Nobody /\ r.lock = "null"
  BY DEF Explained, ValidState, DeliveryState
<1>2. r.generation \in Nat /\ r.floor \in Nat /\ r.floor <= r.generation
  BY DEF Row, Explained, ValidClaims
<1>3. /\ ~n.published /\ ~n.dead /\ n.lock = "null" /\ n.by = Nobody
      /\ n.attempts = 0 /\ n.error = "none"
      /\ n.generation = r.generation /\ n.floor = r.floor
  BY DEF RequeuedRow
<1>4. x.action = "requeued" /\ x.generation = n.generation /\ x.attempts = n.attempts
  BY <1>3 DEF AppendedEvidence
<1>5. /\ ~Has(E, r.generation, "requeued")
      /\ \/ r.generation = r.floor /\ r.floor = 2
         \/ Has(E, r.generation, "failed") \/ Has(E, r.generation, "expired")
  BY <1>1 DEF Explained, ValidState
<1> HIDE DEF n, x
<1>6. FencingGuard(r, n)
  BY <1>1, <1>2, <1>3 DEF FencingGuard
<1>7. EvidenceAdmission(n, x, E)
  BY <1>3, <1>4, <1>5 DEF EvidenceAdmission
<1>8. QED
  BY <1>6, <1>7 DEF TriggersAdmit, n, x

\* In every reachable store the fencing guard, the evidence admission and its unique
\* key pass every recovery, claim and replay that the repository's WHERE clauses admit;
\* of the marks they pass those whose lease is live at the UPDATE and refuse the others,
\* which the WHERE clauses admitted on a clock read earlier.
THEOREM TriggersCloseTheClockGap == Spec => []GuardsAdmitRepository
<1>1. Inv => GuardsAdmitRepository
  <2> SUFFICES ASSUME Inv PROVE GuardsAdmitRepository
    OBVIOUS
  <2>1. \A e \in Events : /\ row[e] \in Row /\ evidence[e] \in SUBSET Evidence
                          /\ Explained(row[e], evidence[e])
    BY DEF Inv, StoreInv, TypeOK
  <2>2. stored \subseteq Events
    BY DEF Inv, TypeOK
  <2>3. ASSUME NEW e \in stored
        PROVE  /\ e \in Expired(row) =>
                     TriggersAdmit(row[e], RecoveredRow(row[e]), evidence[e])
               /\ e \in Claimable(row) =>
                     \A w \in WorkerIds :
                         TriggersAdmit(row[e], ClaimedRow(row[e], w), evidence[e])
               /\ ~row[e].published /\ row[e].dead =>
                     TriggersAdmit(row[e], RequeuedRow(row[e]), evidence[e])
    <3>1. e \in Expired(row) => TriggersAdmit(row[e], RecoveredRow(row[e]), evidence[e])
      BY <2>1, <2>2, RecoveryAdmitted DEF Expired
    <3>2. e \in Claimable(row) =>
              \A w \in WorkerIds : TriggersAdmit(row[e], ClaimedRow(row[e], w), evidence[e])
      BY <2>1, <2>2, ClaimAdmitted DEF Claimable
    <3>3. ~row[e].published /\ row[e].dead =>
              TriggersAdmit(row[e], RequeuedRow(row[e]), evidence[e])
      BY <2>1, <2>2, RequeueAdmitted
    <3>4. QED
      BY <3>1, <3>2, <3>3
  <2>4. ASSUME NEW p \in Processes, NEW c \in doing[p], LiveClaim(p, c),
               NEW n \in {PublishedRow(row[c.event]), FailedRow(row[c.event])}
        PROVE  TriggersAdmit(row[c.event], n, evidence[c.event]) <=> row[c.event].lock = "live"
    <3>1. c.event \in Events
      BY DEF Inv, TypeOK, Claim
    <3>2. row[c.event].generation > row[c.event].floor
      BY <2>4 DEF LiveClaim
    <3>3. row[c.event].lock = "live" => TriggersAdmit(row[c.event], n, evidence[c.event])
      BY <2>1, <3>1, <3>2, MarkAdmitted
    <3>4. TriggersAdmit(row[c.event], n, evidence[c.event]) => row[c.event].lock = "live"
      BY TriggersFence
    <3>5. QED
      BY <3>3, <3>4
  <2>5. QED
    BY <2>3, <2>4 DEF GuardsAdmitRepository
<1>2. QED
  BY <1>1, InvariantHolds, PTL
=============================================================================
