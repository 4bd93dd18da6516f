----------------------------- MODULE FinancePosting -----------------------------
(***************************************************************************)
(* Operational posting of reviewed ledger entries on SQLite: the drafts,   *)
(* reviews and voids of infrastructure/sqlite_finance_core.py, the posting *)
(* commands of infrastructure/sqlite_finance_posting.py with the triggers  *)
(* of sqlite_finance_posting_schema.py, and the fiscal periods of          *)
(* infrastructure/sqlite_master_data.py.                                   *)
(*                                                                         *)
(* Save, review and post are BEGIN IMMEDIATE transactions, one step each.  *)
(* set_period_status reads first, but its UPDATE is a compare-and-swap on  *)
(* the status it read, so one step stands for both.  void_entry reads the  *)
(* entry before its transaction and is two steps; its inventory-valuation  *)
(* checks and the receipt-backing trigger are left out.  A                 *)
(* command that is refused rolls back, and one that finds its own receipt  *)
(* answers from it: neither changes state.  The balanced lines of an entry *)
(* are a signed amount, their inversion its negation; the currency policy, *)
(* the scope and the master data an entry names stay as they were.         *)
(***************************************************************************)
EXTENDS Integers, Sequences, FiniteSets, FiniteSetsExt

CONSTANTS
    Entries,        \* entry numbers; the entry id is a function of the number
    Originals,      \* bound: the numbers under which clients save new entries
    Actors,         \* stored users
    Commands,       \* command ids clients choose
    Amounts,        \* what the lines of an entry move
    Periods,        \* fiscal periods
    Windows,        \* first and last date of a period, as clients set them
    Dates,          \* posting dates of the entries
    Sources,        \* source types of the entries clients save
    FirstWindow,    \* the window each period is created with
    None

SourceTypes == {"Manual", "Imported", "Generated"}
EntryStatuses == {"Draft", "Validated", "Voided"}
PeriodStatuses == {"Open", "Soft Closed", "Closed"}

ASSUME AmountsAssumption == Amounts \subseteq Int \ {0} /\ \A n \in Amounts : -n \in Amounts
ASSUME InputsAssumption ==
    IsFiniteSet(Entries) /\ Originals \subseteq Entries /\ Sources \subseteq SourceTypes
ASSUME WindowsAssumption ==
    /\ Dates \subseteq Nat
    /\ Windows \subseteq Nat \X Nat
    /\ FirstWindow \in [Periods -> Windows]
    /\ \A w \in Windows : w[1] <= w[2]

EffectIds == 1 .. Cardinality(Entries)

\* What finance-entry-review-v1 digests: the header and the lines of an entry.
Snapshot ==
    [entry : Entries, amount : Amounts, period : Periods, date : Dates, source : SourceTypes,
     preparer : Actors \cup {None}, reverses : EffectIds \cup {None}]

Entry ==
    [snapshot : Snapshot, status : EntryStatuses, created_by : Actors,
     validator : Actors \cup {None}, digest : Snapshot \cup {None}]

Effect == [entry : Entries, snapshot : Snapshot, reverses : EffectIds \cup {None}, actor : Actors]

Receipt ==
    [operation : {"post"}, actor : Actors, entry : Entries, result : EffectIds]
    \cup [operation : {"prepare_reversal"}, actor : Actors, effect : EffectIds, result : Entries]

ASSUME PostingNoneAssumption ==
    None \notin Entries \cup Actors \cup EffectIds \cup Snapshot \cup Entry \cup Receipt

VARIABLES
    entry,      \* ledger_entries with their lines
    author,     \* history: who last wrote the content of each entry
    effects,    \* finance_posting_effects, in the order they were committed
    commands,   \* finance_posting_commands
    period,     \* periods
    voiding     \* the entry that a void_entry has read as Validated

vars == <<entry, author, effects, commands, period, voiding>>

Init ==
    /\ entry = [e \in Entries |-> None]
    /\ author = [e \in Entries |-> None]
    /\ effects = <<>>
    /\ commands = [c \in Commands |-> None]
    /\ period = [p \in Periods |-> [status |-> "Open", window |-> FirstWindow[p]]]
    /\ voiding = None

-----------------------------------------------------------------------------
(* What the commands check.                                                *)

Within(d, w) == w[1] <= d /\ d <= w[2]

\* Mutant: the period of an entry need only exist.
OpenFor_AnyStatus(p, d) == Within(d, period[p].window)

\* An Open period that contains the business date.
OpenFor(p, d) == period[p].status = "Open" /\ Within(d, period[p].window)

PostingsOf(e) == {k \in DOMAIN effects : effects[k].entry = e}

\* Mutant: no trigger protects the header of a posted entry.
HeaderUpdatable_Always(e) == TRUE

\* ledger_posted_header_update_immutable.
HeaderUpdatable(e) == PostingsOf(e) = {}

\* require_full_reversal.
Inverts(reversal, original) == reversal.amount = -original.amount

\* The checks _get_effect repeats on a retained effect.
Verified(k) ==
    LET f == effects[k]
        x == entry[f.entry]
    IN  /\ x # None
        /\ f.snapshot = x.snapshot
        /\ x.digest = f.snapshot
        /\ x.status = "Validated"
        /\ x.snapshot.preparer # None /\ x.validator # None
        /\ x.snapshot.preparer \notin {x.validator, f.actor}
        /\ f.reverses = x.snapshot.reverses

\* What _verify_receipt_result asks of a retained receipt, its request aside.
ReceiptVerified(r) ==
    IF r.operation = "post"
    THEN /\ r.result \in DOMAIN effects
         /\ Verified(r.result)
         /\ effects[r.result].actor = r.actor
         /\ effects[r.result].entry = r.entry
    ELSE LET x == entry[r.result]
         IN  /\ x # None
             /\ x.snapshot.preparer = r.actor
             /\ x.snapshot.reverses = r.effect
             /\ r.effect \in DOMAIN effects
             /\ Verified(r.effect)

\* verify_posting_storage.
VerifyPostingStorage ==
    /\ \A k \in DOMAIN effects :
          /\ Verified(k)
          /\ effects[k].reverses # None =>
                /\ effects[k].reverses \in DOMAIN effects
                /\ Verified(effects[k].reverses)
                /\ effects[effects[k].reverses].reverses = None
                /\ Inverts(effects[k].snapshot, effects[effects[k].reverses].snapshot)
    /\ \A c \in Commands : commands[c] # None => ReceiptVerified(commands[c])

-----------------------------------------------------------------------------
(* Drafts and their review.                                                *)

\* What every draft write ends in.
SaveDraft(e, a, x) ==
    /\ entry' = [entry EXCEPT ![e] = x]
    /\ author' = [author EXCEPT ![e] = a]
    /\ UNCHANGED <<effects, commands, period, voiding>>

\* The first save of an entry number.  An actor label that no session authenticated
\* leaves the preparer unknown.
CreateEntry(e, a, authenticated, n, p, d, s) ==
    /\ e \in Originals
    /\ OpenFor(p, d)
    /\ entry[e] = None
    /\ SaveDraft(e, a,
         [snapshot |-> [entry |-> e, amount |-> n, period |-> p, date |-> d, source |-> s,
                        preparer |-> IF authenticated THEN a ELSE None, reverses |-> None],
          status |-> "Draft", created_by |-> a, validator |-> None, digest |-> None])

\* Mutant: whoever may manage entries may replace a draft.
ReplaceEntry_ByAnyone(e, a, authenticated, n, p, d, s) ==
    LET x == entry[e]
    IN  /\ OpenFor(p, d)
        /\ x # None /\ x.status = "Draft" /\ HeaderUpdatable(e)
        /\ SaveDraft(e, a, [x EXCEPT !.snapshot.amount = n, !.snapshot.period = p,
                                     !.snapshot.date = d, !.snapshot.source = s])

\* A save over a draft keeps its preparer, its creator and its reversal link.
ReplaceEntry(e, a, authenticated, n, p, d, s) ==
    LET x == entry[e]
    IN  /\ OpenFor(p, d)
        /\ x # None /\ x.status = "Draft" /\ HeaderUpdatable(e)
        /\ x.snapshot.preparer # None => authenticated /\ x.snapshot.preparer = a
        /\ SaveDraft(e, a, [x EXCEPT !.snapshot.amount = n, !.snapshot.period = p,
                                     !.snapshot.date = d, !.snapshot.source = s])

\* Only an authenticated review of an authenticated draft leaves provenance.
ValidateEntry(e, a, authenticated) ==
    LET x == entry[e]
        sealed == authenticated /\ x.snapshot.preparer # None
    IN  /\ x # None /\ x.status = "Draft" /\ HeaderUpdatable(e)
        /\ x.created_by # a
        /\ OpenFor(x.snapshot.period, x.snapshot.date)
        /\ sealed => x.snapshot.preparer # a
        /\ entry' = [entry EXCEPT ![e].status = "Validated",
                                  ![e].validator = IF sealed THEN a ELSE None,
                                  ![e].digest = IF sealed THEN x.snapshot ELSE None]
        /\ UNCHANGED <<author, effects, commands, period, voiding>>

\* void_entry reads the entry before it opens a transaction...
VoidRead(e) ==
    /\ entry[e] # None /\ entry[e].status = "Validated"
    /\ voiding = None
    /\ voiding' = e
    /\ UNCHANGED <<entry, author, effects, commands, period>>

\* ... and its UPDATE tests the status again; the trigger tests for a posting.
VoidEntry(e) ==
    /\ voiding = e
    /\ voiding' = None
    /\ entry' = IF entry[e].status = "Validated" /\ HeaderUpdatable(e)
                THEN [entry EXCEPT ![e].status = "Voided"]
                ELSE entry
    /\ UNCHANGED <<author, effects, commands, period>>

-----------------------------------------------------------------------------
(* Posting.                                                                *)

\* The triggers on an INSERT into finance_posting_effects: provenance, Open period,
\* content, and for a reversal an original posting that it inverts exactly.
TriggersAdmit(f) ==
    LET x == entry[f.entry]
    IN  /\ x.status = "Validated" /\ x.digest = f.snapshot /\ x.snapshot = f.snapshot
        /\ x.snapshot.preparer # None /\ x.validator # None
        /\ x.snapshot.preparer \notin {x.validator, f.actor}
        /\ f.reverses = x.snapshot.reverses
        /\ x.snapshot.source = IF f.reverses = None THEN "Manual" ELSE "Generated"
        /\ OpenFor(x.snapshot.period, x.snapshot.date)
        /\ f.reverses # None =>
              /\ effects[f.reverses].reverses = None
              /\ Inverts(x.snapshot, entry[effects[f.reverses].entry].snapshot)

\* Mutant: only the entry itself is looked up.
NoEffectOf_EntryOnly(e, reversal) == PostingsOf(e) = {}

\* UNIQUE (entry_id), (reverses_effect_id) and the code's own lookup of them.
NoEffectOf(e, reversal) ==
    /\ PostingsOf(e) = {}
    /\ reversal # None => \A k \in DOMAIN effects : effects[k].reverses # reversal

\* Only the first use of a command id commits; PRIMARY KEY (workspace_id, command_id).
Unused(c) == commands[c] = None

\* require_reviewed.
Reviewed(x, a) ==
    /\ x.snapshot.preparer # None /\ x.validator # None
    /\ x.snapshot.preparer \notin {x.validator, a}
    /\ x.digest = x.snapshot
    /\ x.status = "Validated"

\* The effect, its audit and outbox events and the receipt are one transaction.
Post(c, e, a) ==
    LET x == entry[e]
    IN  /\ Unused(c)
        /\ x # None
        /\ OpenFor(x.snapshot.period, x.snapshot.date)
        /\ Reviewed(x, a)
        /\ IF x.snapshot.reverses = None
           THEN x.snapshot.source = "Manual"
           ELSE /\ Verified(x.snapshot.reverses)
                /\ effects[x.snapshot.reverses].reverses = None
                /\ Inverts(x.snapshot, effects[x.snapshot.reverses].snapshot)
        /\ NoEffectOf(e, x.snapshot.reverses)
        /\ HeaderUpdatable(e)
        /\ LET f == [entry |-> e, snapshot |-> x.snapshot, reverses |-> x.snapshot.reverses,
                     actor |-> a]
           IN  TriggersAdmit(f) /\ effects' = Append(effects, f)
        /\ commands' = [commands EXCEPT ![c] =
              [operation |-> "post", actor |-> a, entry |-> e, result |-> Len(effects) + 1]]
        /\ UNCHANGED <<entry, author, period, voiding>>

\* Mutant: the draft names the entry it reverses instead of the posting.
PrepareReversal_LinksEntry(c, k, e, a, p, d) ==
    LET original == effects[k]
    IN  /\ Unused(c)
        /\ Verified(k)
        /\ original.reverses = None
        /\ OpenFor(p, d)
        /\ entry[e] = None
        /\ entry' = [entry EXCEPT ![e] =
              [snapshot |-> [entry |-> e, amount |-> -original.snapshot.amount, period |-> p,
                             date |-> d, source |-> "Generated", preparer |-> a,
                             reverses |-> original.entry],
               status |-> "Draft", created_by |-> a, validator |-> None, digest |-> None]]
        /\ author' = [author EXCEPT ![e] = a]
        /\ commands' = [commands EXCEPT ![c] =
              [operation |-> "prepare_reversal", actor |-> a, effect |-> k, result |-> e]]
        /\ UNCHANGED <<effects, period, voiding>>

\* The reversal draft inverts the original's retained lines; nothing asks whether the
\* original is reversed already.
PrepareReversal(c, k, e, a, p, d) ==
    LET original == effects[k]
    IN  /\ Unused(c)
        /\ Verified(k)
        /\ original.reverses = None
        /\ OpenFor(p, d)
        /\ entry[e] = None
        /\ entry' = [entry EXCEPT ![e] =
              [snapshot |-> [entry |-> e, amount |-> -original.snapshot.amount, period |-> p,
                             date |-> d, source |-> "Generated", preparer |-> a, reverses |-> k],
               status |-> "Draft", created_by |-> a, validator |-> None, digest |-> None]]
        /\ author' = [author EXCEPT ![e] = a]
        /\ commands' = [commands EXCEPT ![c] =
              [operation |-> "prepare_reversal", actor |-> a, effect |-> k, result |-> e]]
        /\ UNCHANGED <<effects, period, voiding>>

-----------------------------------------------------------------------------
(* Fiscal periods.                                                         *)

Transitions ==
    [s \in PeriodStatuses |->
        CASE s = "Open" -> {"Soft Closed"}
          [] s = "Soft Closed" -> {"Open", "Closed"}
          [] s = "Closed" -> {"Open"}]

\* The UPDATE repeats the status that was read, so the read before it decides nothing.
SetPeriodStatus(p, s) ==
    /\ s \in Transitions[period[p].status]
    /\ period' = [period EXCEPT ![p].status = s]
    /\ UNCHANGED <<entry, author, effects, commands, voiding>>

\* Saving a period again moves its dates, whatever its status and its postings.
UpsertPeriod(p, w) ==
    /\ w # period[p].window
    /\ \A q \in Periods \ {p} : ~ (period[q].window[1] <= w[2] /\ period[q].window[2] >= w[1])
    /\ period' = [period EXCEPT ![p].window = w]
    /\ UNCHANGED <<entry, author, effects, commands, voiding>>

Next ==
    \/ \E e \in Entries, a \in Actors, authenticated \in BOOLEAN :
          \/ \E n \in Amounts, p \in Periods, d \in Dates, s \in Sources :
                \/ CreateEntry(e, a, authenticated, n, p, d, s)
                \/ ReplaceEntry(e, a, authenticated, n, p, d, s)
          \/ ValidateEntry(e, a, authenticated)
    \/ \E e \in Entries : VoidRead(e) \/ VoidEntry(e)
    \/ \E c \in Commands, e \in Entries, a \in Actors : Post(c, e, a)
    \/ \E c \in Commands, k \in DOMAIN effects, e \in Entries, a \in Actors, p \in Periods,
          d \in Dates : PrepareReversal(c, k, e, a, p, d)
    \/ \E p \in Periods, s \in PeriodStatuses : SetPeriodStatus(p, s)
    \/ \E p \in Periods, w \in Windows : UpsertPeriod(p, w)

Spec == Init /\ [][Next]_vars

-----------------------------------------------------------------------------
(* Properties.                                                             *)

\* Type invariant of the tables, the history variable and the pending void.
TypeOK ==
    /\ entry \in [Entries -> Entry \cup {None}]
    /\ author \in [Entries -> Actors \cup {None}]
    /\ effects \in Seq(Effect) /\ Len(effects) <= Cardinality(Entries)
    /\ commands \in [Commands -> Receipt \cup {None}]
    /\ period \in [Periods -> [status : PeriodStatuses, window : Windows]]
    /\ voiding \in Entries \cup {None}

\* Whatever any sequence of commands left behind passes the verification that every
\* export, backup and restore runs first: no draft save, review, void, period change or
\* posting, in any order, turns a retained effect or receipt into evidence that the code
\* itself reports as invalid.
StorageVerifies == VerifyPostingStorage

\* Whoever wrote the content an effect posts, in any of the saves before its review,
\* neither reviewed nor posted it: create_entry's check of the captured preparer,
\* validate_entry's of the reviewer and post's of the poster together, across saves by
\* authenticated users and by bare actor labels.
IndependentPosting ==
    \A k \in DOMAIN effects :
        author[effects[k].entry] \notin {entry[effects[k].entry].validator, effects[k].actor}

\* What an original posting and the reversals posted for it move together.
NetOf(k) ==
    MapThenSumSet(LAMBDA i : effects[i].snapshot.amount,
                  {i \in DOMAIN effects : i = k \/ effects[i].reverses = k})

\* Every posting is reversed at most once, never partially and never in the wrong
\* direction, although several reversal drafts of it may be prepared and each may be
\* rewritten before its review.
ReversalsNetOut ==
    \A k \in DOMAIN effects :
        effects[k].reverses = None =>
            NetOf(k) = IF \E i \in DOMAIN effects : effects[i].reverses = k
                       THEN 0 ELSE effects[k].snapshot.amount

\* The effects posted_trial_balance adds up for a period.
TrialBalance(p) ==
    {k \in DOMAIN effects : effects[k].snapshot.period = p}

\* While a period is not Open no command changes what its posted trial balance adds up:
\* posting and closing are serialised whichever commits first.
ClosedPeriodFrozen ==
    [][\A p \in Periods : period[p].status # "Open" => TrialBalance(p)' = TrialBalance(p)]_vars
=============================================================================
