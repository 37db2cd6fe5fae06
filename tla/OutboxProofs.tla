---------------------------- MODULE OutboxProofs ----------------------------
(***************************************************************************)
(* What the outbox relay keeps true for any records, partitions, workers,   *)
(* overlapping flushes, batch sizes, faults and stores.  Inv is inductive   *)
(* for every store; with claims that outlive a flush Exclusive joins it,    *)
(* and InOrder joins it for a store without claims whose transactions       *)
(* commit in the order of their records.                                    *)
(***************************************************************************)
EXTENDS Outbox, FiniteSetTheorems, TLAPS

USE Zenon

\* The variables have their types, and a flush reports on records it was given.
Types ==
  /\ rec \in [Records -> Row] /\ delivered \subseteq Records
  /\ {locked, todo, sent, accepted} \subseteq [Flushes -> SUBSET Records]
  /\ batched \in [Flushes -> BOOLEAN]
Reports == \A f \in Flushes : accepted[f] \subseteq sent[f] /\ sent[f] \subseteq todo[f]

\* A parked row has used its attempts and is nobody's; without claims every row is nobody's.
Parked ==
  \A r \in Records : /\ rec[r].status = "failed" <=> rec[r].attempts = MaxAttempts
                     /\ rec[r].status = "failed" => rec[r].by = Nobody /\ rec[r].fresh = FALSE
                     /\ Claims \/ rec[r].by = Nobody

\* What a flush holds was committed; what it locks is pending; what the publisher
\* accepted was received, and so was what is marked published.
Visible == {"pending", "published", "failed"}
Hidden == {"none", "staged"}
Held ==
  /\ \A f \in Flushes : /\ \A r \in todo[f] : rec[r].status \notin Hidden
                        /\ \A r \in locked[f] : rec[r].status = "pending"
                        /\ locked[f] # {} => Claims
                        /\ accepted[f] \subseteq delivered
  /\ \A r \in delivered : rec[r].status \notin Hidden
  /\ \A r \in Records : rec[r].status = "published" => r \in delivered

Inv == Types /\ Reports /\ Parked /\ Held

\* A record in the hands of a flush is claimed by its worker or already published, and in no
\* other flush's hands or statement.
Exclusive ==
  /\ \A f \in Flushes : \A r \in todo[f] :
       rec[r].status = "published" \/ (rec[r].status = "pending" /\ rec[r].by = f[1] /\ rec[r].fresh = TRUE)
  /\ \A f, g \in Flushes : /\ locked[f] \cap todo[g] = {}
                           /\ f # g => todo[f] \cap todo[g] = {} /\ locked[f] \cap locked[g] = {}

\* What is visible was preceded by what was created before; and the earlier records of a
\* partition are still ahead of a record in its flush, or were received, or are gone.
InOrder ==
  /\ \A r, e \in Records : e < r => /\ (rec[r].status # "none" => rec[e].status # "none")
                                   /\ (rec[r].status \in Visible => rec[e].status \notin Hidden)
  /\ \A f \in Flushes : \A r \in todo[f] : Key[r] # NoKey =>
       \A e \in Earlier(r) : e \in todo[f] \/ e \in delivered \/ rec[e].status = "gone"

-----------------------------------------------------------------------------
(* Rows                                                                      *)

Statuses == {"none", "staged", "pending", "published", "failed", "gone"}

\* A row whose status alone is set.
LEMMA StatusSet ==
  ASSUME Types, NEW r \in Records, NEW s \in Statuses, rec' = [rec EXCEPT ![r].status = s]
  PROVE  /\ rec' \in [Records -> Row]
         /\ rec'[r].status = s /\ rec'[r].attempts = rec[r].attempts /\ rec'[r].by = rec[r].by
         /\ rec'[r].fresh = rec[r].fresh
         /\ \A e \in Records : e # r => rec'[e] = rec[e]
BY DEF Types, Row, Statuses

\* markPublished and markFailed touch a row that is pending, and its claim's holder only.
LEMMA Marked ==
  ASSUME Inv, NEW f \in Flushes, NEW r \in Records, rec' \in {rec, Published(f, r), Failed(f, r)}
  PROVE  /\ rec' \in [Records -> Row] /\ Parked'
         /\ \A e \in Records : e # r => rec'[e] = rec[e]
         /\ rec'[r] # rec[r] => /\ rec[r].status = "pending" /\ (Claims => rec[r].by = f[1])
                                /\ rec'[r].status \in {"pending", "published", "failed"}
         /\ rec'[r].status = "published" => rec[r].status = "published" \/ rec' = Published(f, r)
         /\ rec'[r].status = "pending" /\ rec'[r] # rec[r] => rec' = Failed(f, r)
<1>1. CASE rec' = rec
  BY <1>1 DEF Inv, Types, Parked
<1>2. CASE rec' # rec /\ rec' = Published(f, r)
  <2>1. Owns(f, r) /\ rec' = [rec EXCEPT ![r].status = "published"]
    BY <1>2 DEF Published
  <2>2. /\ rec' \in [Records -> Row]
        /\ rec'[r].status = "published" /\ rec'[r].attempts = rec[r].attempts /\ rec'[r].by = rec[r].by
        /\ \A e \in Records : e # r => rec'[e] = rec[e]
    BY <2>1, StatusSet DEF Inv, Statuses
  <2>3. Parked'
    BY <2>1, <2>2 DEF Inv, Parked, Owns
  <2>. QED
    BY <1>2, <2>1, <2>2, <2>3 DEF Owns
<1>3. CASE rec' # rec /\ rec' = Failed(f, r)
  <2>. DEFINE s == IF Exhausted(r) THEN "failed" ELSE "pending"
              n == rec[r].attempts + 1
              no == FALSE
              new == [status |-> s, attempts |-> n, by |-> Nobody, fresh |-> no]
  <2>1. Owns(f, r) /\ rec' = [rec EXCEPT ![r].status = s, ![r].attempts = @ + 1, ![r].by = Nobody, ![r].fresh = no]
    BY <1>3 DEF Failed
  <2>2. rec[r] \in Row /\ rec[r].status = "pending" /\ rec[r].attempts # MaxAttempts
    BY <2>1 DEF Inv, Types, Parked, Owns
  <2>3. n \in 0..MaxAttempts /\ (s = "failed" <=> n = MaxAttempts) /\ s \in {"pending", "failed"} /\ no \in BOOLEAN
    BY <2>2, OutboxAssumption, SMTT(30) DEF Row, Exhausted
  <2>. HIDE DEF s, n, no
  <2>4. rec'[r] = new /\ \A e \in Records : e # r => rec'[e] = rec[e]
    BY <2>1, <2>2 DEF Inv, Types, Row, n
  <2>5. new \in Row
    BY <2>3 DEF Row
  <2>6. rec' \in [Records -> Row]
    BY <2>1, <2>4, <2>5, SMTT(30) DEF Inv, Types
  <2>7. Parked'
    BY <2>3, <2>4, SMTT(30) DEF Inv, Parked, no
  <2>. QED
    BY <1>3, <2>1, <2>2, <2>3, <2>4, <2>6, <2>7, SMTT(30) DEF Owns
<1>. QED
  BY <1>1, <1>2, <1>3

-----------------------------------------------------------------------------
(* Flushes                                                                   *)

\* A flush drops records and the reports on them.
Shrinks ==
  /\ {todo', sent', accepted'} \subseteq [Flushes -> SUBSET Records]
  /\ \A g \in Flushes : /\ todo'[g] \subseteq todo[g] /\ accepted'[g] \subseteq accepted[g] /\ sent'[g] \subseteq sent[g]
                        /\ accepted'[g] \subseteq sent'[g] /\ sent'[g] \subseteq todo'[g]

LEMMA DropShrinks ==
  ASSUME Types, Reports, NEW f \in Flushes, NEW S, Drop(f, S)
  PROVE  Shrinks /\ todo'[f] = todo[f] \ S /\ sent'[f] = sent[f] \ S
         /\ \A g \in Flushes : g # f => todo'[g] = todo[g]
BY SMTT(30) DEF Drop, Shrinks, Types, Reports

\* What a mark does to the invariant.
LEMMA MarkStep ==
  ASSUME Inv, NEW f \in Flushes, NEW r \in Records, rec' \in {rec, Published(f, r), Failed(f, r)},
         rec' = Published(f, r) => rec' = rec \/ r \in delivered, Unlocked(r), Shrinks, UNCHANGED <<delivered, locked, batched>>
  PROVE  Inv'
<1>1. /\ rec' \in [Records -> Row] /\ Parked'
      /\ \A e \in Records : e # r => rec'[e] = rec[e]
      /\ rec'[r] # rec[r] => rec[r].status = "pending" /\ rec'[r].status \in {"pending", "published", "failed"}
      /\ rec'[r].status = "published" => rec[r].status = "published" \/ rec' = Published(f, r)
  BY Marked
<1>2. Types'
  BY <1>1, ZenonT(60) DEF Inv, Types, Shrinks
<1>3. Reports'
  BY DEF Reports, Shrinks
<1>4. Held'
  <2>1. ASSUME NEW e \in Records, rec[e].status \notin Hidden
        PROVE  rec'[e].status \notin Hidden
    BY <1>1, <2>1 DEF Hidden
  <2>2. ASSUME NEW g \in Flushes, NEW e \in locked[g]
        PROVE  rec'[e] = rec[e]
    BY <1>1, <2>2 DEF Unlocked, Inv, Types
  <2>3. ASSUME NEW e \in Records, rec'[e].status = "published"
        PROVE  e \in delivered
    BY <1>1, <2>3 DEF Inv, Held
  <2>4. ASSUME NEW g \in Flushes
        PROVE  /\ \A e \in todo'[g] : rec'[e].status \notin Hidden
               /\ \A e \in locked[g] : rec'[e].status = "pending"
               /\ locked[g] # {} => Claims
               /\ accepted'[g] \subseteq delivered
    BY <2>1, <2>2, <2>4 DEF Inv, Held, Shrinks, Types
  <2>5. \A e \in delivered : rec'[e].status \notin Hidden
    BY <2>1 DEF Inv, Held, Types
  <2>. QED
    BY <2>3, <2>4, <2>5 DEF Held
<1>. QED
  BY <1>1, <1>2, <1>3, <1>4 DEF Inv

-----------------------------------------------------------------------------
(* Every action keeps the invariant                                          *)

\* enqueue, a commit and a rollback: a row no relay has seen changes its status.
LEMMA HiddenRowStep ==
  ASSUME Inv, NEW r \in Records, rec[r].status \in Hidden, NEW s \in {"staged", "pending", "gone"},
         s = "staged" => rec[r].status = "none", SetStatus(r, s), UNCHANGED <<delivered, locked, flushVars>>
  PROVE  Inv'
<1>1. /\ rec' \in [Records -> Row]
      /\ rec'[r].status = s /\ rec'[r].attempts = rec[r].attempts /\ rec'[r].by = rec[r].by
      /\ \A e \in Records : e # r => rec'[e] = rec[e]
  BY StatusSet DEF SetStatus, Statuses, Inv
<1>2. Types' /\ Reports'
  BY <1>1 DEF Inv, Types, Reports, flushVars
<1>3. Parked'
  BY <1>1 DEF Inv, Parked, Hidden
<1>4. Held'
  BY <1>1, ZenonT(60) DEF Inv, Held, Hidden, Types, flushVars
<1>. QED
  BY <1>2, <1>3, <1>4 DEF Inv

LEMMA EnqueueStep == ASSUME Inv, NEW r \in Records, Enqueue(r) PROVE Inv'
BY HiddenRowStep DEF Enqueue, Hidden

LEMMA CommitStep == ASSUME Inv, NEW r \in Records, Commit(r) PROVE Inv'
BY HiddenRowStep DEF Commit, Hidden

LEMMA RollbackStep == ASSUME Inv, NEW r \in Records, Rollback(r) PROVE Inv'
BY HiddenRowStep DEF Rollback, Hidden

\* A new flush has nothing sent.
LEMMA FlushTypes ==
  ASSUME Types, Reports, NEW f \in Flushes, NEW S \in SUBSET Records, Flush(f, S)
  PROVE  /\ {todo', sent', accepted'} \subseteq [Flushes -> SUBSET Records]
         /\ batched' \in [Flushes -> BOOLEAN]
         /\ Reports'
         /\ todo'[f] = S /\ accepted'[f] = {}
         /\ \A g \in Flushes : g # f => todo'[g] = todo[g] /\ accepted'[g] = accepted[g]
<1>. DEFINE b == HasEmitBatch /\ Cardinality({r \in S : Key[r] = NoKey}) > 1
<1>1. b \in BOOLEAN
  OBVIOUS
<1>2. batched' = [batched EXCEPT ![f] = b]
  BY DEF Flush
<1>. HIDE DEF b
<1>3. batched' \in [Flushes -> BOOLEAN]
  BY <1>1, <1>2 DEF Types
<1>4. {todo', sent', accepted'} \subseteq [Flushes -> SUBSET Records]
  BY ZenonT(60) DEF Flush, Types
<1>. QED
  BY <1>3, <1>4 DEF Flush, Types, Reports

LEMMA ListStep ==
  ASSUME Inv, NEW f \in Flushes, List(f)
  PROVE  Inv'
<1>. DEFINE S == FirstOf({r \in Records : Eligible(f[1], r)})
<1>1. PICK old \in SUBSET {r \in Records : rec[r].status = "published"} :
        rec' = [r \in Records |-> IF r \in old THEN [rec[r] EXCEPT !.status = "gone"] ELSE rec[r]]
  BY DEF List
<1>2. /\ rec' \in [Records -> Row]
      /\ \A r \in Records : /\ rec'[r].attempts = rec[r].attempts /\ rec'[r].by = rec[r].by
                            /\ rec'[r].fresh = rec[r].fresh
                            /\ rec'[r].status = IF r \in old THEN "gone" ELSE rec[r].status
  BY <1>1, ZenonT(60) DEF Inv, Types, Row
<1>3. S \in SUBSET Records /\ \A r \in S : rec[r].status = "pending"
  BY DEF FirstOf, Eligible
<1>4. Flush(f, S) /\ UNCHANGED <<delivered, locked>>
  BY DEF List
<1>. HIDE DEF S
<1>5. /\ {todo', sent', accepted'} \subseteq [Flushes -> SUBSET Records]
      /\ batched' \in [Flushes -> BOOLEAN]
      /\ Reports'
      /\ todo'[f] = S /\ accepted'[f] = {}
      /\ \A g \in Flushes : g # f => todo'[g] = todo[g] /\ accepted'[g] = accepted[g]
  BY <1>3, <1>4, FlushTypes DEF Inv
<1>6. Types'
  BY <1>2, <1>4, <1>5 DEF Inv, Types
<1>7. Parked'
  BY <1>2, ZenonT(60) DEF Inv, Parked
<1>8. Held'
  <2>1. ASSUME NEW e \in Records, rec[e].status \notin Hidden
        PROVE  rec'[e].status \notin Hidden
    BY <1>2, <2>1 DEF Hidden
  <2>2. ASSUME NEW g \in Flushes
        PROVE  /\ \A e \in todo'[g] : rec[e].status \notin Hidden
               /\ accepted'[g] \subseteq delivered
    BY <1>3, <1>5, <2>2 DEF Inv, Held, Hidden
  <2>3. \A g \in Flushes : locked[g] = {}
    BY DEF List, Inv, Held
  <2>4. \A g \in Flushes : \A e \in todo'[g] : rec'[e].status \notin Hidden
    BY <1>6, <2>1, <2>2 DEF Types
  <2>5. \A e \in delivered : rec'[e].status \notin Hidden
    BY <2>1 DEF Inv, Held, Types
  <2>6. \A e \in Records : rec'[e].status = "published" => e \in delivered
    BY <1>2 DEF Inv, Held
  <2>. QED
    BY <1>4, <2>2, <2>3, <2>4, <2>5, <2>6 DEF Held
<1>. QED
  BY <1>5, <1>6, <1>7, <1>8 DEF Inv

LEMMA ListLocksStep ==
  ASSUME Inv, NEW f \in Flushes, ListLocks(f)
  PROVE  Inv'
<1>. DEFINE skip == UNION {locked[g] : g \in Flushes}
            S == FirstOf({r \in Records \ skip : Eligible(f[1], r)})
<1>1. S \in SUBSET Records /\ \A r \in S : rec[r].status = "pending"
  BY DEF FirstOf, Eligible
<1>2. Claims /\ locked' = [locked EXCEPT ![f] = S] /\ UNCHANGED <<rec, delivered, flushVars>>
  BY DEF ListLocks
<1>. HIDE DEF S
<1>3. Types' /\ Reports' /\ Parked'
  BY <1>1, <1>2, SMTT(30) DEF Inv, Types, Reports, Parked, flushVars
<1>4. Held'
  BY <1>1, <1>2 DEF Inv, Held, Types, flushVars
<1>. QED
  BY <1>3, <1>4 DEF Inv

\* The rows a listing claims.
LEMMA ClaimedRows ==
  ASSUME Inv, NEW f \in Flushes, ListCommits(f)
  PROVE  /\ rec' \in [Records -> Row] /\ Parked'
         /\ \A r \in Records : rec'[r].status = rec[r].status
         /\ \A r \in Records \ locked[f] : rec'[r] = rec[r]
         /\ \A r \in locked[f] : rec'[r].by = f[1] /\ rec'[r].fresh = TRUE
<1>. DEFINE yes == TRUE
            w == f[1]
<1>1. rec' = [r \in Records |-> IF r \in locked[f] THEN [rec[r] EXCEPT !.by = w, !.fresh = yes] ELSE rec[r]]
  BY DEF ListCommits
<1>2. yes \in BOOLEAN /\ w \in Workers
  BY DEF Flushes
<1>3. locked[f] # {} /\ Claims /\ \A r \in locked[f] : r \in Records /\ rec[r].status = "pending"
  BY DEF ListCommits, Inv, Held, Types
<1>. HIDE DEF yes, w
<1>4. /\ rec' \in [Records -> Row]
      /\ \A r \in Records : rec'[r].status = rec[r].status /\ rec'[r].attempts = rec[r].attempts
      /\ \A r \in Records \ locked[f] : rec'[r] = rec[r]
      /\ \A r \in locked[f] : rec'[r].by = w /\ rec'[r].fresh = yes
  BY <1>1, <1>2, <1>3, ZenonT(60) DEF Inv, Types, Row
<1>5. Parked'
  BY <1>3, <1>4, ZenonT(60) DEF Inv, Parked
<1>. QED
  BY <1>4, <1>5 DEF yes, w

LEMMA ListCommitsStep ==
  ASSUME Inv, NEW f \in Flushes, ListCommits(f)
  PROVE  Inv'
<1>1. /\ rec' \in [Records -> Row] /\ Parked'
      /\ \A r \in Records : rec'[r].status = rec[r].status
  BY ClaimedRows
<1>2. locked[f] \in SUBSET Records /\ \A r \in locked[f] : rec[r].status = "pending"
  BY DEF Inv, Held, Types
<1>3. locked' \in [Flushes -> SUBSET Records] /\ \A g \in Flushes : locked'[g] \subseteq locked[g]
  BY DEF ListCommits, Inv, Types
<1>4. /\ {todo', sent', accepted'} \subseteq [Flushes -> SUBSET Records]
      /\ batched' \in [Flushes -> BOOLEAN]
      /\ Reports'
      /\ \A g \in Flushes : /\ todo'[g] \in {todo[g], locked[f]}
                            /\ accepted'[g] \subseteq accepted[g]
  <2>1. CASE Flush(f, locked[f])
    BY <1>2, <2>1, FlushTypes DEF Inv
  <2>2. CASE UNCHANGED flushVars
    BY <2>2 DEF Inv, Types, Reports, flushVars
  <2>. QED
    BY <2>1, <2>2 DEF ListCommits
<1>5. Types'
  BY <1>1, <1>3, <1>4, ZenonT(60) DEF Inv, Types, ListCommits
<1>6. Held'
  <2>1. UNCHANGED delivered
    BY DEF ListCommits
  <2>2. ASSUME NEW g \in Flushes
        PROVE  /\ \A e \in todo'[g] : rec'[e].status \notin Hidden
               /\ \A e \in locked'[g] : rec'[e].status = "pending"
               /\ locked'[g] # {} => Claims
               /\ accepted'[g] \subseteq delivered
    BY <1>1, <1>2, <1>3, <1>4, <2>2, ZenonT(60) DEF Inv, Held, Types, Hidden
  <2>3. /\ \A e \in delivered : rec'[e].status \notin Hidden
        /\ \A e \in Records : rec'[e].status = "published" => e \in delivered
    BY <1>1 DEF Inv, Held, Types
  <2>. QED
    BY <2>1, <2>2, <2>3 DEF Held
<1>. QED
  BY <1>1, <1>4, <1>5, <1>6 DEF Inv

\* A publisher's call: only records of this flush are sent, accepted or received.
LEMMA EmitKeeps ==
  ASSUME Inv, NEW f \in Flushes, NEW items \in SUBSET todo[f], NEW received \in SUBSET items,
         NEW ok \in SUBSET (items \cap (accepted[f] \cup received)),
         sent' = [sent EXCEPT ![f] = items], delivered' = delivered \cup received,
         accepted' = [accepted EXCEPT ![f] = ok], UNCHANGED <<rec, locked, todo, batched>>
  PROVE  Inv'
<1>1. Types' /\ Reports' /\ Parked'
  BY SMTT(30) DEF Inv, Types, Reports, Parked
<1>2. Held'
  BY DEF Inv, Held, Types
<1>. QED
  BY <1>1, <1>2 DEF Inv

LEMMA EmitStep == ASSUME Inv, NEW f \in Flushes, NEW r \in Records, Emit(f, r) PROVE Inv'
<1>1. PICK received, ok \in SUBSET {r} :
        /\ ok \subseteq received
        /\ delivered' = delivered \cup received
        /\ accepted' = [accepted EXCEPT ![f] = @ \cup ok]
  BY DEF Emit
<1>. DEFINE items == sent[f] \cup {r}
            all == accepted[f] \cup ok
<1>2. items \in SUBSET todo[f] /\ received \in SUBSET items /\ all \in SUBSET (items \cap (accepted[f] \cup received))
  BY <1>1 DEF Emit, Head, Inv, Reports
<1>3. sent' = [sent EXCEPT ![f] = items] /\ accepted' = [accepted EXCEPT ![f] = all]
  BY <1>1 DEF Emit
<1>4. delivered' = delivered \cup received /\ UNCHANGED <<rec, locked, todo, batched>>
  BY <1>1 DEF Emit
<1>. HIDE DEF items, all
<1>. QED
  BY <1>2, <1>3, <1>4, EmitKeeps

LEMMA EmitBatchStep == ASSUME Inv, NEW f \in Flushes, EmitBatch(f) PROVE Inv'
<1>. DEFINE items == Independent(f)
<1>1. PICK received, answered \in SUBSET items : \E ok \in SUBSET (received \cap answered) :
        /\ delivered' = delivered \cup received
        /\ accepted' = [accepted EXCEPT ![f] = ok]
  BY DEF EmitBatch, AcceptedItems
<1>2. PICK ok \in SUBSET (received \cap answered) :
        /\ delivered' = delivered \cup received
        /\ accepted' = [accepted EXCEPT ![f] = ok]
  BY <1>1
<1>3. items \in SUBSET todo[f] /\ sent' = [sent EXCEPT ![f] = items] /\ UNCHANGED <<rec, locked, todo, batched>>
  BY DEF EmitBatch, Independent
<1>4. ok \in SUBSET (items \cap (accepted[f] \cup received))
  BY <1>1
<1>. HIDE DEF items
<1>. QED
  BY <1>2, <1>3, <1>4, EmitKeeps

\* The marks: what was accepted was delivered.
LEMMA MarkPublishedStep == ASSUME Inv, NEW f \in Flushes, NEW r \in Records, MarkPublished(f, r) PROVE Inv'
<1>1. r \in delivered /\ Unlocked(r) /\ rec' = Published(f, r) /\ UNCHANGED <<delivered, locked, batched>>
  BY DEF MarkPublished, Inv, Held
<1>2. Shrinks
  BY DropShrinks DEF MarkPublished, Inv
<1>. QED
  BY <1>1, <1>2, MarkStep

LEMMA ThrowShrinks ==
  ASSUME Inv, NEW f \in Flushes, NEW r \in Records, MarkPublishedThrows(f, r)
  PROVE  Shrinks
<1>1. CASE Drop(f, todo[f])
  BY <1>1, DropShrinks DEF Inv
<1>2. CASE accepted' = [accepted EXCEPT ![f] = @ \ {r}] /\ UNCHANGED <<todo, sent>>
  BY <1>2, SMTT(30) DEF Inv, Types, Reports, Shrinks
<1>. QED
  BY <1>1, <1>2 DEF MarkPublishedThrows

LEMMA MarkPublishedThrowsStep ==
  ASSUME Inv, NEW f \in Flushes, NEW r \in Records, MarkPublishedThrows(f, r)
  PROVE  Inv'
<1>1. r \in delivered /\ Unlocked(r) /\ rec' \in {rec, Published(f, r)} /\ UNCHANGED <<delivered, locked, batched>>
  BY DEF MarkPublishedThrows, Inv, Held
<1>2. Shrinks
  BY ThrowShrinks
<1>. QED
  BY <1>1, <1>2, MarkStep

LEMMA MarkFailedStep == ASSUME Inv, NEW f \in Flushes, NEW r \in Records, MarkFailed(f, r) PROVE Inv'
<1>1. Unlocked(r) /\ rec' = Failed(f, r) /\ UNCHANGED <<delivered, locked, batched>>
  BY DEF MarkFailed
<1>2. Shrinks
  BY DropShrinks DEF MarkFailed, Inv
<1>3. rec' = Published(f, r) => rec' = rec
  <2>1. CASE Owns(f, r)
    BY <1>1, <2>1, SMTT(30) DEF Published, Failed, Inv, Types, Row, Exhausted
  <2>. QED
    BY <2>1 DEF Published
<1>. QED
  BY <1>1, <1>2, <1>3, MarkStep

LEMMA MarkFailedThrowsStep ==
  ASSUME Inv, NEW f \in Flushes, NEW r \in Records, MarkFailedThrows(f, r)
  PROVE  Inv'
<1>1. Unlocked(r) /\ rec' \in {rec, Failed(f, r)} /\ UNCHANGED <<delivered, locked, batched>>
  BY DEF MarkFailedThrows
<1>2. Shrinks
  BY DropShrinks DEF MarkFailedThrows, Inv
<1>3. rec' = Published(f, r) => rec' = rec
  <2>1. CASE Owns(f, r)
    BY <1>1, <2>1, SMTT(30) DEF Published, Failed, Inv, Types, Row, Exhausted
  <2>. QED
    BY <2>1 DEF Published
<1>. QED
  BY <1>1, <1>2, <1>3, MarkStep

\* A claim that lapses: the row is as before but for fresh.
LEMMA LapsedRow ==
  ASSUME Types, NEW r \in Records, rec' = [rec EXCEPT ![r].fresh = FALSE]
  PROVE  /\ rec' \in [Records -> Row]
         /\ \A e \in Records : /\ rec'[e].status = rec[e].status /\ rec'[e].attempts = rec[e].attempts
                               /\ rec'[e].by = rec[e].by
                               /\ e # r => rec'[e] = rec[e]
<1>. DEFINE no == FALSE
<1>1. no \in BOOLEAN /\ rec' = [rec EXCEPT ![r].fresh = no]
  OBVIOUS
<1>. HIDE DEF no
<1>2. rec' \in [Records -> Row]
  BY <1>1, ZenonT(60) DEF Types, Row
<1>3. \A e \in Records : e # r => rec'[e] = rec[e]
  BY <1>1 DEF Types
<1>4. rec'[r].status = rec[r].status /\ rec'[r].attempts = rec[r].attempts /\ rec'[r].by = rec[r].by
  BY <1>1, SMTT(30) DEF Types, Row
<1>. QED
  BY <1>2, <1>3, <1>4

LEMMA ClaimLapsesStep == ASSUME Inv, NEW r \in Records, ClaimLapses(r) PROVE Inv'
<1>1. /\ rec' \in [Records -> Row]
      /\ \A e \in Records : /\ rec'[e].status = rec[e].status /\ rec'[e].attempts = rec[e].attempts
                            /\ rec'[e].by = rec[e].by
                            /\ e # r => rec'[e] = rec[e]
  BY LapsedRow DEF ClaimLapses, Inv
<1>2. rec[r].status = "pending" /\ UNCHANGED <<delivered, locked, flushVars>>
  BY DEF ClaimLapses
<1>3. Types' /\ Reports'
  BY <1>1, <1>2 DEF Inv, Types, Reports, flushVars
<1>4. Parked'
  BY <1>1, <1>2, ZenonT(60) DEF Inv, Parked
<1>5. Held'
  BY <1>1, <1>2, ZenonT(60) DEF Inv, Held, Types, flushVars
<1>. QED
  BY <1>3, <1>4, <1>5 DEF Inv

\* A crash of w: its claims become a dead worker's, its flushes are gone.
LEMMA CrashRows ==
  ASSUME Inv, NEW w \in Workers, Crash(w)
  PROVE  /\ rec' \in [Records -> Row]
         /\ \A e \in Records : /\ rec'[e].status = rec[e].status /\ rec'[e].attempts = rec[e].attempts
                               /\ rec'[e].fresh = rec[e].fresh
                               /\ rec'[e].by = IF rec[e].by = w THEN Ghost ELSE rec[e].by
         /\ {locked', todo', sent', accepted'} \subseteq [Flushes -> SUBSET Records]
         /\ \A f \in Flushes : \/ /\ f[1] = w
                                 /\ locked'[f] = {} /\ todo'[f] = {} /\ sent'[f] = {} /\ accepted'[f] = {}
                              \/ /\ f[1] # w
                                 /\ locked'[f] = locked[f] /\ todo'[f] = todo[f]
                                 /\ sent'[f] = sent[f] /\ accepted'[f] = accepted[f]
         /\ Claims /\ UNCHANGED <<delivered, batched>>
<1>1. /\ rec' \in [Records -> Row]
      /\ \A e \in Records : /\ rec'[e].status = rec[e].status /\ rec'[e].attempts = rec[e].attempts
                            /\ rec'[e].fresh = rec[e].fresh
                            /\ rec'[e].by = IF rec[e].by = w THEN Ghost ELSE rec[e].by
  BY ZenonT(60) DEF Crash, Inv, Types, Row
<1>2. {locked', todo', sent', accepted'} \subseteq [Flushes -> SUBSET Records]
  BY SMTT(30) DEF Crash, Inv, Types
<1>. QED
  BY <1>1, <1>2 DEF Crash

LEMMA CrashStep == ASSUME Inv, NEW w \in Workers, Crash(w) PROVE Inv'
<1>1. /\ rec' \in [Records -> Row]
      /\ \A e \in Records : /\ rec'[e].status = rec[e].status /\ rec'[e].attempts = rec[e].attempts
                            /\ rec'[e].fresh = rec[e].fresh
                            /\ rec'[e].by = IF rec[e].by = w THEN Ghost ELSE rec[e].by
  BY CrashRows
<1>2. /\ {locked', todo', sent', accepted'} \subseteq [Flushes -> SUBSET Records]
      /\ \A f \in Flushes : \/ locked'[f] = {} /\ todo'[f] = {} /\ sent'[f] = {} /\ accepted'[f] = {}
                           \/ /\ locked'[f] = locked[f] /\ todo'[f] = todo[f]
                              /\ sent'[f] = sent[f] /\ accepted'[f] = accepted[f]
      /\ Claims /\ UNCHANGED <<delivered, batched>>
  BY CrashRows
<1>3. Types'
  BY <1>1, <1>2 DEF Inv, Types
<1>4. Reports'
  BY <1>2 DEF Inv, Reports
<1>5. Parked'
  BY <1>1, <1>2, OutboxAssumption, SMTT(30) DEF Inv, Parked
<1>6. Held'
  BY <1>1, <1>2, ZenonT(60) DEF Inv, Held, Types
<1>. QED
  BY <1>3, <1>4, <1>5, <1>6 DEF Inv

LEMMA InitInv == Init => Inv
<1>. SUFFICES ASSUME Init PROVE Inv
  OBVIOUS
<1>. DEFINE no == FALSE
<1>1. no \in BOOLEAN /\ batched = [f \in Flushes |-> no]
      /\ rec = [r \in Records |-> [status |-> "none", attempts |-> 0, by |-> Nobody, fresh |-> no]]
  BY DEF Init
<1>. HIDE DEF no
<1>2. Types
  BY <1>1, OutboxAssumption, SMTT(30) DEF Init, Types, Row
<1>3. Reports
  BY DEF Init, Reports
<1>4. Parked
  BY <1>1, OutboxAssumption DEF Parked
<1>5. Held
  BY <1>1, SMTT(30) DEF Init, Held
<1>. QED
  BY <1>2, <1>3, <1>4, <1>5 DEF Inv

LEMMA NextInv == Inv /\ [Next]_vars => Inv'
<1>. SUFFICES ASSUME Inv, [Next]_vars PROVE Inv'
  OBVIOUS
<1>1. CASE \E r \in Records : Enqueue(r) \/ Commit(r) \/ Rollback(r) \/ ClaimLapses(r)
  BY <1>1, EnqueueStep, CommitStep, RollbackStep, ClaimLapsesStep
<1>2. CASE \E f \in Flushes : List(f) \/ ListLocks(f) \/ ListCommits(f)
  BY <1>2, ListStep, ListLocksStep, ListCommitsStep
<1>3. CASE \E f \in Flushes : Relays(f)
  BY <1>3, EmitBatchStep, EmitStep, MarkPublishedStep, MarkFailedStep, MarkPublishedThrowsStep, MarkFailedThrowsStep
     DEF Relays
<1>4. CASE \E w \in Workers : Crash(w)
  BY <1>4, CrashStep
<1>5. CASE UNCHANGED vars
  BY <1>5 DEF vars, Inv, Types, Reports, Parked, Held
<1>. QED
  BY <1>1, <1>2, <1>3, <1>4, <1>5 DEF Next

\* Whatever store, publisher and faults: what a flush reports is what it was given, a
\* parked row is parked at its budget, and what a flush holds is committed and, once
\* accepted by the publisher, received by the broker (flushOnce, listPending, markFailed).
THEOREM OutboxInvariant == Spec => []Inv
BY InitInv, NextInv, PTL DEF Spec

\* Types, and reports on records that were handed out only (flushOnce).
THEOREM OutboxTyped == Spec => []TypeOK
<1>1. Inv => TypeOK
  BY DEF Inv, Types, Reports, TypeOK
<1>. QED
  BY <1>1, OutboxInvariant, PTL

\* At least once: markPublished follows a delivery, and what is delivered was committed.
THEOREM NothingEverLost == Spec => []NothingLost
<1>1. Inv => NothingLost
  BY DEF Inv, Types, Held, Hidden, NothingLost
<1>. QED
  BY <1>1, OutboxInvariant, PTL

\* markFailed parks a record exactly when its attempts reach maxAttempts, however many
\* workers and flushes mark it.
THEOREM ParkingIsExact == Spec => []ParkedAtBudget
<1>1. Inv => ParkedAtBudget
  BY DEF Inv, Parked, ParkedAtBudget
<1>. QED
  BY <1>1, OutboxInvariant, PTL

-----------------------------------------------------------------------------
(* What a step never does to a row                                           *)

\* The six ways a step changes rows.
HiddenChange == \E r \in Records, s \in {"staged", "pending", "gone"} : rec[r].status \in Hidden /\ SetStatus(r, s)
Mark == \E f \in Flushes, r \in Records :
          \/ rec' \in {rec, Published(f, r)}
          \/ rec' = Failed(f, r) /\ r \in sent[f] /\ r \notin sent'[f]

LEMMA RowChanges ==
  ASSUME Inv, Next
  PROVE  \/ rec' = rec \/ HiddenChange \/ Mark
         \/ \E r \in Records : ClaimLapses(r)
         \/ \E f \in Flushes : List(f) \/ ListCommits(f)
         \/ \E w \in Workers : Crash(w)
<1>1. ASSUME NEW r \in Records, Enqueue(r) \/ Commit(r) \/ Rollback(r)
      PROVE  HiddenChange
  BY <1>1 DEF Enqueue, Commit, Rollback, HiddenChange, Hidden
<1>2. ASSUME NEW f \in Flushes, ListLocks(f) \/ EmitBatch(f) \/ \E r \in Records : Emit(f, r)
      PROVE  rec' = rec
  BY <1>2 DEF ListLocks, EmitBatch, Emit
<1>3. ASSUME NEW f \in Flushes, NEW r \in Records, MarkPublished(f, r) \/ MarkPublishedThrows(f, r)
      PROVE  Mark
  BY <1>3 DEF MarkPublished, MarkPublishedThrows, Mark
<1>4. ASSUME NEW f \in Flushes, NEW r \in Records, MarkFailed(f, r) \/ MarkFailedThrows(f, r)
      PROVE  rec' = rec \/ Mark
  <2>1. rec' \in {rec, Failed(f, r)} /\ r \in sent[f] /\ r \in todo[f]
    BY <1>4 DEF MarkFailed, MarkFailedThrows, Head
  <2>2. PICK S : Drop(f, S) /\ r \in S
    BY <1>4, <2>1 DEF MarkFailed, MarkFailedThrows, Halts
  <2>3. r \notin sent'[f]
    BY <2>2, DropShrinks, SMTT(30) DEF Inv
  <2>. QED
    BY <2>1, <2>3 DEF Mark
<1>. QED
  BY <1>1, <1>2, <1>3, <1>4 DEF Next, Relays

FinalStep ==
  \A r \in Records : /\ rec[r].status = "published" => rec'[r].status \in {"published", "gone"}
                     /\ rec[r].status = "failed" => rec'[r] = rec[r]

LEMMA FinalKept == ASSUME Inv, Next PROVE FinalStep
<1>1. CASE rec' = rec
  BY <1>1 DEF FinalStep
<1>2. CASE HiddenChange
  BY <1>2 DEF HiddenChange, SetStatus, Hidden, FinalStep, Inv, Types
<1>3. CASE Mark
  <2>1. PICK f \in Flushes, r \in Records : rec' \in {rec, Published(f, r), Failed(f, r)}
    BY <1>3 DEF Mark
  <2>2. /\ \A e \in Records : e # r => rec'[e] = rec[e]
        /\ rec'[r] # rec[r] => rec[r].status = "pending"
    BY <2>1, Marked
  <2>. QED
    BY <2>2 DEF FinalStep
<1>4. ASSUME NEW r \in Records, ClaimLapses(r)
      PROVE  FinalStep
  BY <1>4 DEF ClaimLapses, FinalStep, Inv, Types
<1>5. ASSUME NEW f \in Flushes, List(f)
      PROVE  FinalStep
  BY <1>5, SMTT(30) DEF List, FinalStep, Inv, Types, Row
<1>6. ASSUME NEW f \in Flushes, ListCommits(f)
      PROVE  FinalStep
  <2>1. /\ \A r \in Records : rec'[r].status = rec[r].status
        /\ \A r \in Records \ locked[f] : rec'[r] = rec[r]
    BY <1>6, ClaimedRows
  <2>. QED
    BY <2>1 DEF FinalStep, Inv, Held
<1>7. ASSUME NEW w \in Workers, Crash(w)
      PROVE  FinalStep
  <2>1. \A r \in Records : rec'[r] = IF rec[r].by = w THEN [rec[r] EXCEPT !.by = Ghost] ELSE rec[r]
    BY <1>7 DEF Crash
  <2>2. \A r \in Records : rec[r].status = "failed" => rec[r].by = Nobody
    BY DEF Inv, Parked
  <2>3. \A r \in Records : rec'[r].status = rec[r].status
    BY <1>7, CrashRows
  <2>. QED
    BY <2>1, <2>2, <2>3, OutboxAssumption DEF FinalStep
<1>. QED
  BY <1>1, <1>2, <1>3, <1>4, <1>5, <1>6, <1>7, RowChanges

\* No double finalization: a published or parked row keeps its status whichever worker
\* marks it late, with claims or without (markPublished, markFailed, prune).
THEOREM FinalStaysFinal == Spec => FinalIsFinal
<1>1. Inv /\ [Next]_vars => [FinalStep]_vars
  BY FinalKept
<1>. QED
  BY <1>1, OutboxInvariant, PTL DEF Spec, FinalIsFinal, FinalStep

\* The holder of a claim ends it by marking the row of a flush of its own.
ClaimStep ==
  \A r \in Records : \A w \in Workers :
     rec[r].status = "pending" /\ Claimed(r) /\ rec[r].by = w /\ rec'[r].by = Nobody =>
       \E s \in Slots : r \in sent[<<w, s>>] \ sent'[<<w, s>>]

LEMMA ClaimKept == ASSUME Inv, Next PROVE ClaimStep
<1>. SUFFICES ASSUME NEW r \in Records, NEW w \in Workers, rec[r].status = "pending", rec[r].by = w, rec'[r].by = Nobody
              PROVE  \E s \in Slots : r \in sent[<<w, s>>] \ sent'[<<w, s>>]
  BY DEF ClaimStep
<1>0. w # Nobody /\ w # Ghost /\ Claims /\ rec'[r] # rec[r] /\ Nobody # Ghost
  BY OutboxAssumption DEF Inv, Parked
<1>1. ~HiddenChange
  BY <1>0, SMTT(30) DEF HiddenChange, SetStatus, Inv, Types, Row
<1>2. ASSUME NEW e \in Records, ClaimLapses(e)
      PROVE  FALSE
  BY <1>0, <1>2, LapsedRow DEF ClaimLapses, Inv
<1>3. ASSUME NEW f \in Flushes, List(f) \/ ListCommits(f)
      PROVE  FALSE
  <2>1. ListCommits(f)
    BY <1>0, <1>3 DEF List
  <2>2. f[1] \in Workers /\ (r \notin locked[f] => rec'[r] = rec[r]) /\ (r \in locked[f] => rec'[r].by = f[1])
    BY <2>1, ClaimedRows DEF Flushes
  <2>. QED
    BY <1>0, <2>2, OutboxAssumption
<1>4. ASSUME NEW v \in Workers, Crash(v)
      PROVE  FALSE
  BY <1>0, <1>4, CrashRows
<1>5. Mark
  BY <1>0, <1>1, <1>2, <1>3, <1>4, RowChanges
<1>6. PICK f \in Flushes, e \in Records :
        \/ rec' \in {rec, Published(f, e)}
        \/ rec' = Failed(f, e) /\ e \in sent[f] /\ e \notin sent'[f]
  BY <1>5 DEF Mark
<1>7. e = r /\ rec[r].by = f[1]
  BY <1>0, <1>6, Marked, SMTT(30)
<1>8. rec' # rec /\ rec' # Published(f, e)
  BY <1>0, <1>7, ZenonT(60) DEF Published, Inv, Types, Row
<1>9. PICK s \in Slots : f = <<w, s>>
  BY <1>7, SMTT(30) DEF Flushes
<1>. QED
  BY <1>6, <1>7, <1>8, <1>9

\* A worker that lost its claim cannot end the next one's: claimed_by is compared by
\* markPublished and markFailed of PgOutboxStore.
THEOREM ClaimsAlwaysRespected == Spec => ClaimsRespected
<1>1. Inv /\ [Next]_vars => [ClaimStep]_vars
  BY ClaimKept
<1>. QED
  BY <1>1, OutboxInvariant, PTL DEF Spec, ClaimsRespected, ClaimStep

-----------------------------------------------------------------------------
(* One relayer: claims that outlive a flush                                  *)

\* Every flush ends within claimTtlMs.
ClaimsOutliveFlushes == Claims /\ "slow" \notin Faults

\* Rows a flush relays, and the rest of the step, as Exclusive sees them.
Mine(f, r) == rec[r].status = "published" \/ (rec[r].status = "pending" /\ rec[r].by = f[1] /\ rec[r].fresh = TRUE)

LEMMA ExclusiveKept ==
  ASSUME Exclusive, {locked, todo} \subseteq [Flushes -> SUBSET Records],
         \A g \in Flushes : todo'[g] \subseteq todo[g] /\ locked'[g] \subseteq locked[g],
         \A g \in Flushes : \A r \in todo'[g] : Mine(g, r) => Mine(g, r)'
  PROVE  Exclusive'
<1>1. \A g \in Flushes : \A r \in todo'[g] : Mine(g, r)'
  BY SMTT(30) DEF Exclusive, Mine
<1>. QED
  BY <1>1, SMTT(30) DEF Exclusive, Mine

LEMMA ExclusiveHiddenRow ==
  ASSUME Inv, Exclusive, HiddenChange, UNCHANGED <<locked, todo>>
  PROVE  Exclusive'
<1>1. \A g \in Flushes : \A r \in todo[g] : r \in Records /\ rec[r].status \notin Hidden
  BY DEF Inv, Held, Types
<1>2. \A r \in Records : rec[r].status \notin Hidden => rec'[r] = rec[r]
  BY DEF HiddenChange, SetStatus, Inv, Types
<1>3. \A g \in Flushes : \A r \in todo[g] : rec'[r] = rec[r]
  BY <1>1, <1>2
<1>. QED
  BY <1>3, ExclusiveKept DEF Inv, Types, Mine

LEMMA ExclusiveListLocks ==
  ASSUME Inv, Exclusive, NEW f \in Flushes, ListLocks(f)
  PROVE  Exclusive'
<1>. DEFINE skip == UNION {locked[g] : g \in Flushes}
            S == FirstOf({r \in Records \ skip : Eligible(f[1], r)})
<1>1. \A r \in S : /\ r \in Records /\ rec[r].status = "pending" /\ ~Claimed(r)
                    /\ \A g \in Flushes : r \notin locked[g]
  BY DEF FirstOf, Eligible
<1>2. locked' = [locked EXCEPT ![f] = S] /\ UNCHANGED <<rec, todo>>
  BY DEF ListLocks, flushVars
<1>3. ASSUME NEW g \in Flushes, NEW r \in todo[g], rec[r].status = "pending"
      PROVE  Claimed(r)
  <2>1. rec[r].by = g[1] /\ rec[r].fresh = TRUE
    BY <1>3 DEF Exclusive
  <2>2. g[1] # Nobody
    BY OutboxAssumption DEF Flushes
  <2>. QED
    BY <2>1, <2>2 DEF Claimed
<1>4. \A g \in Flushes : S \cap todo[g] = {} /\ S \cap locked[g] = {}
  BY <1>1, <1>3
<1>. HIDE DEF S
<1>5. \A g \in Flushes : locked'[g] = IF g = f THEN S ELSE locked[g]
  BY <1>2 DEF Inv, Types
<1>. QED
  BY <1>2, <1>4, <1>5, SMTT(30) DEF Exclusive

LEMMA ExclusiveListCommits ==
  ASSUME Inv, Exclusive, NEW f \in Flushes, ListCommits(f)
  PROVE  Exclusive'
<1>1. /\ \A r \in Records : rec'[r].status = rec[r].status
      /\ \A r \in Records \ locked[f] : rec'[r] = rec[r]
      /\ \A r \in locked[f] : rec'[r].by = f[1] /\ rec'[r].fresh = TRUE
  BY ClaimedRows
<1>2. \A g \in Flushes : locked'[g] = IF g = f THEN {} ELSE locked[g]
  BY DEF ListCommits, Inv, Types
<1>3. \/ todo' = todo
      \/ \A g \in Flushes : todo'[g] = IF g = f THEN locked[f] ELSE todo[g]
  BY DEF ListCommits, Flush, flushVars, Inv, Types
<1>4. \A g \in Flushes : locked[f] \cap todo[g] = {} /\ todo[g] \subseteq Records
  BY DEF Exclusive, Inv, Types
<1>5. \A g \in Flushes : \A r \in todo[g] : rec'[r] = rec[r] /\ Mine(g, r)
  BY <1>1, <1>4 DEF Exclusive, Mine
<1>6. \A r \in locked[f] : rec'[r].status = "pending"
  BY <1>1 DEF Inv, Held, Types
<1>7. \A g \in Flushes : \A r \in todo'[g] : Mine(g, r)'
  BY <1>1, <1>3, <1>5, <1>6, SMTT(30) DEF Mine
<1>8. \A g, h \in Flushes : /\ locked'[g] \cap todo'[h] = {}
                            /\ g # h => todo'[g] \cap todo'[h] = {} /\ locked'[g] \cap locked'[h] = {}
  BY <1>2, <1>3, <1>4, SMTT(30) DEF Exclusive
<1>. QED
  BY <1>7, <1>8 DEF Exclusive, Mine

\* A mark by the relayer of a row: published, or no longer its record.
LEMMA ExclusiveMark ==
  ASSUME Inv, Exclusive, NEW f \in Flushes, NEW r \in todo[f], UNCHANGED locked, Shrinks,
         \/ rec' \in {rec, Published(f, r)}
         \/ rec' = Failed(f, r) /\ r \notin todo'[f]
  PROVE  Exclusive'
<1>1. r \in Records /\ \A g \in Flushes : g # f => r \notin todo[g]
  BY DEF Inv, Types, Exclusive
<1>2. \A e \in Records : e # r => rec'[e] = rec[e]
  BY <1>1, Marked, ZenonT(60)
<1>3. rec' = Published(f, r) => rec' = rec \/ rec'[r].status = "published"
  BY <1>1, SMTT(30) DEF Published, Inv, Types, Row
<1>4. \A g \in Flushes : \A e \in todo'[g] : Mine(g, e) => Mine(g, e)'
  <2>. SUFFICES ASSUME NEW g \in Flushes, NEW e \in todo'[g], Mine(g, e)
                PROVE  Mine(g, e)'
    OBVIOUS
  <2>1. e \in todo[g] /\ e \in Records
    BY DEF Shrinks, Inv, Types
  <2>2. CASE e # r \/ rec' = rec
    BY <1>2, <2>1, <2>2 DEF Mine
  <2>3. CASE e = r /\ rec' # rec
    BY <1>1, <1>3, <2>1, <2>3 DEF Mine
  <2>. QED
    BY <2>2, <2>3
<1>. QED
  BY <1>4, ExclusiveKept DEF Shrinks, Inv, Types

LEMMA ExclusiveRelays ==
  ASSUME Inv, Exclusive, NEW f \in Flushes, Relays(f)
  PROVE  Exclusive'
<1>1. CASE EmitBatch(f) \/ \E r \in Records : Emit(f, r)
  <2>1. UNCHANGED <<rec, locked, todo>>
    BY <1>1 DEF EmitBatch, Emit
  <2>. QED
    BY <2>1 DEF Exclusive
<1>2. ASSUME NEW r \in Records, MarkPublished(f, r)
      PROVE  Exclusive'
  <2>1. r \in todo[f] /\ UNCHANGED locked /\ rec' = Published(f, r) /\ Shrinks
    BY <1>2, DropShrinks DEF MarkPublished, Head, Inv
  <2>. QED
    BY <2>1, ExclusiveMark
<1>3. ASSUME NEW r \in Records, MarkPublishedThrows(f, r)
      PROVE  Exclusive'
  <2>1. r \in todo[f] /\ UNCHANGED locked /\ rec' \in {rec, Published(f, r)}
    BY <1>3 DEF MarkPublishedThrows, Head
  <2>2. Shrinks
    BY <1>3, ThrowShrinks
  <2>. QED
    BY <2>1, <2>2, ExclusiveMark
<1>4. ASSUME NEW r \in Records, MarkFailed(f, r) \/ MarkFailedThrows(f, r)
      PROVE  Exclusive'
  <2>1. r \in todo[f] /\ UNCHANGED locked /\ rec' \in {rec, Failed(f, r)}
    BY <1>4 DEF MarkFailed, MarkFailedThrows, Head
  <2>2. PICK S : Drop(f, S) /\ r \in S
    BY <1>4, <2>1 DEF MarkFailed, MarkFailedThrows, Halts
  <2>3. Shrinks /\ r \notin todo'[f]
    BY <2>2, DropShrinks, SMTT(30) DEF Inv
  <2>. QED
    BY <2>1, <2>3, ExclusiveMark
<1>. QED
  BY <1>1, <1>2, <1>3, <1>4 DEF Relays

\* Only a claim no flush relies on lapses.
LEMMA ExclusiveClaimLapses ==
  ASSUME Inv, Exclusive, "slow" \notin Faults, NEW r \in Records, ClaimLapses(r)
  PROVE  Exclusive'
<1>1. rec[r].status = "pending" /\ \A f \in Flushes : f[1] = rec[r].by => r \notin todo[f]
  BY DEF ClaimLapses
<1>2. \A f \in Flushes : r \notin todo[f]
  BY <1>1 DEF Exclusive
<1>3. \A e \in Records : e # r => rec'[e] = rec[e]
  BY LapsedRow DEF ClaimLapses, Inv
<1>4. UNCHANGED <<locked, todo>>
  BY DEF ClaimLapses, flushVars
<1>5. \A f \in Flushes : \A e \in todo[f] : rec'[e] = rec[e]
  BY <1>2, <1>3 DEF Inv, Types
<1>. QED
  BY <1>4, <1>5, ExclusiveKept DEF Inv, Types, Mine

LEMMA ExclusiveCrash ==
  ASSUME Inv, Exclusive, NEW w \in Workers, Crash(w)
  PROVE  Exclusive'
<1>1. /\ \A e \in Records : /\ rec'[e].status = rec[e].status
                            /\ rec'[e].fresh = rec[e].fresh
                            /\ rec'[e].by = IF rec[e].by = w THEN Ghost ELSE rec[e].by
      /\ \A f \in Flushes : \/ f[1] = w /\ locked'[f] = {} /\ todo'[f] = {}
                            \/ f[1] # w /\ locked'[f] = locked[f] /\ todo'[f] = todo[f]
  BY CrashRows, SMTT(30)
<1>2. \A f \in Flushes : \A e \in todo'[f] : e \in Records /\ f[1] # w
  BY <1>1 DEF Inv, Types
<1>3. \A f \in Flushes : \A e \in todo'[f] : Mine(f, e) => Mine(f, e)'
  BY <1>1, <1>2 DEF Mine
<1>. QED
  BY <1>1, <1>3, ExclusiveKept DEF Inv, Types

LEMMA NextExclusive == ASSUME ClaimsOutliveFlushes PROVE Inv /\ Exclusive /\ [Next]_vars => Exclusive'
<1>. SUFFICES ASSUME Inv, Exclusive, [Next]_vars PROVE Exclusive'
  OBVIOUS
<1>1. ASSUME NEW r \in Records, Enqueue(r) \/ Commit(r) \/ Rollback(r)
      PROVE  Exclusive'
  <2>1. HiddenChange /\ UNCHANGED <<locked, todo>>
    BY <1>1 DEF Enqueue, Commit, Rollback, HiddenChange, Hidden, flushVars
  <2>. QED
    BY <2>1, ExclusiveHiddenRow
<1>2. ASSUME NEW r \in Records, ClaimLapses(r)
      PROVE  Exclusive'
  BY <1>2, ExclusiveClaimLapses DEF ClaimsOutliveFlushes
<1>3. ASSUME NEW f \in Flushes, List(f) \/ ListLocks(f) \/ ListCommits(f) \/ Relays(f)
      PROVE  Exclusive'
  BY <1>3, ExclusiveListLocks, ExclusiveListCommits, ExclusiveRelays DEF List, ClaimsOutliveFlushes
<1>4. ASSUME NEW w \in Workers, Crash(w)
      PROVE  Exclusive'
  BY <1>4, ExclusiveCrash
<1>5. CASE UNCHANGED vars
  BY <1>5 DEF vars, Exclusive
<1>. QED
  BY <1>1, <1>2, <1>3, <1>4, <1>5 DEF Next

\* With claims (PgOutboxStore) that outlive a flush, two flushes never relay the same
\* record at once, whatever crashes and failing calls there are: FOR UPDATE SKIP LOCKED
\* keeps two listings apart, claimed_at keeps a listing from rows in relay.
THEOREM OneRelayerAtATime == ASSUME ClaimsOutliveFlushes PROVE Spec => []OneRelayer
<1>1. Init => Exclusive
  BY DEF Init, Exclusive
<1>2. Exclusive => OneRelayer
  BY DEF Exclusive, OneRelayer
<1>3. Inv /\ Exclusive /\ [Next]_vars => Exclusive'
  BY NextExclusive
<1>. QED
  BY <1>1, <1>2, <1>3, OutboxInvariant, PTL DEF Spec

-----------------------------------------------------------------------------
(* Partition order: one relay over a store without claims                    *)

\* The rows that became visible, and the rest of the flushes, as InOrder sees them.
Sequenced ==
  \A r, e \in Records : e < r => /\ (rec[r].status # "none" => rec[e].status # "none")
                                 /\ (rec[r].status \in Visible => rec[e].status \notin Hidden)
Preceded(f, r) ==
  Key[r] # NoKey => \A e \in Earlier(r) : e \in todo[f] \/ e \in delivered \/ rec[e].status = "gone"

LEMMA InOrderParts == InOrder <=> Sequenced /\ \A f \in Flushes : \A r \in todo[f] : Preceded(f, r)
BY DEF InOrder, Sequenced, Preceded

\* Rows that only move forward keep the sequence.
LEMMA SequencedKept ==
  ASSUME Sequenced, \A r \in Records : /\ rec'[r].status # "none" <=> rec[r].status # "none"
                                       /\ rec[r].status \notin Hidden => rec'[r].status \notin Hidden
                                       /\ rec'[r].status \in Visible => rec[r].status \in Visible
  PROVE  Sequenced'
BY DEF Sequenced

LEMMA RecordsAreNumbers == Records \subseteq Nat
BY OutboxAssumption

\* A smaller number has fewer numbers below it.
LEMMA Below ==
  ASSUME NEW S \in SUBSET Nat, NEW e \in Nat, NEW r \in Nat, e < r
  PROVE  {x \in S : x < e} \subseteq {x \in S : x < r} /\ {x \in S : x < r} \subseteq 0..r
<1>1. ASSUME NEW x \in S
      PROVE  (x < e => x < r) /\ (x < r => x \in 0..r)
  <2>1. x \in Nat
    OBVIOUS
  <2>. QED
    BY <2>1, SMTT(30)
<1>. QED
  BY <1>1

\* The first Batch records of a set: what precedes one of them in the set is one too.
LEMMA FirstOfClosed ==
  ASSUME NEW S \in SUBSET Records, NEW r \in FirstOf(S), NEW e \in S, e < r
  PROVE  e \in FirstOf(S)
<1>. DEFINE A == {x \in S : x < e}
            B == {x \in S : x < r}
<1>1. r \in S /\ Cardinality(B) < Batch
  BY DEF FirstOf
<1>2. r \in Nat /\ e \in Nat /\ S \in SUBSET Nat
  BY <1>1, RecordsAreNumbers
<1>3. A \subseteq B /\ B \subseteq 0..r
  BY <1>2, Below
<1>4. IsFiniteSet(0..r)
  BY <1>2, FS_Interval, SMTT(30)
<1>5. IsFiniteSet(B)
  BY <1>3, <1>4, FS_Subset
<1>6. IsFiniteSet(A) /\ Cardinality(A) <= Cardinality(B)
  BY <1>3, <1>5, FS_Subset
<1>7. Cardinality(A) \in Nat /\ Cardinality(B) \in Nat
  BY <1>5, <1>6, FS_CardinalityType
<1>8. Cardinality(A) < Batch
  BY <1>1, <1>6, <1>7, OutboxAssumption, SMTT(30)
<1>. QED
  BY <1>8 DEF FirstOf

LEMMA InOrderList ==
  ASSUME Inv, InOrder, ~Claims, NEW f \in Flushes, List(f)
  PROVE  InOrder'
<1>. DEFINE E == {r \in Records : Eligible(f[1], r)}
            S == FirstOf(E)
<1>1. PICK old \in SUBSET {r \in Records : rec[r].status = "published"} :
        rec' = [r \in Records |-> IF r \in old THEN [rec[r] EXCEPT !.status = "gone"] ELSE rec[r]]
  BY DEF List
<1>2. \A r \in Records : rec'[r].status = IF r \in old THEN "gone" ELSE rec[r].status
  BY <1>1 DEF Inv, Types, Row
<1>3. Sequenced'
  <2>1. Sequenced
    BY InOrderParts
  <2>2. \A r \in Records : /\ rec'[r].status # "none" <=> rec[r].status # "none"
                           /\ rec[r].status \notin Hidden => rec'[r].status \notin Hidden
                           /\ rec'[r].status \in Visible => rec[r].status \in Visible
    BY <1>2 DEF Hidden, Visible
  <2>. QED
    BY <2>1, <2>2, SequencedKept
<1>4. UNCHANGED delivered /\ todo' = [todo EXCEPT ![f] = S]
  BY DEF List, Flush
<1>5. \A r \in Records : rec[r].status = "gone" => rec'[r].status = "gone"
  BY <1>2
<1>6. ASSUME NEW r \in S, Key[r] # NoKey, NEW e \in Earlier(r)
      PROVE  e \in S \/ e \in delivered \/ rec[e].status = "gone"
  <2>1. r \in E /\ r \in Records /\ rec[r].status = "pending" /\ ~Blocked(r)
    BY DEF FirstOf, Eligible
  <2>2. e \in Records /\ e < r /\ Key[e] = Key[r]
    BY DEF Earlier
  <2>3. rec[e].status \in {"pending", "published", "failed", "gone"}
    BY <2>1, <2>2, ZenonT(60) DEF InOrder, Hidden, Visible, Inv, Types, Row
  <2>4. rec[e].status # "failed"
    BY <1>6, <2>1 DEF Blocked
  <2>5. CASE rec[e].status = "pending"
    <3>1. \A c \in Records : ~Claimed(c)
      BY DEF Claimed, Inv, Parked
    <3>2. Earlier(e) \subseteq Earlier(r)
      <4>1. r \in Nat /\ e \in Nat /\ Records \in SUBSET Nat
        BY <2>1, <2>2, RecordsAreNumbers
      <4>2. {x \in Records : x < e} \subseteq {x \in Records : x < r}
        BY <2>2, <4>1, Below
      <4>. QED
        BY <2>2, <4>2 DEF Earlier
    <3>3. ~Blocked(e)
      BY <1>6, <2>1, <2>2, <3>2 DEF Blocked
    <3>4. e \in E
      BY <2>2, <2>5, <3>1, <3>3 DEF Eligible
    <3>. HIDE DEF E
    <3>5. E \in SUBSET Records
      BY DEF E
    <3>. QED
      BY <2>2, <3>4, <3>5, FirstOfClosed
  <2>6. CASE rec[e].status = "published"
    BY <2>2, <2>6 DEF Inv, Held
  <2>. QED
    BY <2>3, <2>4, <2>5, <2>6
<1>7. \A r \in S : Earlier(r) \subseteq Records
  BY DEF Earlier
<1>. HIDE DEF S
<1>8. \A g \in Flushes : todo'[g] = IF g = f THEN S ELSE todo[g]
  BY <1>4 DEF Inv, Types
<1>9. ASSUME NEW g \in Flushes, NEW r \in todo'[g]
      PROVE  Preceded(g, r)'
  <2>1. CASE g = f
    BY <1>4, <1>5, <1>6, <1>7, <1>8, <1>9, <2>1, SMTT(30) DEF Preceded
  <2>2. CASE g # f
    BY <1>4, <1>5, <1>8, <1>9, <2>2, ZenonT(60) DEF Preceded, InOrder, Earlier
  <2>. QED
    BY <2>1, <2>2
<1>. QED
  BY <1>3, <1>9 DEF InOrder, Sequenced, Preceded

\* What leaves a flush leaves with its partition, or was delivered.
LEMMA InOrderShrinks ==
  ASSUME Inv, InOrder, Sequenced', delivered \subseteq delivered',
         \A r \in Records : rec[r].status = "gone" => rec'[r].status = "gone",
         \A g \in Flushes : todo'[g] \subseteq todo[g],
         \A g \in Flushes : \A e \in todo[g] \ todo'[g] :
            e \in delivered \/ \A r \in todo'[g] : Key[r] # NoKey => Key[r] # Key[e]
  PROVE  InOrder'
<1>1. ASSUME NEW g \in Flushes, NEW r \in todo'[g], Key[r] # NoKey, NEW e \in Earlier(r)
      PROVE  e \in todo'[g] \/ e \in delivered' \/ rec'[e].status = "gone"
  <2>1. e \in Records /\ Key[e] = Key[r] /\ r \in todo[g]
    BY DEF Earlier
  <2>2. e \in todo[g] \/ e \in delivered \/ rec[e].status = "gone"
    BY <1>1, <2>1 DEF InOrder
  <2>. QED
    BY <1>1, <2>1, <2>2
<1>. QED
  BY <1>1 DEF InOrder, Sequenced

\* A row becomes visible after the earlier ones were committed or rolled back.
LEMMA InOrderHiddenRow ==
  ASSUME Inv, InOrder, NEW r \in Records, NEW s \in {"staged", "pending", "gone"}, SetStatus(r, s),
         rec[r].status \in Hidden, \A e \in Records : e < r => rec[e].status # "none",
         s = "pending" => \A e \in Records : e < r => rec[e].status # "staged",
         s = "staged" => rec[r].status = "none",
         UNCHANGED <<delivered, todo>>
  PROVE  InOrder'
<1>1. rec'[r].status = s /\ \A e \in Records : e # r => rec'[e] = rec[e]
  BY StatusSet DEF SetStatus, Statuses, Inv
<1>2. \A e \in Records : rec[e].status \notin Hidden => rec'[e].status \notin Hidden
  BY <1>1
<1>3. Sequenced'
  <2>. SUFFICES ASSUME NEW x \in Records, NEW e \in Records, e < x
                PROVE  /\ (rec'[x].status # "none" => rec'[e].status # "none")
                       /\ (rec'[x].status \in Visible => rec'[e].status \notin Hidden)
    BY DEF Sequenced
  <2>1. e # x
    BY RecordsAreNumbers, SMTT(30)
  <2>2. CASE x = r
    BY <1>1, <2>1, <2>2 DEF Visible, Hidden
  <2>3. CASE x # r
    BY <1>1, <1>2, <2>1, <2>3 DEF InOrder, Visible, Hidden
  <2>. QED
    BY <2>2, <2>3
<1>4. \A e \in Records : rec[e].status = "gone" => rec'[e].status = "gone"
  BY <1>1 DEF Hidden
<1>. QED
  BY <1>3, <1>4, InOrderShrinks

\* A mark keeps the sequence.
LEMMA SequencedMark ==
  ASSUME Inv, InOrder, NEW f \in Flushes, NEW r \in Records, rec' \in {rec, Published(f, r), Failed(f, r)}
  PROVE  Sequenced' /\ \A e \in Records : rec[e].status = "gone" => rec'[e].status = "gone"
<1>1. /\ \A e \in Records : e # r => rec'[e] = rec[e]
      /\ rec'[r] # rec[r] => rec[r].status = "pending" /\ rec'[r].status \in {"pending", "published", "failed"}
  BY Marked
<1>2. \A e \in Records : /\ rec'[e].status # "none" <=> rec[e].status # "none"
                         /\ rec[e].status \notin Hidden => rec'[e].status \notin Hidden
                         /\ rec'[e].status \in Visible => rec[e].status \in Visible
                         /\ rec[e].status = "gone" => rec'[e].status = "gone"
  BY <1>1 DEF Hidden, Visible
<1>. QED
  BY <1>2, SequencedKept, InOrderParts

LEMMA InOrderRelays ==
  ASSUME Inv, InOrder, NEW f \in Flushes, Relays(f)
  PROVE  InOrder'
<1>1. CASE EmitBatch(f) \/ \E r \in Records : Emit(f, r)
  <2>1. UNCHANGED <<rec, todo>> /\ delivered \subseteq delivered'
    BY <1>1 DEF EmitBatch, Emit
  <2>. QED
    BY <2>1, InOrderShrinks, InOrderParts DEF Sequenced
<1>2. ASSUME NEW r \in Records, MarkPublished(f, r)
      PROVE  InOrder'
  <2>1. rec' = Published(f, r) /\ r \in delivered /\ UNCHANGED delivered
    BY <1>2 DEF MarkPublished, Inv, Held
  <2>2. \A g \in Flushes : todo'[g] \subseteq todo[g] /\ todo[g] \ todo'[g] \subseteq {r}
    BY <1>2 DEF MarkPublished, Drop, Inv, Types
  <2>. QED
    BY <2>1, <2>2, SequencedMark, InOrderShrinks
<1>3. ASSUME NEW r \in Records, MarkPublishedThrows(f, r)
      PROVE  InOrder'
  <2>1. rec' \in {rec, Published(f, r)} /\ UNCHANGED delivered
    BY <1>3 DEF MarkPublishedThrows
  <2>2. \A g \in Flushes : todo'[g] = todo[g] \/ todo'[g] = {}
    BY <1>3, SMTT(30) DEF MarkPublishedThrows, Drop, Inv, Types
  <2>. QED
    BY <2>1, <2>2, SequencedMark, InOrderShrinks
<1>4. ASSUME NEW r \in Records, MarkFailed(f, r) \/ MarkFailedThrows(f, r)
      PROVE  InOrder'
  <2>1. rec' \in {rec, Failed(f, r)} /\ UNCHANGED delivered
    BY <1>4 DEF MarkFailed, MarkFailedThrows
  <2>2. Drop(f, Halts(f, r)) \/ Drop(f, todo[f])
    BY <1>4 DEF MarkFailed, MarkFailedThrows
  <2>3. \A g \in Flushes : todo'[g] = todo[g] \/ todo'[g] = {} \/ todo'[g] = todo[g] \ Halts(f, r)
    BY <2>2, SMTT(30) DEF Drop, Inv, Types
  <2>4. \A g \in Flushes : todo'[g] # todo[g] => g = f
    BY <2>2 DEF Drop, Inv, Types
  <2>5. ASSUME NEW g \in Flushes, NEW e \in todo[g] \ todo'[g], NEW x \in todo'[g], Key[x] # NoKey
        PROVE  Key[x] # Key[e]
    <3>1. g = f /\ e \in Halts(f, r) /\ x \notin Halts(f, r) /\ x \in todo[f]
      BY <2>3, <2>4, <2>5
    <3>. QED
      BY <2>5, <3>1 DEF Halts
  <2>. QED
    BY <2>1, <2>3, <2>5, SequencedMark, InOrderShrinks
<1>. QED
  BY <1>1, <1>2, <1>3, <1>4 DEF Relays

LEMMA NextInOrder == ASSUME ~Claims, CommitsInOrder PROVE Inv /\ InOrder /\ [Next]_vars => InOrder'
<1>. SUFFICES ASSUME Inv, InOrder, [Next]_vars PROVE InOrder'
  OBVIOUS
<1>1. ASSUME NEW r \in Records, Enqueue(r) \/ Commit(r) \/ Rollback(r)
      PROVE  InOrder'
  <2>1. PICK s \in {"staged", "pending", "gone"} :
          /\ SetStatus(r, s) /\ rec[r].status \in Hidden
          /\ (s = "pending" => \A e \in Records : e < r => rec[e].status # "staged")
          /\ (s = "staged" => rec[r].status = "none")
    BY <1>1 DEF Enqueue, Commit, Rollback, MayBecomeVisible, Hidden
  <2>2. \A e \in Records : e < r => rec[e].status # "none"
    BY <1>1 DEF Enqueue, Commit, Rollback, InOrder
  <2>3. UNCHANGED <<delivered, todo>>
    BY <1>1 DEF Enqueue, Commit, Rollback, flushVars
  <2>. QED
    BY <2>1, <2>2, <2>3, InOrderHiddenRow
<1>2. \A r \in Records : ~ClaimLapses(r)
  BY DEF ClaimLapses, Claimed, Inv, Parked
<1>3. \A f \in Flushes : ~ListLocks(f) /\ ~ListCommits(f)
  BY DEF ListLocks, ListCommits, Inv, Held
<1>4. ASSUME NEW f \in Flushes, List(f) \/ Relays(f)
      PROVE  InOrder'
  BY <1>4, InOrderList, InOrderRelays
<1>5. \A w \in Workers : ~Crash(w)
  BY DEF Crash
<1>6. CASE UNCHANGED vars
  BY <1>6 DEF vars, InOrder
<1>. QED
  BY <1>1, <1>2, <1>3, <1>4, <1>5, <1>6 DEF Next

OrderedStep ==
  \A r \in delivered' \ delivered : Key[r] # NoKey =>
     \A e \in Earlier(r) : rec[e].status \in {"pending", "failed"} => e \in delivered'

LEMMA RelayOrdered == ASSUME Inv, InOrder, [Next]_vars PROVE OrderedStep
<1>. SUFFICES ASSUME NEW r \in delivered' \ delivered, Key[r] # NoKey, NEW e \in Earlier(r),
                     rec[e].status \in {"pending", "failed"}
              PROVE  e \in delivered'
  BY DEF OrderedStep
<1>1. PICK f \in Flushes : EmitBatch(f) \/ \E x \in Records : Emit(f, x)
  BY ZenonT(60) DEF Next, Enqueue, Commit, Rollback, ClaimLapses, List, ListLocks, ListCommits, Relays, MarkPublished, MarkFailed,
         MarkPublishedThrows, MarkFailedThrows, Crash, vars
<1>2. ~EmitBatch(f)
  BY DEF EmitBatch, Independent
<1>3. Emit(f, r)
  BY <1>1, <1>2 DEF Emit
<1>4. r \in todo[f] /\ \A x \in todo[f] : Key[x] = Key[r] => r <= x
  BY <1>3 DEF Emit, Head
<1>5. e \in Records /\ r \in Records /\ e < r /\ Key[e] = Key[r]
  BY <1>4 DEF Earlier, Inv, Types
<1>6. e \notin todo[f]
  BY <1>4, <1>5, OutboxAssumption, SMTT(30)
<1>7. e \in delivered
  BY <1>4, <1>6 DEF InOrder
<1>. QED
  BY <1>3, <1>7 DEF Emit

\* One relay over a store without claims whose transactions commit in the order of their
\* records hands the broker every partition in order, through failures and retries: a
\* partition halts at the record that failed (relayOrdered, listPending).
THEOREM PartitionsInOrder == ASSUME ~Claims, CommitsInOrder PROVE Spec => OrderedRelay
<1>1. Init => InOrder
  BY SMTT(30) DEF Init, InOrder, Visible
<1>2. Inv /\ InOrder /\ [Next]_vars => InOrder'
  BY NextInOrder
<1>3. Inv /\ InOrder /\ [Next]_vars => [OrderedStep]_vars
  BY RelayOrdered
<1>. QED
  BY <1>1, <1>2, <1>3, OutboxInvariant, PTL DEF Spec, OrderedRelay, OrderedStep

=============================================================================
