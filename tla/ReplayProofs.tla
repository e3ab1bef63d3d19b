---------------------------- MODULE ReplayProofs ----------------------------
(***************************************************************************)
(* Proofs about Replay, for any number of queries and errors.              *)
(***************************************************************************)
EXTENDS Replay, DeploymentKinds, WellFoundedInduction, TLAPS

Database == [work : Seq(Query), done : Seq(Query), nextkey : Nat]
Told == [work : Seq(Query), done : Seq(Query)]
Trigger == [log : Seq(Query), wasintx : BOOLEAN, disabled : BOOLEAN]
ReplayRun ==
    [on : {TRUE}, query : Query, cause : Errors, at : Nat, retry : Nat,
     error : Errors \cup {"none", "error"}, rows : Seq(Query)]

\* A replay has started over once per error at most.
ReplayTypeInv ==
    /\ TypeOK
    /\ run = Idle \/ (run \in ReplayRun /\ run.retry <= errors)

\* What an empty or a single row appends.
LEMMA OneRow ==
    ASSUME NEW s \in Seq(Query), NEW q \in Query
    PROVE  /\ <<>> \in Seq(Query) /\ <<q>> \in Seq(Query)
           /\ <<q>>[1] = q /\ <<q>> # <<>>
           /\ s \o <<>> = s /\ s \o <<q>> = Append(s, q)
           /\ Append(s, q) \in Seq(Query) /\ Len(Append(s, q)) = Len(s) + 1
           /\ Append(s, q)[Len(s) + 1] = q
           /\ \A i \in 1 .. Len(s) : Append(s, q)[i] = s[i]
OBVIOUS

LEMMA OneQuery ==
    ASSUME NEW q \in Query, NEW s
    PROVE  /\ s = <<q>> => Len(s) = 1 /\ s[1] = q
           /\ s = <<>> => Len(s) = 0
OBVIOUS

LEMMA Appended ==
    ASSUME NEW s \in Seq(Query), NEW t \in Seq(Query), NEW j \in DOMAIN (s \o t)
    PROVE  \/ j \in DOMAIN s /\ (s \o t)[j] = s[j]
           \/ j - Len(s) \in DOMAIN t /\ (s \o t)[j] = t[j - Len(s)]
OBVIOUS

LEMMA EmptyRow ==
    /\ <<>> \in Seq(Query)
    /\ \A q \in Query : <<q>> \in Seq(Query)
OBVIOUS

LEMMA RowsType ==
    ASSUME db \in Database, NEW q \in Query
    PROVE  /\ RowsOf(q) = <<>> \/ \E r \in Query : RowsOf(q) = <<r>>
           /\ RowsOf(q) \in Seq(Query)
<1>1. [q EXCEPT !.key = db.nextkey] \in Query
  BY DEF Query, Database
<1>2. RowsOf(q) = <<>> \/ RowsOf(q) = <<q>> \/ RowsOf(q) = <<[q EXCEPT !.key = db.nextkey]>>
  BY DEF RowsOf
<1>. QED BY <1>1, <1>2, EmptyRow

LEMMA RanType ==
    ASSUME db \in Database, intx \in BOOLEAN, NEW q \in Query
    PROVE  Ran(q) \in Database
<1> DEFINE rows == RowsOf(q)
           k == IF Generates(q) THEN 1 ELSE 0
<1>1. rows \in Seq(Query)
  BY RowsType
<1>2. k \in Nat
  OBVIOUS
<1> HIDE DEF rows, k
<1>3. /\ db.work \in Seq(Query) /\ db.done \in Seq(Query) /\ db.nextkey \in Nat
  BY DEF Database
<1>4. /\ db.work \o rows \in Seq(Query) /\ db.done \o rows \in Seq(Query)
      /\ db.nextkey + k \in Nat
  BY <1>1, <1>2, <1>3
<1>. QED BY <1>3, <1>4 DEF Ran, Database, rows, k

LEMMA GaveUpType ==
    ASSUME db \in Database, NEW error
    PROVE  GaveUp(error) \in Database
BY EmptyRow DEF GaveUp, Database

LEMMA ToldType ==
    ASSUME client \in Told, NEW q \in Query, NEW rows \in Seq(Query), NEW error
    PROVE  ToldDone(q, rows) \in Told /\ ToldError(error) \in Told
<1> DEFINE told == IF q.kind = "select" THEN <<>>
                   ELSE IF rows = <<>> THEN <<q>> ELSE rows
<1>1. told \in Seq(Query)
  OBVIOUS
<1> HIDE DEF told
<1>2. client.work \o told \in Seq(Query) /\ client.done \o told \in Seq(Query)
  BY <1>1 DEF Told
<1>3. ToldDone(q, rows) = IF intx THEN [client EXCEPT !.work = client.work \o told]
                                  ELSE [client EXCEPT !.done = client.done \o told]
  BY DEF ToldDone, told, Told
<1>4. ToldDone(q, rows) \in Told
  BY <1>2, <1>3 DEF Told
<1>5. ToldError(error) \in Told
  BY EmptyRow DEF ToldError, Told
<1>. QED BY <1>4, <1>5

LEMMA LogQueryType ==
    ASSUME tr \in Trigger, intx \in BOOLEAN, NEW q \in Query, NEW rows \in Seq(Query),
           rows = <<>> \/ \E r \in Query : rows = <<r>>
    PROVE  LogQuery(q, rows) \in Trigger
<1> DEFINE log == IF intx /\ tr.wasintx THEN tr.log ELSE <<>>
           row == IF rows = <<>> THEN q ELSE rows[1]
           t == [tr EXCEPT !.log = log, !.wasintx = tr.wasintx \/ intx]
<1>1. log \in Seq(Query) /\ row \in Query
  BY DEF Trigger
<1>2. LogQuery(q, rows) =
        IF tr.disabled THEN tr
        ELSE IF q.kind = "select" /\ ~dep.includeselects THEN t
        ELSE IF q.kind = "insertselect"
        THEN IF intx THEN [t EXCEPT !.log = <<>>, !.disabled = TRUE] ELSE t
        ELSE [t EXCEPT !.log = Append(log, row)]
  BY DEF LogQuery, Trigger
<1>3. Append(log, row) \in Seq(Query)
  BY <1>1
<1>4. t \in Trigger
  <2> HIDE DEF log
  <2>. QED BY <1>1 DEF Trigger
<1> HIDE DEF t, log, row
<1>5. /\ [t EXCEPT !.log = <<>>, !.disabled = TRUE] \in Trigger
      /\ [t EXCEPT !.log = Append(log, row)] \in Trigger
  BY <1>3, <1>4, EmptyRow DEF Trigger
<1>. QED BY <1>2, <1>4, <1>5

LEMMA ReplayTypeStep == ReplayTypeInv /\ [Next]_vars => ReplayTypeInv'
<1> USE ReplayAssumption
<1> SUFFICES ASSUME ReplayTypeInv, [Next]_vars PROVE ReplayTypeInv'
  OBVIOUS
<1>0. /\ dep \in Deployments /\ dep \in Deployment /\ intx \in BOOLEAN
      /\ tr \in Trigger /\ db \in Database /\ client \in Told
      /\ sent \in 0 .. MaxQueries /\ errors \in 0 .. dep.maxerrors
      /\ MaxQueries \in Nat /\ dep.maxerrors \in Nat /\ dep.maxretries \in Nat
      /\ dep.conditions \subseteq Errors /\ dep.errors \subseteq Errors
  BY DEF ReplayTypeInv, TypeOK, Trigger, Database, Told, Deployment
<1>1. ASSUME Replaying
      PROVE  /\ run \in ReplayRun /\ run.retry <= errors
             /\ run.cause \in dep.conditions /\ run.at \in 0 .. Len(tr.log) + 1
             /\ run.retry \in 0 .. (IF dep.maxretries = 0 THEN dep.maxerrors
                                                         ELSE dep.maxretries)
  BY <1>1 DEF ReplayTypeInv, TypeOK, Idle, Replaying
<1>2. ASSUME dep' = dep, intx' \in BOOLEAN, tr' \in Trigger, db' \in Database,
             client' \in Told, sent' \in 0 .. MaxQueries,
             errors' \in 0 .. dep.maxerrors,
             \/ run' = Idle
             \/ /\ run' \in ReplayRun /\ run'.retry <= errors'
                /\ run'.cause \in dep.conditions /\ run'.at \in 0 .. Len(tr'.log) + 1
                /\ run'.retry \in 0 .. (IF dep.maxretries = 0 THEN dep.maxerrors
                                                             ELSE dep.maxretries)
      PROVE  ReplayTypeInv'
  <2>1. Replaying' => run' # Idle
    BY DEF Replaying, Idle
  <2>2. run' \in ReplayRun =>
          /\ run'.query \in Query /\ run'.rows \in Seq(Query)
          /\ run'.error \in Errors \cup {"none", "error"}
    BY DEF ReplayRun
  <2>. QED
    BY <1>0, <1>2, <2>1, <2>2
    DEF ReplayTypeInv, TypeOK, Trigger, Database, Told
<1>3. ASSUME ~Replaying, run' = run PROVE run' = Idle
  BY <1>3 DEF ReplayTypeInv, ReplayRun, Replaying
<1>4. \A done, told \in Seq(Query) :
          /\ [db EXCEPT !.work = <<>>, !.done = done] \in Database
          /\ [work |-> <<>>, done |-> told] \in Told
          /\ [db EXCEPT !.work = <<>>] \in Database
  BY <1>0, EmptyRow DEF Database, Told
<1>5. NewTransaction \in Trigger /\ [tr EXCEPT !.log = <<>>] \in Trigger
  BY <1>0, EmptyRow DEF NewTransaction, Trigger
<1>6. CASE Begin
  BY <1>0, <1>2, <1>3, <1>6 DEF Begin
<1>7. CASE Commit \/ Rollback
  <2>1. /\ db.work \in Seq(Query) /\ db.done \in Seq(Query)
        /\ client.work \in Seq(Query) /\ client.done \in Seq(Query)
    BY <1>0 DEF Database, Told
  <2>2. ASSUME NEW done \in Seq(Query), NEW told \in Seq(Query), End(done, told)
        PROVE  ReplayTypeInv'
    BY <1>0, <1>2, <1>3, <1>4, <1>5, <2>2 DEF End
  <2>3. db.done \o db.work \in Seq(Query) /\ client.done \o client.work \in Seq(Query)
    BY <2>1
  <2>. QED BY <1>7, <2>1, <2>2, <2>3 DEF Commit, Rollback
<1>8. ASSUME NEW kind \in Kinds, Send(Sent(kind))
      PROVE  Sent(kind) \in Query /\ sent' \in 0 .. MaxQueries
  BY <1>0, <1>8 DEF Send, Sent, Query
<1>9. ASSUME NEW kind \in Kinds, Execute(kind) PROVE ReplayTypeInv'
  <2> DEFINE q == Sent(kind)
  <2>1. q \in Query /\ sent' \in 0 .. MaxQueries
    BY <1>8, <1>9 DEF Execute
  <2> HIDE DEF q
  <2>2. /\ Ran(q) \in Database /\ LogQuery(q, RowsOf(q)) \in Trigger
        /\ ToldDone(q, RowsOf(q)) \in Told
    BY <1>0, <2>1, RanType, RowsType, LogQueryType, ToldType
  <2>3. /\ dep' = dep /\ intx' = intx /\ run' = run /\ errors' = errors /\ ~Replaying
        /\ db' = Ran(q) /\ tr' = LogQuery(q, RowsOf(q))
        /\ client' = client \/ client' = ToldDone(q, RowsOf(q))
    BY <1>9 DEF Execute, Send, q
  <2>. QED BY <1>0, <1>2, <1>3, <2>1, <2>2, <2>3
<1>10. ASSUME NEW kind \in Kinds, ExecuteFails(kind) PROVE ReplayTypeInv'
  <2> DEFINE q == Sent(kind)
  <2>1. PICK error \in MayMeet(q) :
          /\ Send(q)
          /\ errors' = errors + 1
          /\ db' = GaveUp(error)
          /\ tr' = LogQuery(q, <<>>)
          /\ IF StartsReplay(error)
             THEN /\ run' = [on |-> TRUE, query |-> q, cause |-> error,
                             at |-> First(tr'.log, error), retry |-> 0,
                             error |-> "none", rows |-> <<>>]
                  /\ UNCHANGED client
             ELSE /\ client' = ToldError(error)
                  /\ UNCHANGED run
    BY <1>10 DEF ExecuteFails
  <2>2. q \in Query /\ sent' \in 0 .. MaxQueries
    BY <1>8, <2>1
  <2>3. error \in Errors /\ errors' \in 0 .. dep.maxerrors
    BY <1>0, <2>1 DEF MayMeet
  <2>4. ~Replaying /\ dep' = dep /\ intx' = intx
    BY <2>1 DEF Send
  <2> HIDE DEF q
  <2>5. db' \in Database /\ tr' \in Trigger /\ ToldError(error) \in Told
    BY <1>0, <2>1, <2>2, EmptyRow, GaveUpType, LogQueryType, ToldType
  <2>6. CASE StartsReplay(error)
    <3>1. First(tr'.log, error) \in Nat /\ First(tr'.log, error) \in 0 .. Len(tr'.log) + 1
      BY <2>5 DEF First, Trigger
    <3>2. error \in dep.conditions
      BY <2>6 DEF StartsReplay, Condition
    <3>3. run' = [on |-> TRUE, query |-> q, cause |-> error,
                  at |-> First(tr'.log, error), retry |-> 0,
                  error |-> "none", rows |-> <<>>]
      BY <2>1, <2>6
    <3>4. /\ run' \in ReplayRun /\ run'.retry = 0 /\ run'.cause = error
          /\ run'.at = First(tr'.log, error)
      BY <2>2, <2>3, <3>1, <3>3, EmptyRow DEF ReplayRun
    <3>. QED BY <1>0, <1>2, <2>1, <2>2, <2>3, <2>4, <2>5, <2>6, <3>1, <3>2, <3>4
  <2>7. CASE ~StartsReplay(error)
    BY <1>0, <1>2, <1>3, <2>1, <2>2, <2>3, <2>4, <2>5, <2>7
  <2>. QED BY <2>6, <2>7
<1>11. ASSUME Replaying, InLog
       PROVE  /\ tr.log[run.at] \in Query /\ run.at \in 1 .. Len(tr.log)
              /\ Again(run) \in Nat /\ Again(run) \in 0 .. Len(tr.log) + 1
              /\ run.at + 1 \in Nat /\ run.at + 1 \in 0 .. Len(tr.log) + 1
  BY <1>0, <1>1, <1>11 DEF InLog, Again, Trigger, ReplayRun
<1>12. ASSUME NEW at \in Nat, NEW error \in Errors \cup {"none", "error"}, Replaying
       PROVE  /\ \A rows \in Seq(Query) :
                   run' = [run EXCEPT !.at = at, !.error = error, !.rows = rows]
                   => /\ run' \in ReplayRun /\ run'.at = at
                      /\ run'.retry = run.retry /\ run'.cause = run.cause
              /\ \A retry \in Nat :
                   run' = [run EXCEPT !.retry = retry, !.at = at, !.error = error]
                   => /\ run' \in ReplayRun /\ run'.at = at
                      /\ run'.retry = retry /\ run'.cause = run.cause
  BY <1>1, <1>12 DEF ReplayRun
<1>13. CASE ReplayRuns
  <2> DEFINE q == tr.log[run.at]
             error == IF Fails(q) THEN "error" ELSE "none"
             at == IF Condition(error) THEN Again(run) ELSE run.at + 1
             rows == RowsOf(q)
  <2>1. Replaying /\ InLog
    BY <1>13 DEF ReplayRuns
  <2>2. q \in Query /\ at \in Nat /\ at \in 0 .. Len(tr.log) + 1
    BY <1>11, <2>1
  <2>3. /\ error \in Errors \cup {"none", "error"} /\ rows \in Seq(Query)
        /\ Ran(q) \in Database
    BY <1>0, <2>2, RowsType, RanType
  <2>4. /\ db' = Ran(q) /\ run' = [run EXCEPT !.at = at, !.error = error, !.rows = rows]
        /\ dep' = dep /\ intx' = intx /\ tr' = tr /\ client' = client /\ sent' = sent
        /\ errors' = errors
    <3>1. run' = [run EXCEPT !.at = IF Condition(error) THEN Again(run) ELSE @ + 1,
                             !.error = error, !.rows = rows]
      BY <1>13 DEF ReplayRuns
    <3>2. run \in ReplayRun
      BY <1>1, <2>1
    <3>3. run' = [run EXCEPT !.at = at, !.error = error, !.rows = rows]
      BY <3>1, <3>2 DEF ReplayRun
    <3>. QED BY <1>13, <3>3 DEF ReplayRuns
  <2> HIDE DEF q, error, at, rows
  <2>5. run' \in ReplayRun /\ run'.at = at /\ run'.retry = run.retry
        /\ run'.cause = run.cause
    BY <1>12, <2>1, <2>2, <2>3, <2>4
  <2>. QED BY <1>0, <1>1, <1>2, <2>1, <2>2, <2>3, <2>4, <2>5
<1>14. CASE ReplayRetries
  <2> DEFINE q == tr.log[run.at]
  <2>1. PICK error \in MayMeet(q) :
          /\ errors' = errors + 1
          /\ db' = GaveUp(error)
          /\ IF Condition(error)
             THEN /\ ~TooOften(run.retry + 1)
                  /\ run' = [run EXCEPT !.retry = @ + 1, !.at = Again(run),
                                        !.error = error]
             ELSE run' = [run EXCEPT !.at = @ + 1, !.error = error, !.rows = <<>>]
    BY <1>14 DEF ReplayRetries
  <2>2. /\ Replaying /\ InLog /\ dep' = dep /\ intx' = intx /\ tr' = tr
        /\ client' = client /\ sent' = sent
    BY <1>14 DEF ReplayRetries
  <2>3. error \in Errors /\ errors' \in 0 .. dep.maxerrors /\ errors < dep.maxerrors
    BY <1>0, <2>1 DEF MayMeet
  <2>4. db' \in Database
    BY <1>0, <2>1, GaveUpType
  <2>5. run \in ReplayRun /\ run.retry \in Nat /\ run.at \in Nat
    BY <1>1, <2>2 DEF ReplayRun
  <2>6. CASE Condition(error)
    <3>1. run' = [run EXCEPT !.retry = run.retry + 1, !.at = Again(run), !.error = error]
      BY <2>1, <2>5, <2>6 DEF ReplayRun
    <3>2. Again(run) \in Nat /\ Again(run) \in 0 .. Len(tr.log) + 1
      BY <1>11, <2>2
    <3>6. run.retry + 1 \in Nat /\ error \in Errors \cup {"none", "error"}
      BY <2>3, <2>5
    <3>3. run' \in ReplayRun /\ run'.at = Again(run) /\ run'.retry = run.retry + 1
          /\ run'.cause = run.cause
      BY <1>12, <2>2, <3>1, <3>2, <3>6
    <3>4. run.retry + 1 <= errors' /\ run.retry + 1 \in Nat
      BY <1>0, <1>1, <2>1, <2>2, <2>5
    <3>5. run.retry + 1 \in 0 .. (IF dep.maxretries = 0 THEN dep.maxerrors
                                                       ELSE dep.maxretries)
      BY <1>0, <2>1, <2>3, <2>6, <3>4 DEF TooOften
    <3>. QED BY <1>0, <1>1, <1>2, <2>2, <2>3, <2>4, <3>2, <3>3, <3>4, <3>5
  <2>7. CASE ~Condition(error)
    <3>1. run' = [run EXCEPT !.at = run.at + 1, !.error = error, !.rows = <<>>]
      BY <2>1, <2>5, <2>7 DEF ReplayRun
    <3>2. run.at + 1 \in Nat /\ run.at + 1 \in 0 .. Len(tr.log) + 1
      BY <1>11, <2>2
    <3>3. run' \in ReplayRun /\ run'.at = run.at + 1 /\ run'.retry = run.retry
          /\ run'.cause = run.cause
      BY <1>12, <2>2, <2>3, <2>5, <3>1, <3>2, EmptyRow
    <3>4. run.retry <= errors'
      BY <1>0, <1>1, <2>1, <2>2, <2>5
    <3>. QED BY <1>0, <1>1, <1>2, <2>2, <2>3, <2>4, <3>2, <3>3, <3>4
  <2>. QED BY <2>6, <2>7
<1>15. CASE ReplayFails
  <2>1. PICK error \in MayMeet(tr.log[run.at]) :
            errors' = errors + 1 /\ client' = ToldError(error)
    BY <1>15 DEF ReplayFails
  <2>2. errors' \in 0 .. dep.maxerrors
    BY <1>0, <2>1 DEF MayMeet
  <2>3. client' \in Told
    BY <1>0, <2>1, EmptyRow DEF ToldError, Told
  <2>. QED BY <1>0, <1>2, <1>4, <1>5, <1>15, <2>2, <2>3, EmptyRow DEF ReplayFails
<1>16. CASE ReplayEnds
  <2>1. run \in ReplayRun /\ run.query \in Query /\ run.rows \in Seq(Query)
    BY <1>1, <1>16 DEF ReplayEnds, ReplayRun
  <2>2. client' \in Told
    BY <1>0, <1>16, <2>1, ToldType DEF ReplayEnds
  <2>. QED BY <1>0, <1>2, <1>16, <2>2 DEF ReplayEnds
<1>17. CASE UNCHANGED vars
  BY <1>17 DEF vars, ReplayTypeInv, TypeOK, Replaying, Idle
<1>. QED
  BY <1>6, <1>7, <1>9, <1>10, <1>13, <1>14, <1>15, <1>16, <1>17 DEF Next, Replay

-----------------------------------------------------------------------------
(* Generated keys. *)

Bounded(rows, bound) == \A i \in DOMAIN rows : rows[i].key < bound

\* A key in use has been generated.
KeyBound ==
    /\ db.nextkey > 0
    /\ Bounded(db.work, db.nextkey) /\ Bounded(db.done, db.nextkey)
    /\ Bounded(tr.log, db.nextkey)

LEMMA BoundedConcat ==
    ASSUME NEW s \in Seq(Query), NEW t \in Seq(Query), NEW m \in Nat, NEW n \in Nat,
           m <= n, Bounded(s, m), Bounded(t, n)
    PROVE  Bounded(s, n) /\ Bounded(s \o t, n)
<1>1. ASSUME NEW i \in DOMAIN s PROVE s[i].key < n
  <2>1. s[i] \in Query /\ s[i].key < m
    BY <1>1 DEF Bounded
  <2>2. s[i].key \in Nat
    BY <2>1 DEF Query
  <2> HIDE DEF Query
  <2>. QED BY <2>1, <2>2
<1>2. ASSUME NEW i \in DOMAIN (s \o t) PROVE (s \o t)[i].key < n
  <2>1. CASE i <= Len(s)
    <3>1. i \in DOMAIN s /\ (s \o t)[i] = s[i]
      BY <1>2, <2>1
    <3>. QED BY <1>1, <3>1
  <2>2. CASE i > Len(s)
    <3>1. i - Len(s) \in DOMAIN t /\ (s \o t)[i] = t[i - Len(s)]
      BY <1>2, <2>2
    <3>. QED BY <3>1 DEF Bounded
  <2>. QED BY <1>2, <2>1, <2>2
<1>. QED BY <1>1, <1>2 DEF Bounded

LEMMA BoundedRow ==
    ASSUME NEW s \in Seq(Query), NEW q \in Query, NEW m \in Nat, NEW n \in Nat,
           m <= n, Bounded(s, m), q.key < n
    PROVE  Bounded(<<>>, n) /\ Bounded(<<q>>, n) /\ Bounded(Append(s, q), n)
<1>1. Bounded(<<>>, n) /\ Bounded(<<q>>, n)
  BY DEF Bounded
<1>2. <<q>> \in Seq(Query) /\ s \o <<q>> = Append(s, q)
  BY OneRow
<1>3. Bounded(s \o <<q>>, n)
  BY <1>1, <1>2, BoundedConcat
<1>. QED BY <1>1, <1>2, <1>3

LEMMA RanBounded ==
    ASSUME db \in Database, intx \in BOOLEAN, KeyBound,
           NEW q \in Query, q.key < db.nextkey
    PROVE  /\ Ran(q).nextkey \in Nat /\ Ran(q).nextkey >= db.nextkey
           /\ Bounded(RowsOf(q), Ran(q).nextkey)
           /\ Bounded(Ran(q).work, Ran(q).nextkey)
           /\ Bounded(Ran(q).done, Ran(q).nextkey)
<1> DEFINE rows == RowsOf(q)
           next == Ran(q).nextkey
<1>1. /\ db.work \in Seq(Query) /\ db.done \in Seq(Query) /\ db.nextkey \in Nat
      /\ rows \in Seq(Query)
  BY RowsType DEF Database
<1>2. next = db.nextkey + (IF Generates(q) THEN 1 ELSE 0)
  BY DEF Ran
<1>3. next \in Nat /\ next >= db.nextkey
  BY <1>1, <1>2
<1>4. Bounded(rows, next)
  <2> DEFINE r == [q EXCEPT !.key = db.nextkey]
  <2>1. rows = <<>> \/ rows = <<q>> \/ (Generates(q) /\ rows = <<r>>)
    BY DEF RowsOf
  <2>2. r \in Query /\ r.key = db.nextkey
    BY <1>1 DEF Query
  <2>3. q.key < next /\ (Generates(q) => r.key < next)
    BY <1>1, <1>2, <2>2 DEF Query
  <2> HIDE DEF next, rows, r
  <2>. QED BY <1>1, <1>3, <2>1, <2>2, <2>3, EmptyRow DEF Bounded
<1>5. /\ Ran(q).work = (IF intx THEN db.work \o rows ELSE db.work)
      /\ Ran(q).done = (IF intx THEN db.done ELSE db.done \o rows)
  BY DEF Ran
<1> HIDE DEF rows, next
<1>6. /\ Bounded(db.work, next) /\ Bounded(db.work \o rows, next)
      /\ Bounded(db.done, next) /\ Bounded(db.done \o rows, next)
  BY <1>1, <1>3, <1>4, BoundedConcat DEF KeyBound
<1>. QED BY <1>3, <1>4, <1>5, <1>6 DEF rows, next

\* What logQuery makes of the log.
LEMMA LogQueryLog ==
    ASSUME tr \in Trigger, NEW q, NEW rows
    PROVE  \E log \in {tr.log, <<>>} :
              \/ LogQuery(q, rows).log = log
              \/ rows = <<>> /\ LogQuery(q, rows).log = Append(log, q)
              \/ rows # <<>> /\ LogQuery(q, rows).log = Append(log, rows[1])
BY DEF LogQuery, Trigger
LEMMA LogQueryBounded ==
    ASSUME tr \in Trigger, NEW q \in Query, NEW rows \in Seq(Query),
           NEW m \in Nat, NEW n \in Nat, m <= n, Bounded(tr.log, m), q.key < n,
           Bounded(rows, n), rows = <<>> \/ \E r \in Query : rows = <<r>>
    PROVE  Bounded(LogQuery(q, rows).log, n)
<1>1. PICK log \in {tr.log, <<>>} :
              \/ LogQuery(q, rows).log = log
              \/ rows = <<>> /\ LogQuery(q, rows).log = Append(log, q)
              \/ rows # <<>> /\ LogQuery(q, rows).log = Append(log, rows[1])
  BY LogQueryLog
<1>2. log \in Seq(Query) /\ Bounded(log, m)
  <2>1. tr.log \in Seq(Query) /\ Bounded(<<>>, m)
    BY DEF Trigger, Bounded
  <2>. QED BY <2>1, EmptyRow
<1>3. rows # <<>> => rows[1] \in Query /\ rows[1].key < n
  BY DEF Bounded
<1>4. Bounded(log, n)
  <2>1. <<>> \in Seq(Query) /\ Bounded(<<>>, n) /\ log \o <<>> = log
    BY <1>2, EmptyRow DEF Bounded
  <2>. QED BY <1>2, <2>1, BoundedConcat
<1>5. Bounded(Append(log, q), n) /\ (rows # <<>> => Bounded(Append(log, rows[1]), n))
  BY <1>2, <1>3, BoundedRow
<1>. QED BY <1>1, <1>4, <1>5

LEMMA KeyStep ==
    ASSUME ReplayTypeInv, KeyBound, Next
    PROVE  KeyBound'
<1>0. /\ intx \in BOOLEAN /\ tr \in Trigger /\ db \in Database
      /\ db.work \in Seq(Query) /\ db.done \in Seq(Query) /\ db.nextkey \in Nat
      /\ tr.log \in Seq(Query)
  BY DEF ReplayTypeInv, TypeOK, Trigger, Database
<1>1. /\ db.nextkey > 0 /\ Bounded(db.work, db.nextkey) /\ Bounded(db.done, db.nextkey)
      /\ Bounded(tr.log, db.nextkey) /\ Bounded(<<>>, db.nextkey)
  BY DEF KeyBound, Bounded
<1>2. CASE Begin
  BY <1>1, <1>2 DEF Begin, KeyBound
<1>3. CASE Commit \/ Rollback
  <2>1. Bounded(db.done \o db.work, db.nextkey)
    BY <1>0, <1>1, BoundedConcat
  <2>2. ASSUME NEW done, NEW told, End(done, told), Bounded(done, db.nextkey)
        PROVE  KeyBound'
    <3>1. /\ db'.work = <<>> /\ db'.done = done /\ db'.nextkey = db.nextkey
          /\ tr'.log = <<>>
      BY <1>0, <2>2 DEF End, NewTransaction, Database
    <3>. QED BY <1>1, <2>2, <3>1 DEF KeyBound
  <2>. QED BY <1>1, <1>3, <2>1, <2>2 DEF Commit, Rollback
<1>4. ASSUME NEW kind \in Kinds, Send(Sent(kind))
      PROVE  Sent(kind) \in Query /\ Sent(kind).key < db.nextkey
  BY <1>1, <1>4, ReplayAssumption DEF Send, Sent, Query, ReplayTypeInv, TypeOK
<1>5. ASSUME NEW error
      PROVE  /\ GaveUp(error).nextkey = db.nextkey
             /\ Bounded(GaveUp(error).work, db.nextkey)
             /\ Bounded(GaveUp(error).done, db.nextkey)
  BY <1>0, <1>1 DEF GaveUp, Database
<1>6. ASSUME NEW kind \in Kinds, Execute(kind) PROVE KeyBound'
  <2> DEFINE q == Sent(kind)
  <2>1. db' = Ran(q) /\ tr' = LogQuery(q, RowsOf(q)) /\ Send(q)
    BY <1>6 DEF Execute
  <2>2. q \in Query /\ q.key < db.nextkey
    BY <1>4, <2>1
  <2> HIDE DEF q
  <2>3. /\ Ran(q).nextkey \in Nat /\ Ran(q).nextkey >= db.nextkey
        /\ Bounded(RowsOf(q), Ran(q).nextkey)
        /\ Bounded(Ran(q).work, Ran(q).nextkey)
        /\ Bounded(Ran(q).done, Ran(q).nextkey)
    BY <1>0, <2>2, RanBounded
  <2>4. RowsOf(q) \in Seq(Query) /\ (RowsOf(q) = <<>> \/ \E r \in Query : RowsOf(q) = <<r>>)
    BY <1>0, <2>2, RowsType
  <2>5. q.key < Ran(q).nextkey
    BY <1>0, <2>2, <2>3 DEF Query
  <2>6. Bounded(LogQuery(q, RowsOf(q)).log, Ran(q).nextkey)
    BY <1>0, <1>1, <2>2, <2>3, <2>4, <2>5, LogQueryBounded
  <2>. QED BY <1>0, <1>1, <2>1, <2>3, <2>6 DEF KeyBound
<1>7. ASSUME NEW kind \in Kinds, ExecuteFails(kind) PROVE KeyBound'
  <2> DEFINE q == Sent(kind)
  <2>1. PICK error \in MayMeet(q) :
            db' = GaveUp(error) /\ tr' = LogQuery(q, <<>>) /\ Send(q)
    BY <1>7 DEF ExecuteFails
  <2>2. q \in Query /\ q.key < db.nextkey
    BY <1>4, <2>1
  <2> HIDE DEF q
  <2>3. Bounded(LogQuery(q, <<>>).log, db.nextkey)
    <3> DEFINE rows == <<>>
               n == db.nextkey
    <3>1. rows = <<>> /\ rows \in Seq(Query) /\ Bounded(rows, n) /\ n \in Nat /\ n <= n
      BY <1>0, <1>1, EmptyRow
    <3>2. Bounded(tr.log, n) /\ q.key < n
      BY <1>1, <2>2
    <3> HIDE DEF rows, n
    <3>3. Bounded(LogQuery(q, rows).log, n)
      BY <1>0, <2>2, <3>1, <3>2, LogQueryBounded
    <3>. QED BY <3>3 DEF rows, n
  <2>. QED BY <1>1, <1>5, <2>1, <2>3 DEF KeyBound
<1>8. CASE ReplayRuns
  <2> DEFINE q == tr.log[run.at]
  <2>1. InLog /\ db' = Ran(q) /\ tr' = tr
    BY <1>8 DEF ReplayRuns
  <2>2. q \in Query /\ q.key < db.nextkey
    BY <1>0, <1>1, <2>1 DEF InLog, Bounded
  <2> HIDE DEF q
  <2>3. /\ Ran(q).nextkey \in Nat /\ Ran(q).nextkey >= db.nextkey
        /\ Bounded(Ran(q).work, Ran(q).nextkey)
        /\ Bounded(Ran(q).done, Ran(q).nextkey)
    BY <1>0, <2>2, RanBounded
  <2>4. Bounded(tr.log, Ran(q).nextkey)
    <3>1. <<>> \in Seq(Query) /\ Bounded(<<>>, Ran(q).nextkey)
      BY EmptyRow DEF Bounded
    <3>. QED BY <1>0, <1>1, <2>3, <3>1, BoundedConcat
  <2>. QED BY <1>0, <1>1, <2>1, <2>3, <2>4 DEF KeyBound
<1>9. CASE ReplayRetries
  BY <1>1, <1>5, <1>9 DEF ReplayRetries, KeyBound
<1>10. CASE ReplayFails
  <2>1. /\ db'.work = <<>> /\ db'.done = db.done /\ db'.nextkey = db.nextkey
        /\ tr'.log = <<>>
    BY <1>0, <1>10 DEF ReplayFails, Database, Trigger
  <2>. QED BY <1>1, <2>1 DEF KeyBound
<1>11. CASE ReplayEnds
  BY <1>1, <1>11 DEF ReplayEnds, KeyBound
<1>. QED
  BY <1>2, <1>3, <1>6, <1>7, <1>8, <1>9, <1>10, <1>11 DEF Next, Replay
-----------------------------------------------------------------------------
(* What the client is told is what the database holds. *)

Same == client.work = db.work /\ client.done = db.done

\* What the client is told when the replay ends.
Answer(r) == IF r.error = "none" THEN ToldDone(r.query, r.rows)
                                 ELSE ToldError(r.error)
ToldAtEnd == Answer(run)
EndsAsTold == ToldAtEnd.work = db.work /\ ToldAtEnd.done = db.done

\* A query has one row, unless it selects or fails.
LEMMA RowsMade ==
    ASSUME NEW q \in Query
    PROVE  /\ Fails(q) \/ q.kind = "select" => RowsOf(q) = <<>>
           /\ ~Fails(q) /\ q.kind # "select" =>
                RowsOf(q) = <<IF Generates(q) THEN [q EXCEPT !.key = db.nextkey] ELSE q>>
           /\ ~Fails(q) /\ q.kind # "select" => RowsOf(q) # <<>>
BY DEF RowsOf

LEMMA RanAsTold ==
    ASSUME db \in Database, client \in Told, intx \in BOOLEAN, Same, NEW q \in Query
    PROVE  /\ Fails(q) => Ran(q).work = client.work /\ Ran(q).done = client.done
           /\ ~Fails(q) => /\ Ran(q).work = ToldDone(q, RowsOf(q)).work
                           /\ Ran(q).done = ToldDone(q, RowsOf(q)).done
<1> DEFINE rows == RowsOf(q)
           told == IF q.kind = "select" THEN <<>>
                   ELSE IF rows = <<>> THEN <<q>> ELSE rows
<1>1. /\ Ran(q).work = (IF intx THEN db.work \o rows ELSE db.work)
      /\ Ran(q).done = (IF intx THEN db.done ELSE db.done \o rows)
  BY DEF Ran
<1>2. /\ ToldDone(q, rows).work = (IF intx THEN client.work \o told ELSE client.work)
      /\ ToldDone(q, rows).done = (IF intx THEN client.done ELSE client.done \o told)
  BY DEF ToldDone, Told
<1>3. /\ ~Fails(q) => told = rows
      /\ Fails(q) => rows = <<>>
  BY RowsMade
<1>4. db.work \in Seq(Query) /\ db.done \in Seq(Query)
  BY DEF Database
<1> HIDE DEF rows, told
<1>5. rows = <<>> => db.work \o rows = db.work /\ db.done \o rows = db.done
  BY <1>4
<1>. QED BY <1>1, <1>2, <1>3, <1>5 DEF Same, rows

LEMMA GaveUpAsTold ==
    ASSUME db \in Database, client \in Told, Same, NEW error
    PROVE  /\ GaveUp(error).work = ToldError(error).work
           /\ GaveUp(error).done = ToldError(error).done
           /\ error # "deadlock" => GaveUp(error) = db
BY DEF GaveUp, ToldError, Database, Told, Same

\* The end of a transaction and of a replay.
LEMMA EndAsTold ==
    ASSUME ReplayTypeInv, ~Replaying, Same, Begin \/ Commit \/ Rollback
    PROVE  Same' /\ run' = run /\ ~Replaying'
<1>1. db \in Database /\ client \in Told
  BY DEF ReplayTypeInv, TypeOK, Database, Told
<1>2. CASE Begin
  BY <1>2 DEF Begin, Same, Replaying
<1>3. ASSUME NEW done, End(done, done) PROVE Same' /\ run' = run /\ ~Replaying'
  BY <1>1, <1>3 DEF End, Same, Replaying, Database
<1>. QED BY <1>2, <1>3 DEF Commit, Rollback, Same

LEMMA ExecuteAsTold ==
    ASSUME ReplayTypeInv, ~Replaying, Same, NEW kind \in Kinds, Execute(kind)
    PROVE  Same' /\ run' = run /\ ~Replaying'
<1> DEFINE q == Sent(kind)
<1>1. /\ db' = Ran(q) /\ run' = run
      /\ client' = (IF Fails(q) THEN client ELSE ToldDone(q, RowsOf(q)))
      /\ Send(q)
  BY DEF Execute
<1>2. q \in Query
  BY <1>1, ReplayAssumption DEF Send, Sent, Query, ReplayTypeInv, TypeOK
<1>3. db \in Database /\ client \in Told /\ intx \in BOOLEAN
  BY DEF ReplayTypeInv, TypeOK, Database, Told
<1> HIDE DEF q
<1>. QED BY <1>1, <1>2, <1>3, RanAsTold DEF Same, Replaying

LEMMA ReplayEndsAsTold ==
    ASSUME ReplayEnds, EndsAsTold
    PROVE  Same' /\ ~Replaying'
<1>1. client' = ToldAtEnd /\ db' = db /\ run' = Idle
  BY DEF ReplayEnds, ToldAtEnd, Answer
<1>. QED BY <1>1 DEF EndsAsTold, Same, Replaying, Idle

-----------------------------------------------------------------------------
(* Replaying the last query. *)

QueryInv ==
    /\ ~Replaying => Same
    /\ Replaying => LET n == Len(tr.log)
                    IN /\ n > 0 /\ tr.log[n] = run.query
                       /\ run.at \in {n, n + 1}
                       /\ IF run.at = n THEN Same ELSE EndsAsTold

\* A failed query that may be replayed is logged last, when single queries are
\* replayed.
LEMMA LoggedLast ==
    ASSUME tr \in Trigger, ReplaysQueries(dep), NEW q \in Query, q.kind \in dep.waits,
           ~tr.disabled
    PROVE  LET log == LogQuery(q, <<>>).log
           IN log \in Seq(Query) /\ Len(log) > 0 /\ log[Len(log)] = q
<1> DEFINE log == IF intx /\ tr.wasintx THEN tr.log ELSE <<>>
<1>1. LogQuery(q, <<>>).log = Append(log, q)
  <2>1. q.kind # "insertselect" /\ ~(q.kind = "select" /\ ~dep.includeselects)
    BY DEF ReplaysQueries
  <2>. QED BY <2>1 DEF LogQuery, Trigger
<1>2. log \in Seq(Query)
  BY EmptyRow DEF Trigger
<1> HIDE DEF log
<1>3. /\ Append(log, q) \in Seq(Query) /\ Len(Append(log, q)) = Len(log) + 1
      /\ Append(log, q)[Len(log) + 1] = q /\ Len(log) \in Nat
  BY <1>2, OneRow
<1>4. Len(Append(log, q)) > 0 /\ Append(log, q)[Len(Append(log, q))] = q
  BY <1>3
<1>. QED BY <1>1, <1>3, <1>4

LEMMA QueryStep ==
    ASSUME ReplayTypeInv, ReplaysQueries(dep), QueryInv, Next
    PROVE  QueryInv'
<1>0. /\ intx \in BOOLEAN /\ tr \in Trigger /\ db \in Database /\ client \in Told
      /\ dep.conditions \subseteq {"lockwait"} /\ dep.maxretries = 0
      /\ tr.log \in Seq(Query) /\ Len(tr.log) \in Nat
  BY DEF ReplayTypeInv, TypeOK, Trigger, Database, Told, ReplaysQueries
<1>1. ASSUME Same', ~Replaying' PROVE QueryInv'
  BY <1>1 DEF QueryInv
<1>2. CASE Begin \/ Commit \/ Rollback
  <2>1. ~Replaying
    BY <1>2 DEF Begin, Commit, Rollback, End
  <2>. QED BY <1>1, <1>2, <2>1, EndAsTold DEF QueryInv
<1>3. ASSUME NEW kind \in Kinds, Execute(kind) PROVE QueryInv'
  <2>1. ~Replaying
    BY <1>3 DEF Execute, Send
  <2>. QED BY <1>1, <1>3, <2>1, ExecuteAsTold DEF QueryInv
<1>4. ASSUME NEW kind \in Kinds, ExecuteFails(kind) PROVE QueryInv'
  <2> DEFINE q == Sent(kind)
  <2>1. PICK error \in MayMeet(q) :
            /\ Send(q)
            /\ db' = GaveUp(error)
            /\ tr' = LogQuery(q, <<>>)
            /\ IF StartsReplay(error)
               THEN /\ run' = [on |-> TRUE, query |-> q, cause |-> error,
                               at |-> First(tr'.log, error), retry |-> 0,
                               error |-> "none", rows |-> <<>>]
                    /\ UNCHANGED client
               ELSE /\ client' = ToldError(error)
                    /\ UNCHANGED run
    BY <1>4 DEF ExecuteFails
  <2>2. q \in Query /\ q.kind \in dep.waits
    BY <2>1, ReplayAssumption DEF Send, Sent, Query, ReplayTypeInv, TypeOK, MayMeet
  <2>3. ~Replaying /\ Same
    BY <2>1 DEF Send, QueryInv
  <2> HIDE DEF q
  <2>4. CASE StartsReplay(error)
    <3>1. error = "lockwait" /\ ~tr.disabled
      BY <1>0, <2>4 DEF StartsReplay, Condition
    <3>2. Same'
      BY <1>0, <2>1, <2>3, <2>4, <3>1, GaveUpAsTold DEF Same
    <3>3. Len(tr'.log) > 0 /\ tr'.log[Len(tr'.log)] = q
      BY <1>0, <2>1, <2>2, <3>1, LoggedLast
    <3>4. run'.query = q /\ run'.at = Len(tr'.log) /\ run'.on
      BY <2>1, <2>4, <3>1 DEF First
    <3>. QED BY <3>2, <3>3, <3>4 DEF QueryInv, Replaying
  <2>5. CASE ~StartsReplay(error)
    <3>1. Same' /\ ~Replaying'
      BY <1>0, <2>1, <2>3, <2>5, GaveUpAsTold DEF Same, Replaying
    <3>. QED BY <1>1, <3>1
  <2>. QED BY <2>4, <2>5
<1>5. ASSUME Replaying, InLog
      PROVE  /\ run \in ReplayRun /\ run.cause = "lockwait"
             /\ tr.log[run.at] = run.query /\ run.query \in Query
             /\ run.at = Len(tr.log) /\ Len(tr.log) > 0 /\ Same
  <2>1. run \in ReplayRun /\ run.cause = "lockwait"
    BY <1>0, <1>5 DEF ReplayTypeInv, TypeOK, Replaying, Idle
  <2>2. run.at = Len(tr.log) /\ Len(tr.log) > 0
    BY <1>0, <1>5 DEF QueryInv, InLog
  <2>. QED BY <1>5, <2>1, <2>2 DEF QueryInv, ReplayRun
<1>6. ASSUME Replaying, InLog, tr' = tr, run'.query = run.query, run'.on,
             \/ run'.at = run.at /\ Same'
             \/ run'.at = run.at + 1 /\ EndsAsTold'
      PROVE  QueryInv'
  <2>1. run.at = Len(tr.log) /\ Len(tr.log) > 0 /\ tr.log[run.at] = run.query
    BY <1>5, <1>6
  <2>. QED BY <1>0, <1>6, <2>1 DEF QueryInv, Replaying
<1>7. CASE ReplayRuns
  <2> DEFINE q == tr.log[run.at]
             error == IF Fails(q) THEN "error" ELSE "none"
  <2>1. Replaying /\ InLog
    BY <1>7 DEF ReplayRuns
  <2>2. q = run.query /\ q \in Query /\ Same /\ run \in ReplayRun
    BY <1>5, <2>1
  <2>3. ~Condition(error)
    BY <1>0 DEF Condition
  <2>4. /\ run' = [run EXCEPT !.at = IF Condition(error) THEN Again(run) ELSE @ + 1,
                              !.error = error, !.rows = RowsOf(q)]
        /\ db' = Ran(q) /\ tr' = tr /\ client' = client /\ intx' = intx
    BY <1>7 DEF ReplayRuns
  <2>5. /\ run'.at = run.at + 1 /\ run'.query = run.query /\ run'.on
        /\ run'.error = error /\ run'.rows = RowsOf(q)
    BY <2>2, <2>3, <2>4 DEF ReplayRun
  <2>6. EndsAsTold'
    <3>1. ToldAtEnd' = IF Fails(q) THEN ToldError("error") ELSE ToldDone(q, RowsOf(q))
      <4> HIDE DEF q
      <4>. QED BY <2>2, <2>4, <2>5 DEF ToldAtEnd, Answer, ToldDone, ToldError
    <3>2. ToldError("error") = client
      BY DEF ToldError
    <3> HIDE DEF q
    <3>. QED BY <1>0, <2>2, <2>4, <3>1, <3>2, RanAsTold DEF EndsAsTold
  <2>. QED BY <1>6, <2>1, <2>4, <2>5, <2>6
<1>8. CASE ReplayRetries
  <2>1. PICK error \in MayMeet(tr.log[run.at]) :
            /\ db' = GaveUp(error)
            /\ IF Condition(error)
               THEN run' = [run EXCEPT !.retry = @ + 1, !.at = Again(run),
                                       !.error = error]
               ELSE run' = [run EXCEPT !.at = @ + 1, !.error = error, !.rows = <<>>]
    BY <1>8 DEF ReplayRetries
  <2>2. Replaying /\ InLog /\ tr' = tr /\ client' = client /\ intx' = intx
    BY <1>8 DEF ReplayRetries
  <2>3. run \in ReplayRun /\ run.cause = "lockwait" /\ Same
    BY <1>5, <2>2
  <2>4. CASE Condition(error)
    <3>1. error = "lockwait"
      BY <1>0, <2>4 DEF Condition
    <3>2. run'.at = run.at /\ run'.query = run.query /\ run'.on
      BY <2>1, <2>3, <2>4 DEF Again, ReplayRun
    <3>3. Same'
      BY <1>0, <2>1, <2>2, <2>3, <3>1, GaveUpAsTold DEF Same
    <3>. QED BY <1>6, <2>2, <3>2, <3>3
  <2>5. CASE ~Condition(error)
    <3>1. /\ run'.at = run.at + 1 /\ run'.query = run.query /\ run'.on
          /\ run'.error = error
      BY <2>1, <2>3, <2>5 DEF ReplayRun
    <3>2. error # "none"
      <4>1. dep.errors \subseteq Errors
        BY ReplayAssumption DEF ReplayTypeInv, TypeOK, Deployment
      <4>. QED BY <2>1, <4>1 DEF MayMeet, Errors
    <3>3. ToldAtEnd' = ToldError(error)
      BY <2>2, <3>1, <3>2 DEF ToldAtEnd, Answer, ToldError
    <3>4. EndsAsTold'
      BY <1>0, <2>1, <2>3, <3>3, GaveUpAsTold DEF EndsAsTold
    <3>. QED BY <1>6, <2>2, <3>1, <3>4
  <2>. QED BY <2>4, <2>5
<1>9. CASE ReplayFails
  BY <1>0, <1>9 DEF ReplayFails, TooOften
<1>10. CASE ReplayEnds
  <2>1. Replaying /\ ~InLog
    BY <1>10 DEF ReplayEnds
  <2>2. EndsAsTold
    BY <1>0, <2>1 DEF QueryInv, InLog
  <2>. QED BY <1>1, <1>10, <2>2, ReplayEndsAsTold
<1>. QED
  BY <1>2, <1>3, <1>4, <1>7, <1>8, <1>9, <1>10 DEF Next, Replay
-----------------------------------------------------------------------------
(* Replaying the transaction. *)

Kept(q) == q.kind \notin {"select", "bad"}

\* The log of the open transaction.
Logged == IF tr.wasintx THEN tr.log ELSE <<>>

\* w[i] is the transaction that the first i queries of log make: the ones of them
\* that made a row, in order.
Rebuilt(w, log) ==
    /\ w \in [0 .. Len(log) -> Seq(Query)]
    /\ w[0] = <<>>
    /\ \A i \in 1 .. Len(log) :
          w[i] = IF Kept(log[i]) THEN Append(w[i - 1], log[i]) ELSE w[i - 1]
    /\ \A i \in 0 .. Len(log) : \A j \in DOMAIN w[i] :
          \E k \in 1 .. i : w[i][j] = log[k]

\* An insert is logged with its key, and each key is logged once and not committed.
KeysApart(log, done) ==
    \A i \in DOMAIN log :
        /\ log[i].kind = "insert" => log[i].key # 0
        /\ log[i].key # 0 =>
              /\ \A k \in DOMAIN log : k # i => log[k].key # log[i].key
              /\ \A k \in DOMAIN done : done[k].key # log[i].key

\* The log can rebuild the open transaction ...
LogRebuilds ==
    /\ KeysApart(Logged, db.done)
    /\ \E w : Rebuilt(w, Logged) /\ db.work = w[Len(Logged)]

\* ... the replay has rebuilt it up to the query it looks at, and it is to be what the
\* client was told before the query that met the deadlock, ...
ReplaysLog ==
    /\ tr.wasintx /\ client.done = db.done
    /\ KeysApart(tr.log, db.done)
    /\ \E w : /\ Rebuilt(w, tr.log) /\ db.work = w[run.at - 1]
              /\ \/ /\ Len(tr.log) > 0 /\ tr.log[Len(tr.log)] = run.query
                    /\ client.work = w[Len(tr.log) - 1]
                 \/ run.query.kind = "select" /\ client.work = w[Len(tr.log)]

\* ... or the replay is of a query alone.
ReplaysAlone ==
    /\ tr.log = <<run.query>> \/ (tr.log = <<>> /\ run.query.kind = "select")
    /\ run.at = Len(tr.log) => Same

TransactionInv ==
    /\ dep.model = "implicit" => intx
    /\ ~intx => ~tr.wasintx /\ db.work = <<>>
    /\ ~Replaying =>
        /\ Same
        /\ intx /\ ~tr.disabled /\ "deadlock" \in dep.conditions => LogRebuilds
    /\ Replaying =>
        /\ ~tr.disabled /\ run.at \in 1 .. Len(tr.log) + 1
        /\ run.at = Len(tr.log) + 1 => EndsAsTold
        /\ IF intx THEN ReplaysLog ELSE ReplaysAlone

LEMMA RebuiltEmpty ==
    ASSUME NEW done
    PROVE  KeysApart(<<>>, done) /\ \E w : Rebuilt(w, <<>>) /\ w[0] = <<>>
<1> DEFINE w == [i \in 0 .. 0 |-> <<>>]
<1>1. Len(<<>>) = 0 /\ DOMAIN <<>> = {}
  OBVIOUS
<1>2. w \in [0 .. 0 -> Seq(Query)] /\ w[0] = <<>> /\ \A i \in 0 .. 0 : w[i] = <<>>
  BY EmptyRow
<1> HIDE DEF w
<1>3. Rebuilt(w, <<>>)
  BY <1>1, <1>2 DEF Rebuilt
<1>. QED BY <1>1, <1>2, <1>3 DEF KeysApart

LEMMA RebuiltAppend ==
    ASSUME NEW log \in Seq(Query), NEW q \in Query, NEW w, Rebuilt(w, log)
    PROVE  \E v : /\ Rebuilt(v, Append(log, q))
                  /\ \A i \in 0 .. Len(log) : v[i] = w[i]
                  /\ v[Len(log) + 1] = IF Kept(q) THEN Append(w[Len(log)], q)
                                                  ELSE w[Len(log)]
<1> DEFINE n == Len(log)
           last == IF Kept(q) THEN Append(w[n], q) ELSE w[n]
           v == [i \in 0 .. n + 1 |-> IF i <= n THEN w[i] ELSE last]
           l == Append(log, q)
<1>1. n \in Nat /\ Len(l) = n + 1 /\ l[n + 1] = q /\ \A i \in 1 .. n : l[i] = log[i]
  OBVIOUS
<1>2. /\ w \in [0 .. n -> Seq(Query)] /\ w[0] = <<>>
      /\ \A i \in 1 .. n :
            w[i] = IF Kept(log[i]) THEN Append(w[i - 1], log[i]) ELSE w[i - 1]
      /\ \A i \in 0 .. n : \A j \in DOMAIN w[i] : \E k \in 1 .. i : w[i][j] = log[k]
  BY DEF Rebuilt
<1> HIDE DEF n, l
<1>3. last \in Seq(Query)
  <2>1. w[n] \in Seq(Query)
    BY <1>1, <1>2
  <2>. QED BY <2>1
<1>4. \A j \in DOMAIN last : \E k \in 1 .. n + 1 : last[j] = l[k]
  <2> SUFFICES ASSUME NEW j \in DOMAIN last PROVE \E k \in 1 .. n + 1 : last[j] = l[k]
    OBVIOUS
  <2>1. w[n] \in Seq(Query) /\ n \in 0 .. n
    BY <1>1, <1>2
  <2>2. CASE j \in DOMAIN w[n]
    <3>1. last[j] = w[n][j]
      BY <2>1, <2>2
    <3>2. PICK k \in 1 .. n : w[n][j] = log[k]
      BY <1>2, <2>1, <2>2
    <3>3. k \in 1 .. n + 1 /\ l[k] = log[k]
      BY <1>1, <3>2
    <3>. QED BY <3>1, <3>2, <3>3
  <2>3. CASE j \notin DOMAIN w[n]
    <3>1. last[j] = q
      BY <2>1, <2>3
    <3>. QED BY <1>1, <3>1
  <2>. QED BY <2>2, <2>3
<1> HIDE DEF last
<1>5. /\ v \in [0 .. n + 1 -> Seq(Query)] /\ v[n + 1] = last
      /\ \A i \in 0 .. n : v[i] = w[i]
  BY <1>1, <1>2, <1>3
<1> HIDE DEF v
<1>6. \A i \in 1 .. n + 1 :
         v[i] = IF Kept(l[i]) THEN Append(v[i - 1], l[i]) ELSE v[i - 1]
  <2> SUFFICES ASSUME NEW i \in 1 .. n + 1
               PROVE  v[i] = IF Kept(l[i]) THEN Append(v[i - 1], l[i]) ELSE v[i - 1]
    OBVIOUS
  <2>1. i - 1 \in 0 .. n /\ v[i - 1] = w[i - 1]
    BY <1>1, <1>5
  <2>2. CASE i \in 1 .. n
    <3>1. v[i] = w[i] /\ l[i] = log[i]
      BY <1>1, <1>5, <2>2
    <3>. QED BY <1>2, <2>1, <2>2, <3>1
  <2>3. CASE i = n + 1
    <3>1. v[i] = last /\ l[i] = q /\ w[i - 1] = w[n]
      BY <1>1, <1>5, <2>3
    <3>. QED BY <2>1, <3>1 DEF last
  <2>. QED BY <1>1, <2>2, <2>3
<1>7. \A i \in 0 .. n + 1 : \A j \in DOMAIN v[i] : \E k \in 1 .. i : v[i][j] = l[k]
  <2> SUFFICES ASSUME NEW i \in 0 .. n + 1, NEW j \in DOMAIN v[i]
               PROVE  \E k \in 1 .. i : v[i][j] = l[k]
    OBVIOUS
  <2>1. CASE i \in 0 .. n
    <3>1. v[i] = w[i]
      BY <1>5, <2>1
    <3>2. PICK k \in 1 .. i : w[i][j] = log[k]
      BY <1>2, <2>1, <3>1
    <3>3. l[k] = log[k]
      BY <1>1, <2>1, <3>2
    <3>. QED BY <3>1, <3>2, <3>3
  <2>2. CASE i = n + 1
    BY <1>4, <1>5, <2>2
  <2>. QED BY <1>1, <2>1, <2>2
<1>8. Rebuilt(v, l)
  <2> DEFINE m == Len(l)
  <2>1. v[0] = <<>> /\ m = n + 1
    BY <1>1, <1>2, <1>5
  <2> HIDE DEF m
  <2>2. v \in [0 .. m -> Seq(Query)]
    BY <1>5, <2>1
  <2>3. \A i \in 1 .. m :
            v[i] = IF Kept(l[i]) THEN Append(v[i - 1], l[i]) ELSE v[i - 1]
    BY <1>6, <2>1
  <2>4. \A i \in 0 .. m : \A j \in DOMAIN v[i] : \E k \in 1 .. i : v[i][j] = l[k]
    BY <1>7, <2>1
  <2>. QED BY <2>1, <2>2, <2>3, <2>4 DEF Rebuilt, m
<1>. QED BY <1>5, <1>8 DEF n, l, last
LEMMA KeysApartAppend ==
    ASSUME NEW log \in Seq(Query), NEW row \in Query, NEW done \in Seq(Query),
           KeysApart(log, done),
           row.kind = "insert" => row.key # 0,
           row.key # 0 => /\ \A i \in DOMAIN log : log[i].key # row.key
                          /\ \A i \in DOMAIN done : done[i].key # row.key
    PROVE  KeysApart(Append(log, row), done)
<1> DEFINE l == Append(log, row)
           n == Len(log)
<1>1. n \in Nat /\ DOMAIN l = 1 .. n + 1 /\ DOMAIN log = 1 .. n /\ l[n + 1] = row
      /\ \A i \in 1 .. n : l[i] = log[i]
  OBVIOUS
<1> HIDE DEF l, n
<1>2. ASSUME NEW i \in 1 .. n + 1
      PROVE  /\ l[i].kind = "insert" => l[i].key # 0
             /\ l[i].key # 0 =>
                  /\ \A k \in 1 .. n + 1 : k # i => l[k].key # l[i].key
                  /\ \A k \in DOMAIN done : done[k].key # l[i].key
  <2>1. CASE i \in 1 .. n
    <3>1. l[i] = log[i] /\ (l[i].kind = "insert" => l[i].key # 0)
      BY <1>1, <2>1 DEF KeysApart
    <3>2. ASSUME l[i].key # 0
          PROVE  /\ \A k \in 1 .. n : k # i => l[k].key # l[i].key
                 /\ \A k \in DOMAIN done : done[k].key # l[i].key
      BY <1>1, <2>1, <3>1, <3>2 DEF KeysApart
    <3>3. ASSUME l[i].key # 0 PROVE l[n + 1].key # l[i].key
      <4>1. CASE row.key = 0
        BY <1>1, <3>3, <4>1
      <4>2. CASE row.key # 0
        BY <1>1, <2>1, <3>1, <4>2
      <4>. QED BY <4>1, <4>2
    <3>. QED BY <1>1, <3>1, <3>2, <3>3
  <2>2. CASE i = n + 1
    <3>1. l[i] = row /\ \A k \in 1 .. n + 1 : k # i => k \in 1 .. n /\ l[k] = log[k]
      BY <1>1, <2>2
    <3>. QED BY <1>1, <3>1
  <2>. QED BY <1>1, <2>1, <2>2
<1>. QED BY <1>1, <1>2 DEF KeysApart, l

\* A query of the log runs again as it ran before.
LEMMA RunsAgain ==
    ASSUME db \in Database, tr \in Trigger, intx = TRUE, KeysApart(tr.log, db.done),
           NEW w, Rebuilt(w, tr.log), NEW i \in 1 .. Len(tr.log), db.work = w[i - 1]
    PROVE  /\ Ran(tr.log[i]).work = w[i] /\ Ran(tr.log[i]).done = db.done
           /\ Fails(tr.log[i]) => tr.log[i].kind = "bad"
           /\ tr.log[i].kind = "bad" => Fails(tr.log[i])
           /\ RowsOf(tr.log[i]) = IF Kept(tr.log[i]) THEN <<tr.log[i]>> ELSE <<>>
<1> DEFINE q == tr.log[i]
           n == Len(tr.log)
<1>1. /\ q \in Query /\ n \in Nat /\ i - 1 \in 0 .. n /\ i \in DOMAIN tr.log
      /\ db.work \in Seq(Query) /\ db.done \in Seq(Query) /\ DOMAIN tr.log = 1 .. n
  BY DEF Trigger, Database
<1> HIDE DEF n
<1>2. /\ w[i] = IF Kept(q) THEN Append(w[i - 1], q) ELSE w[i - 1]
      /\ \A j \in DOMAIN w[i - 1] : \E k \in 1 .. i - 1 : w[i - 1][j] = tr.log[k]
  BY <1>1 DEF Rebuilt, n
<1>3. ~Generates(q)
  BY <1>1 DEF Generates, KeysApart
<1>4. ASSUME q.key # 0 PROVE \A r \in Range(db.work \o db.done) : r.key # q.key
  <2> SUFFICES ASSUME NEW r \in Range(db.work \o db.done) PROVE r.key # q.key
    OBVIOUS
  <2>1. PICK j \in DOMAIN (db.work \o db.done) : r = (db.work \o db.done)[j]
    BY DEF Range
  <2>2. CASE j \in DOMAIN db.work /\ r = db.work[j]
    <3>1. r = w[i - 1][j] /\ j \in DOMAIN w[i - 1]
      BY <2>2
    <3>2. PICK k \in 1 .. i - 1 : r = tr.log[k]
      BY <1>2, <3>1
    <3>3. k \in DOMAIN tr.log /\ k # i
      BY <1>1, <3>2
    <3>. QED BY <1>1, <1>4, <3>2, <3>3 DEF KeysApart
  <2>3. CASE j - Len(db.work) \in DOMAIN db.done /\ r = db.done[j - Len(db.work)]
    BY <1>1, <1>4, <2>3 DEF KeysApart
  <2>. QED BY <1>1, <2>1, <2>2, <2>3, Appended
<1>5. Fails(q) <=> q.kind = "bad"
  BY <1>4 DEF Fails
<1>6. RowsOf(q) = IF Kept(q) THEN <<q>> ELSE <<>>
  BY <1>3, <1>5 DEF RowsOf, Kept
<1>7. Ran(q).work = db.work \o RowsOf(q) /\ Ran(q).done = db.done
  BY DEF Ran
<1> HIDE DEF q
<1>8. db.work \o RowsOf(q) = w[i]
  <2>1. db.work \o <<>> = db.work /\ db.work \o <<q>> = Append(db.work, q)
    BY <1>1, OneRow
  <2>2. CASE Kept(q)
    BY <1>2, <1>6, <2>1, <2>2
  <2>3. CASE ~Kept(q)
    BY <1>2, <1>6, <2>1, <2>3
  <2>. QED BY <2>2, <2>3
<1>. QED BY <1>5, <1>6, <1>7, <1>8 DEF q

\* A query of a transaction that may be replayed is logged ...
LEMMA LoggedInTransaction ==
    ASSUME tr \in Trigger, intx = TRUE, ~tr.disabled, NEW q \in Query,
           NEW rows \in Seq(Query)
    PROVE  LET t == LogQuery(q, rows)
           IN /\ t.wasintx
              /\ q.kind = "insertselect" \/ ~t.disabled
              /\ q.kind = "select" /\ ~dep.includeselects => t.log = Logged
              /\ q.kind \notin {"insertselect"} /\ ~(q.kind = "select" /\ ~dep.includeselects)
                  => t.log = Append(Logged, IF rows = <<>> THEN q ELSE rows[1])
              /\ q.kind = "insertselect" => t.disabled
BY DEF LogQuery, Trigger, Logged

\* ... so that the log rebuilds the transaction with it ...
LEMMA ExecuteRebuilds ==
    ASSUME db \in Database, tr \in Trigger, intx = TRUE, ~tr.disabled,
           NEW q \in Query, q.key = 0, KeyBound, LogRebuilds,
           db' = Ran(q), tr' = LogQuery(q, RowsOf(q))
    PROVE  tr'.disabled \/ LogRebuilds'
<1> DEFINE log == Logged
           n == Len(log)
           rows == RowsOf(q)
           row == IF rows = <<>> THEN q ELSE rows[1]
<1>1. log \in Seq(Query) /\ rows \in Seq(Query) /\ n \in Nat
  BY EmptyRow, RowsType DEF Logged, Trigger
<1>2. /\ Ran(q).work = db.work \o rows /\ Ran(q).done = db.done
      /\ db.work \in Seq(Query) /\ db.done \in Seq(Query) /\ db.nextkey \in Nat
      /\ db.nextkey > 0
  BY DEF Ran, Database, KeyBound
<1>3. /\ Logged' = tr'.log \/ tr'.disabled
      /\ q.kind = "insertselect" => tr'.disabled
      /\ q.kind = "select" /\ ~dep.includeselects => tr'.log = log
      /\ q.kind # "insertselect" /\ ~(q.kind = "select" /\ ~dep.includeselects)
           => tr'.log = Append(log, row)
  BY <1>1, LoggedInTransaction DEF Logged
<1>4. PICK w : Rebuilt(w, log) /\ db.work = w[n]
  BY DEF LogRebuilds
<1>5. KeysApart(log, db.done)
  BY DEF LogRebuilds
<1>6. Fails(q) <=> q.kind = "bad"
  BY DEF Fails
<1>7. /\ rows = IF Kept(q) THEN <<row>> ELSE <<>>
      /\ row \in Query /\ row.kind = q.kind
      /\ row.key = IF q.kind = "insert" THEN db.nextkey ELSE 0
  <2> DEFINE r == [q EXCEPT !.key = db.nextkey]
  <2>1. r \in Query /\ r.kind = q.kind /\ r.key = db.nextkey
    BY <1>2 DEF Query
  <2>2. rows = IF ~Kept(q) THEN <<>> ELSE IF q.kind = "insert" THEN <<r>> ELSE <<q>>
    BY <1>6 DEF RowsOf, Kept, Generates
  <2>3. row = IF q.kind = "insert" THEN r ELSE q
    <3> HIDE DEF rows, r
    <3>1. rows = <<>> \/ rows = <<q>> \/ rows = <<r>>
      BY <2>2
    <3>. QED BY <2>1, <2>2, OneRow DEF Kept, row
  <2> HIDE DEF rows, r, row
  <2>. QED BY <2>1, <2>2, <2>3 DEF Kept
<1> HIDE DEF log, n, rows, row
<1>8. CASE q.kind = "select" /\ ~dep.includeselects
  <2>1. db'.work = db.work /\ db'.done = db.done
    BY <1>2, <1>7, <1>8 DEF Kept
  <2>2. Logged' = log \/ tr'.disabled
    BY <1>3, <1>8
  <2>. QED BY <1>4, <1>5, <2>1, <2>2 DEF LogRebuilds, n
<1>9. CASE q.kind # "insertselect" /\ ~(q.kind = "select" /\ ~dep.includeselects)
  <2>1. Logged' = Append(log, row) \/ tr'.disabled
    BY <1>3, <1>9
  <2>2. PICK v : /\ Rebuilt(v, Append(log, row))
                 /\ v[n + 1] = IF Kept(row) THEN Append(w[n], row) ELSE w[n]
    BY <1>1, <1>4, <1>7, RebuiltAppend DEF n
  <2>3. db'.work = v[n + 1]
    <3>1. Kept(row) <=> Kept(q)
      BY <1>7 DEF Kept
    <3>2. db.work \o <<>> = db.work /\ db.work \o <<row>> = Append(db.work, row)
      BY <1>2, <1>7, OneRow
    <3>3. CASE Kept(q)
      BY <1>2, <1>4, <1>7, <2>2, <3>1, <3>2, <3>3
    <3>4. CASE ~Kept(q)
      BY <1>2, <1>4, <1>7, <2>2, <3>1, <3>2, <3>4
    <3>. QED BY <3>3, <3>4
  <2>4. Len(Append(log, row)) = n + 1
    BY <1>1, <1>7 DEF n
  <2>5. KeysApart(Append(log, row), db.done)
    <3>1. /\ \A i \in DOMAIN log : log[i].key < db.nextkey /\ log[i].key \in Nat
          /\ \A i \in DOMAIN db.done : db.done[i].key < db.nextkey /\ db.done[i].key \in Nat
      <4>1. log = <<>> \/ log = tr.log
        BY DEF log, Logged
      <4>2. Bounded(tr.log, db.nextkey) /\ Bounded(db.done, db.nextkey)
        BY DEF KeyBound
      <4>3. Bounded(log, db.nextkey)
        BY <4>1, <4>2 DEF Bounded
      <4>4. /\ \A i \in DOMAIN log : log[i] \in Query
            /\ \A i \in DOMAIN db.done : db.done[i] \in Query
        BY <1>1, <1>2
      <4>5. \A r \in Query : r.key \in Nat
        BY DEF Query
      <4>. QED BY <4>2, <4>3, <4>4, <4>5 DEF Bounded
    <3>2. row.key # 0 => row.key = db.nextkey
      BY <1>7
    <3>3. row.kind = "insert" => row.key # 0
      BY <1>2, <1>7
    <3>4. row.key # 0 => /\ \A i \in DOMAIN log : log[i].key # row.key
                         /\ \A i \in DOMAIN db.done : db.done[i].key # row.key
      BY <1>2, <3>1, <3>2
    <3>. QED BY <1>1, <1>2, <1>5, <1>7, <3>3, <3>4, KeysApartAppend
  <2>. QED BY <1>2, <2>1, <2>2, <2>3, <2>4, <2>5 DEF LogRebuilds
<1>. QED BY <1>3, <1>8, <1>9
\* ... or, if it met the deadlock, so that it can be replayed.
LEMMA FailedIsLogged ==
    ASSUME db \in Database, tr \in Trigger, intx = TRUE, ~tr.disabled,
           NEW q \in Query, q.key = 0, q.kind \notin {"insert", "insertselect"},
           LogRebuilds
    PROVE  \E t : /\ t = LogQuery(q, <<>>) /\ t.wasintx /\ ~t.disabled
                  /\ KeysApart(t.log, db.done)
                  /\ \E w : /\ Rebuilt(w, t.log)
                            /\ \/ /\ Len(t.log) > 0 /\ t.log[Len(t.log)] = q
                                  /\ db.work = w[Len(t.log) - 1]
                               \/ q.kind = "select" /\ db.work = w[Len(t.log)]
<1> DEFINE log == Logged
           n == Len(log)
           t == LogQuery(q, <<>>)
<1>1. log \in Seq(Query) /\ n \in Nat /\ <<>> \in Seq(Query)
  BY EmptyRow DEF Logged, Trigger
<1>2. /\ t.wasintx /\ ~t.disabled
      /\ IF q.kind = "select" /\ ~dep.includeselects THEN t.log = log
                                                     ELSE t.log = Append(log, q)
  <2> DEFINE rows == <<>>
  <2>1. rows \in Seq(Query) /\ rows = <<>>
    BY <1>1
  <2> HIDE DEF rows
  <2>. QED BY <2>1, LoggedInTransaction
<1>3. PICK w : Rebuilt(w, log) /\ db.work = w[n]
  BY DEF LogRebuilds
<1>4. KeysApart(log, db.done) /\ db.done \in Seq(Query)
  BY DEF LogRebuilds, Database
<1> HIDE DEF log, n, t
<1>5. CASE q.kind = "select" /\ ~dep.includeselects
  BY <1>2, <1>3, <1>4, <1>5 DEF n, t
<1>6. CASE ~(q.kind = "select" /\ ~dep.includeselects)
  <2>1. PICK v : /\ Rebuilt(v, Append(log, q))
                 /\ \A i \in 0 .. n : v[i] = w[i]
    BY <1>1, <1>3, RebuiltAppend DEF n
  <2>2. KeysApart(Append(log, q), db.done)
    BY <1>1, <1>4, KeysApartAppend
  <2>3. t.log = Append(log, q)
    BY <1>2, <1>6
  <2>4. Len(t.log) = n + 1 /\ t.log[n + 1] = q
    BY <1>1, <2>3, OneRow DEF n
  <2>5. v[n] = db.work
    BY <1>1, <1>3, <2>1
  <2>6. Len(t.log) > 0 /\ t.log[Len(t.log)] = q /\ db.work = v[Len(t.log) - 1]
    BY <1>1, <2>4, <2>5
  <2>. QED BY <1>2, <2>1, <2>2, <2>3, <2>6 DEF t
<1>. QED BY <1>5, <1>6

\* The end of a replay of the transaction.
LEMMA RebuiltAsTold ==
    ASSUME NEW r \in ReplayRun, client \in Told, intx = TRUE, tr.log \in Seq(Query),
           NEW w, Rebuilt(w, tr.log), Len(tr.log) > 0,
           LET q == tr.log[Len(tr.log)]
           IN /\ r.error = IF q.kind = "bad" THEN "error" ELSE "none"
              /\ r.rows = IF Kept(q) THEN <<q>> ELSE <<>>,
           \/ tr.log[Len(tr.log)] = r.query /\ client.work = w[Len(tr.log) - 1]
           \/ r.query.kind = "select" /\ client.work = w[Len(tr.log)]
    PROVE  Answer(r).work = w[Len(tr.log)] /\ Answer(r).done = client.done
<1> DEFINE n == Len(tr.log)
           q == tr.log[n]
<1>1. n \in Nat /\ n > 0 /\ n \in DOMAIN tr.log /\ q \in Query /\ n \in 1 .. n
  OBVIOUS
<1>2. w[n] = IF Kept(q) THEN Append(w[n - 1], q) ELSE w[n - 1]
  BY <1>1 DEF Rebuilt
<1>3. w[n - 1] \in Seq(Query) /\ w[n] \in Seq(Query)
  <2>1. n - 1 \in 0 .. n /\ n \in 0 .. n
    BY <1>1
  <2>. QED BY <2>1 DEF Rebuilt
<1>4. /\ r.error = IF q.kind = "bad" THEN "error" ELSE "none"
      /\ r.rows = IF Kept(q) THEN <<q>> ELSE <<>>
      /\ \/ q = r.query /\ client.work = w[n - 1]
         \/ r.query.kind = "select" /\ client.work = w[n]
  OBVIOUS
<1> HIDE DEF n, q
<1>5. /\ ToldError("error") = client
      /\ \A x, rows :
            /\ ToldDone(x, rows).done = client.done
            /\ x.kind = "select" => ToldDone(x, rows).work = client.work \o <<>>
            /\ x.kind # "select" /\ rows # <<>> =>
                  ToldDone(x, rows).work = client.work \o rows
  BY DEF ToldError, ToldDone, Told
<1>6. CASE r.query.kind = "select" /\ client.work = w[n]
  <2>1. client.work \o <<>> = client.work
    BY <1>3, <1>6
  <2>2. CASE r.error = "none"
    BY <1>5, <1>6, <2>1, <2>2 DEF Answer, n
  <2>3. CASE r.error = "error"
    BY <1>5, <1>6, <2>3 DEF Answer, n
  <2>. QED BY <1>4, <2>2, <2>3
<1>7. CASE q = r.query /\ client.work = w[n - 1]
  <2>1. client.work \o <<>> = client.work /\ client.work \o <<q>> = Append(client.work, q)
    BY <1>1, <1>3, <1>7, OneRow
  <2>2. CASE q.kind = "bad"
    BY <1>2, <1>4, <1>5, <1>7, <2>2 DEF Answer, Kept, n
  <2>3. CASE q.kind = "select"
    <3>1. Answer(r) = ToldDone(q, r.rows)
      BY <1>4, <1>7, <2>3 DEF Answer
    <3>. QED BY <1>2, <1>5, <1>7, <2>1, <2>3, <3>1 DEF Kept, n
  <2>4. CASE Kept(q)
    <3>1. <<q>> # <<>> /\ q.kind # "select" /\ q.kind # "bad"
      BY <2>4 DEF Kept
    <3>2. Answer(r) = ToldDone(q, <<q>>)
      BY <1>4, <1>7, <2>4, <3>1 DEF Answer
    <3>3. Answer(r).work = client.work \o <<q>> /\ Answer(r).done = client.done
      BY <1>5, <3>1, <3>2
    <3>. QED BY <1>2, <1>7, <2>1, <2>4, <3>3 DEF n
  <2>. QED BY <2>2, <2>3, <2>4 DEF Kept
<1>. QED BY <1>4, <1>6, <1>7

\* Outside of a transaction a query is logged alone.
LEMMA LoggedAlone ==
    ASSUME tr \in Trigger, intx = FALSE, NEW q \in Query
    PROVE  /\ \A rows : LogQuery(q, rows).wasintx = tr.wasintx
           /\ ~tr.disabled /\ q.kind # "insertselect" =>
                 LET t == LogQuery(q, <<>>)
                 IN ~t.disabled /\ (t.log = <<q>> \/ (t.log = <<>> /\ q.kind = "select"))
<1>1. Append(<<>>, q) = <<q>>
  OBVIOUS
<1>2. \A rows : LogQuery(q, rows).wasintx = tr.wasintx
  BY DEF LogQuery, Trigger
<1>3. ASSUME ~tr.disabled, q.kind # "insertselect"
      PROVE  /\ LogQuery(q, <<>>).disabled = FALSE
             /\ LogQuery(q, <<>>).log = (IF q.kind = "select" /\ ~dep.includeselects
                                         THEN <<>> ELSE Append(<<>>, q))
  BY <1>3 DEF LogQuery, Trigger
<1>. QED BY <1>1, <1>2, <1>3

LEMMA TransactionExecute ==
    ASSUME ReplayTypeInv, KeyBound, TransactionInv, NEW kind \in Kinds, Execute(kind)
    PROVE  TransactionInv'
<1> DEFINE q == Sent(kind)
<1>0. intx \in BOOLEAN /\ tr \in Trigger /\ db \in Database
  BY DEF ReplayTypeInv, TypeOK, Trigger, Database
<1>1. /\ ~Replaying /\ dep' = dep /\ intx' = intx /\ db' = Ran(q)
      /\ tr' = LogQuery(q, RowsOf(q)) /\ Send(q)
  BY DEF Execute, Send
<1>2. q \in Query /\ q.key = 0
  BY <1>1, ReplayAssumption DEF Send, Sent, Query, ReplayTypeInv, TypeOK
<1>3. Same' /\ ~Replaying'
  BY <1>1, ExecuteAsTold DEF TransactionInv
<1> HIDE DEF q
<1>4. CASE ~intx
  <2>1. tr'.wasintx = tr.wasintx
    BY <1>0, <1>1, <1>2, <1>4, LoggedAlone
  <2>2. db'.work = db.work
    BY <1>1, <1>4 DEF Ran
  <2>. QED BY <1>1, <1>3, <1>4, <2>1, <2>2 DEF TransactionInv
<1>5. CASE intx
  <2>1. ASSUME ~tr'.disabled, "deadlock" \in dep.conditions PROVE LogRebuilds'
    <3>1. ~tr.disabled
      BY <1>1, <2>1 DEF LogQuery
    <3>2. LogRebuilds
      BY <1>1, <1>5, <2>1, <3>1 DEF TransactionInv
    <3>. QED BY <1>0, <1>1, <1>2, <1>5, <2>1, <3>1, <3>2, ExecuteRebuilds
  <2>. QED BY <1>1, <1>3, <1>5, <2>1 DEF TransactionInv
<1>. QED BY <1>4, <1>5

LEMMA TransactionExecuteFails ==
    ASSUME ReplayTypeInv, ReplaysTransactions(dep), TransactionInv,
           NEW kind \in Kinds, ExecuteFails(kind)
    PROVE  TransactionInv'
<1> DEFINE q == Sent(kind)
<1>0. intx \in BOOLEAN /\ tr \in Trigger /\ db \in Database /\ client \in Told
  BY DEF ReplayTypeInv, TypeOK, Trigger, Database, Told
<1>1. PICK error \in MayMeet(q) :
          /\ Send(q)
          /\ db' = GaveUp(error)
          /\ tr' = LogQuery(q, <<>>)
          /\ IF StartsReplay(error)
             THEN /\ run' = [on |-> TRUE, query |-> q, cause |-> error,
                             at |-> First(tr'.log, error), retry |-> 0,
                             error |-> "none", rows |-> <<>>]
                  /\ UNCHANGED client
             ELSE /\ client' = ToldError(error)
                  /\ UNCHANGED run
  BY DEF ExecuteFails
<1>2. /\ q \in Query /\ q.key = 0 /\ q.kind \notin {"insert", "insertselect"}
      /\ error = "deadlock"
  <2>1. q \in Query /\ q.key = 0
    BY <1>1, ReplayAssumption DEF Send, Sent, Query, ReplayTypeInv, TypeOK
  <2>2. q.kind \in dep.waits /\ error \in dep.errors
    BY <1>1 DEF MayMeet
  <2>. QED BY <2>1, <2>2 DEF ReplaysTransactions
<1>3. ~Replaying /\ Same /\ dep' = dep /\ intx' = intx
  BY <1>1 DEF Send, TransactionInv
<1> HIDE DEF q
<1>4. /\ db'.work = <<>> /\ db'.done = db.done /\ ToldError(error).work = <<>>
      /\ ToldError(error).done = client.done
  BY <1>0, <1>1, <1>2 DEF GaveUp, ToldError, Database, Told
<1>5. ~intx => ~tr'.wasintx
  BY <1>0, <1>1, <1>2, LoggedAlone DEF TransactionInv
<1>6. CASE ~StartsReplay(error)
  <2>1. Same' /\ ~Replaying'
    BY <1>1, <1>3, <1>4, <1>6 DEF Same, Replaying
  <2>2. tr'.disabled \/ "deadlock" \notin dep.conditions
    BY <1>1, <1>2, <1>6 DEF StartsReplay, Condition, LogQuery
  <2>. QED BY <1>3, <1>4, <1>5, <2>1, <2>2 DEF TransactionInv
<1>7. CASE StartsReplay(error)
  <2>1. /\ run'.query = q /\ run'.at = 1 /\ run'.on /\ run'.error = "none"
        /\ run'.rows = <<>> /\ client' = client
    BY <1>1, <1>2, <1>7 DEF First
  <2>2. ~tr.disabled /\ "deadlock" \in dep.conditions
    BY <1>2, <1>7 DEF StartsReplay, Condition
  <2>3. CASE intx
    <3>1. LogRebuilds
      BY <1>3, <2>2, <2>3 DEF TransactionInv
    <3>2. /\ tr'.wasintx /\ ~tr'.disabled /\ KeysApart(tr'.log, db.done)
          /\ \E w : /\ Rebuilt(w, tr'.log)
                    /\ \/ /\ Len(tr'.log) > 0 /\ tr'.log[Len(tr'.log)] = q
                          /\ db.work = w[Len(tr'.log) - 1]
                       \/ q.kind = "select" /\ db.work = w[Len(tr'.log)]
      BY <1>0, <1>1, <1>2, <2>2, <2>3, <3>1, FailedIsLogged
    <3>3. PICK w : /\ Rebuilt(w, tr'.log)
                   /\ \/ /\ Len(tr'.log) > 0 /\ tr'.log[Len(tr'.log)] = q
                         /\ db.work = w[Len(tr'.log) - 1]
                      \/ q.kind = "select" /\ db.work = w[Len(tr'.log)]
      BY <3>2
    <3>4. w[0] = <<>> /\ run'.at - 1 = 0
      BY <2>1, <3>3 DEF Rebuilt
    <3>5. client'.work = db.work /\ client'.done = db'.done
      BY <1>3, <1>4, <2>1 DEF Same
    <3>6. ReplaysLog'
      BY <1>4, <2>1, <3>2, <3>3, <3>4, <3>5 DEF ReplaysLog
    <3>7. Len(tr'.log) \in Nat /\ 1 \in 1 .. Len(tr'.log) + 1
      <4>1. tr'.log \in Seq(Query)
        BY <1>0, <1>1, <1>2, LogQueryType, EmptyRow DEF Trigger
      <4>. QED BY <4>1
    <3>8. ASSUME 1 = Len(tr'.log) + 1 PROVE EndsAsTold'
      <4>1. Len(tr'.log) = 0
        BY <3>7, <3>8
      <4>2. q.kind = "select" /\ db.work = <<>>
        BY <3>3, <3>4, <4>1
      <4>3. ToldAtEnd'.work = client.work \o <<>> /\ ToldAtEnd'.done = client.done
        BY <1>0, <1>3, <2>1, <2>3, <4>2 DEF ToldAtEnd, Answer, ToldDone, Told
      <4>4. client.work \o <<>> = <<>>
        BY <1>3, <4>2 DEF Same
      <4>. QED BY <1>3, <1>4, <4>3, <4>4 DEF EndsAsTold, Same
    <3>. QED BY <1>3, <2>1, <2>3, <3>2, <3>6, <3>7, <3>8 DEF TransactionInv, Replaying
  <2>4. CASE ~intx
    <3>1. ~tr'.disabled /\ (tr'.log = <<q>> \/ (tr'.log = <<>> /\ q.kind = "select"))
      BY <1>0, <1>1, <1>2, <2>2, <2>4, LoggedAlone
    <3>2. db.work = <<>> /\ Same'
      BY <1>3, <1>4, <2>1, <2>4 DEF Same, TransactionInv
    <3>3. ReplaysAlone'
      BY <2>1, <3>1, <3>2 DEF ReplaysAlone
    <3>4. Len(<<q>>) = 1 /\ Len(<<>>) = 0
      OBVIOUS
    <3>5. run'.at \in 1 .. Len(tr'.log) + 1
      BY <2>1, <3>1, <3>4
    <3>6. ASSUME run'.at = Len(tr'.log) + 1 PROVE EndsAsTold'
      <4>1. q.kind = "select"
        <5>1. tr'.log = <<q>> => Len(tr'.log) = 1
          BY <1>2, OneQuery
        <5>2. ASSUME Len(tr'.log) = 1 PROVE FALSE
          <6>1. run'.at = 1 + 1
            BY <3>6, <5>2
          <6>. QED BY <2>1, <6>1
        <5>. QED BY <3>1, <5>1, <5>2
      <4>2. ToldAtEnd'.work = client.work /\ ToldAtEnd'.done = client.done \o <<>>
        BY <1>0, <1>3, <2>1, <2>4, <4>1 DEF ToldAtEnd, Answer, ToldDone, Told
      <4>3. client.done \o <<>> = client.done
        BY <1>0 DEF Told
      <4>. QED BY <1>3, <1>4, <3>2, <4>2, <4>3 DEF EndsAsTold, Same
    <3>. QED BY <1>3, <1>4, <1>5, <2>1, <2>4, <3>1, <3>3, <3>5, <3>6 DEF TransactionInv, Replaying
  <2>. QED BY <2>3, <2>4
<1>. QED BY <1>6, <1>7
LEMMA TransactionReplayRuns ==
    ASSUME ReplayTypeInv, ReplaysTransactions(dep), TransactionInv, ReplayRuns
    PROVE  TransactionInv'
<1> DEFINE n == Len(tr.log)
           q == tr.log[run.at]
           error == IF Fails(q) THEN "error" ELSE "none"
<1>0. /\ intx \in BOOLEAN /\ tr \in Trigger /\ db \in Database /\ client \in Told
      /\ tr.log \in Seq(Query) /\ n \in Nat
  BY DEF ReplayTypeInv, TypeOK, Trigger, Database, Told
<1>1. /\ Replaying /\ run \in ReplayRun /\ run.at \in 1 .. n /\ q \in Query
  <2>1. Replaying /\ InLog
    BY DEF ReplayRuns
  <2>. QED BY <1>0, <2>1 DEF ReplayTypeInv, Replaying, Idle, InLog
<1>2. ~Condition(error)
  BY DEF Condition, ReplaysTransactions
<1>3. /\ run' = [run EXCEPT !.at = IF Condition(error) THEN Again(run) ELSE @ + 1,
                            !.error = error, !.rows = RowsOf(q)]
      /\ db' = Ran(q) /\ tr' = tr /\ client' = client /\ intx' = intx /\ dep' = dep
  BY DEF ReplayRuns
<1>4. /\ run' \in ReplayRun /\ run'.at = run.at + 1 /\ run'.query = run.query
      /\ run'.on /\ run'.error = error /\ run'.rows = RowsOf(q)
  <2>1. run'.at \in Nat /\ RowsOf(q) \in Seq(Query) /\ error \in {"none", "error"}
    BY <1>0, <1>1, <1>2, <1>3, RowsType DEF ReplayRun
  <2>. QED BY <1>1, <1>2, <1>3, <2>1 DEF ReplayRun
<1> HIDE DEF n, q
<1>5. run'.at \in 1 .. n + 1 /\ (run'.at = n + 1 => run.at = n)
  BY <1>0, <1>1, <1>4
<1>6. ~tr.disabled
  BY <1>1 DEF TransactionInv
<1>7. CASE intx
  <2>0. intx = TRUE
    BY <1>0, <1>7
  <2>1. ReplaysLog
    BY <1>1, <1>7 DEF TransactionInv
  <2>2. PICK w : /\ Rebuilt(w, tr.log) /\ db.work = w[run.at - 1]
                 /\ \/ /\ n > 0 /\ tr.log[n] = run.query
                       /\ client.work = w[n - 1]
                    \/ run.query.kind = "select" /\ client.work = w[n]
    BY <2>1 DEF ReplaysLog, n
  <2>3. /\ Ran(q).work = w[run.at] /\ Ran(q).done = db.done
        /\ Fails(q) <=> q.kind = "bad"
        /\ RowsOf(q) = IF Kept(q) THEN <<q>> ELSE <<>>
    BY <1>0, <1>1, <2>0, <2>1, <2>2, RunsAgain DEF ReplaysLog, n, q
  <2>4. run'.at - 1 = run.at
    BY <1>0, <1>1, <1>4
  <2>5. ReplaysLog'
    BY <1>3, <1>4, <2>1, <2>2, <2>3, <2>4 DEF ReplaysLog, n
  <2>6. ASSUME run'.at = n + 1 PROVE EndsAsTold'
    <3>1. run.at = n /\ q = tr.log[n] /\ n > 0
      BY <1>0, <1>1, <1>5, <2>6 DEF q
    <3>2. /\ run'.error = IF q.kind = "bad" THEN "error" ELSE "none"
          /\ run'.rows = IF Kept(q) THEN <<q>> ELSE <<>>
      BY <1>4, <2>3
    <3>3. ToldAtEnd'.work = w[n] /\ ToldAtEnd'.done = client.done
      <4>1. /\ run'.error = IF tr.log[n].kind = "bad" THEN "error" ELSE "none"
            /\ run'.rows = IF Kept(tr.log[n]) THEN <<tr.log[n]>> ELSE <<>>
            /\ \/ tr.log[n] = run'.query /\ client.work = w[n - 1]
               \/ run'.query.kind = "select" /\ client.work = w[n]
        BY <1>4, <2>2, <3>1, <3>2
      <4>2. Answer(run').work = w[n] /\ Answer(run').done = client.done
        BY <1>0, <1>4, <2>0, <2>2, <3>1, <4>1, RebuiltAsTold DEF n
      <4>3. ToldAtEnd' = Answer(run')
        BY <1>3 DEF ToldAtEnd, Answer, ToldDone, ToldError
      <4>. QED BY <4>2, <4>3
    <3>. QED BY <1>3, <2>1, <2>3, <3>1, <3>3 DEF EndsAsTold, ReplaysLog
  <2>. QED BY <1>3, <1>4, <1>5, <1>6, <1>7, <2>5, <2>6 DEF TransactionInv, Replaying, n
<1>8. CASE ~intx
  <2>1. ReplaysAlone
    BY <1>1, <1>8 DEF TransactionInv
  <2>2. n = 1 /\ tr.log = <<run.query>> /\ run.at = 1 /\ q = run.query /\ Same
    <3>1. run.query \in Query /\ n # 0
      BY <1>0, <1>1 DEF ReplayRun
    <3>2. tr.log = <<run.query>> /\ n = 1
      BY <2>1, <3>1, OneQuery DEF ReplaysAlone, n
    <3>3. run.at = 1 /\ tr.log[1] = run.query
      BY <1>1, <3>1, <3>2, OneQuery
    <3>. QED BY <2>1, <3>2, <3>3 DEF ReplaysAlone, n, q
  <2>3. ToldAtEnd' = IF Fails(q) THEN ToldError("error") ELSE ToldDone(q, RowsOf(q))
    BY <1>3, <1>4, <2>2 DEF ToldAtEnd, Answer, ToldDone, ToldError
  <2>4. ToldError("error") = client
    BY DEF ToldError
  <2>5. EndsAsTold'
    BY <1>0, <1>1, <1>3, <2>2, <2>3, <2>4, RanAsTold DEF EndsAsTold
  <2>6. db'.work = db.work
    BY <1>3, <1>8 DEF Ran
  <2>7. ReplaysAlone'
    BY <1>0, <1>3, <1>4, <2>2 DEF ReplaysAlone, n
  <2>. QED BY <1>3, <1>4, <1>5, <1>6, <1>8, <2>5, <2>6, <2>7 DEF TransactionInv, Replaying, n
<1>. QED BY <1>7, <1>8

LEMMA TransactionStep ==
    ASSUME ReplayTypeInv, ReplaysTransactions(dep), KeyBound, TransactionInv, Next
    PROVE  TransactionInv'
<1> DEFINE n == Len(tr.log)
<1>0. /\ intx \in BOOLEAN /\ tr \in Trigger /\ db \in Database /\ client \in Told
      /\ tr.log \in Seq(Query) /\ n \in Nat
  BY DEF ReplayTypeInv, TypeOK, Trigger, Database, Told
<1>1. ASSUME Same', ~Replaying', dep' = dep, db'.work = <<>>, ~tr'.wasintx,
             dep.model = "implicit" => intx'
      PROVE  TransactionInv'
  <2>1. Logged' = <<>> /\ Len(<<>>) = 0
    BY <1>1 DEF Logged
  <2>2. LogRebuilds'
    BY <1>1, <2>1, RebuiltEmpty DEF LogRebuilds
  <2>. QED BY <1>1, <2>2 DEF TransactionInv
<1>2. CASE Begin
  <2>1. ~Replaying /\ ~intx /\ dep' = dep /\ db' = db /\ tr' = tr /\ intx' = TRUE
    BY <1>2 DEF Begin
  <2>. QED BY <1>1, <1>2, <2>1, EndAsTold DEF TransactionInv
<1>3. CASE Commit \/ Rollback
  <2>1. ASSUME NEW done, NEW told, End(done, told)
        PROVE  /\ ~Replaying /\ dep' = dep /\ db'.work = <<>> /\ ~tr'.wasintx
               /\ dep.model = "implicit" => intx'
    BY <1>0, <2>1 DEF End, NewTransaction, Database
  <2>2. /\ ~Replaying /\ dep' = dep /\ db'.work = <<>> /\ ~tr'.wasintx
        /\ dep.model = "implicit" => intx'
    BY <1>3, <2>1 DEF Commit, Rollback
  <2>. QED BY <1>1, <1>3, <2>2, EndAsTold DEF TransactionInv
<1>4. ASSUME Replaying
      PROVE  /\ run \in ReplayRun /\ run.cause = "deadlock" /\ "deadlock" \in dep.conditions
             /\ ~tr.disabled /\ run.at \in 1 .. n + 1
             /\ run.at = n + 1 => EndsAsTold
             /\ intx => ReplaysLog
             /\ ~intx => ReplaysAlone
  <2>1. run \in ReplayRun /\ run.cause \in dep.conditions
    BY <1>4 DEF ReplayTypeInv, TypeOK, Replaying, Idle
  <2>2. run.cause = "deadlock"
    BY <2>1 DEF ReplaysTransactions
  <2>. QED BY <1>4, <2>1, <2>2 DEF TransactionInv
<1>5. ASSUME NEW error \in MayMeet(tr.log[run.at])
      PROVE  error = "deadlock"
  BY <1>5 DEF MayMeet, ReplaysTransactions
<1>6. CASE ReplayRetries
  <2>1. PICK error \in MayMeet(tr.log[run.at]) :
            /\ db' = GaveUp(error)
            /\ IF Condition(error)
               THEN run' = [run EXCEPT !.retry = @ + 1, !.at = Again(run),
                                       !.error = error]
               ELSE run' = [run EXCEPT !.at = @ + 1, !.error = error, !.rows = <<>>]
    BY <1>6 DEF ReplayRetries
  <2>2. Replaying /\ InLog /\ tr' = tr /\ client' = client /\ intx' = intx /\ dep' = dep
    BY <1>6 DEF ReplayRetries
  <2>3. run \in ReplayRun /\ error = "deadlock" /\ Condition(error) /\ n >= 1
    BY <1>0, <1>4, <1>5, <2>2 DEF Condition, InLog
  <2>4. run'.at = 1 /\ run'.query = run.query /\ run'.on
    BY <1>4, <2>1, <2>2, <2>3 DEF Again, ReplayRun
  <2>5. db'.work = <<>> /\ db'.done = db.done
    BY <1>0, <2>1, <2>3 DEF GaveUp, Database
  <2>6. run'.at \in 1 .. n + 1 /\ run'.at # n + 1
    BY <1>0, <2>3, <2>4
  <2> HIDE DEF n
  <2>7. CASE intx
    <3>1. PICK w : /\ Rebuilt(w, tr.log)
                   /\ \/ /\ n > 0 /\ tr.log[n] = run.query
                         /\ client.work = w[n - 1]
                      \/ run.query.kind = "select" /\ client.work = w[n]
      BY <1>4, <2>2, <2>7 DEF ReplaysLog, n
    <3>2. w[0] = <<>> /\ run'.at - 1 = 0
      BY <2>4, <3>1 DEF Rebuilt
    <3>3. ReplaysLog'
      BY <1>4, <2>2, <2>4, <2>5, <2>7, <3>1, <3>2 DEF ReplaysLog, n
    <3>. QED BY <1>4, <2>2, <2>4, <2>6, <2>7, <3>3 DEF TransactionInv, Replaying, n
  <2>8. CASE ~intx
    <3>1. tr.log = <<run.query>> /\ n = 1 /\ run.at = 1
      <4>1. n # 0 /\ run.at \in 1 .. n /\ run.query \in Query
        BY <1>0, <2>2, <2>3 DEF InLog, n, ReplayRun
      <4>2. tr.log = <<run.query>> /\ n = 1
        BY <1>4, <2>2, <2>8, <4>1, OneQuery DEF ReplaysAlone, n
      <4>. QED BY <4>1, <4>2
    <3>2. db.work = <<>> /\ Same
      BY <1>4, <2>2, <2>8, <3>1 DEF ReplaysAlone, TransactionInv, n
    <3>3. Same'
      BY <2>2, <2>5, <3>2 DEF Same
    <3>4. ReplaysAlone'
      BY <2>2, <2>4, <3>1, <3>3 DEF ReplaysAlone
    <3>. QED BY <1>4, <2>2, <2>4, <2>5, <2>6, <2>8, <3>2, <3>4 DEF TransactionInv, Replaying, n
  <2>. QED BY <2>7, <2>8
<1>7. CASE ReplayFails
  <2>1. PICK error \in MayMeet(tr.log[run.at]) : client' = ToldError(error)
    BY <1>7 DEF ReplayFails
  <2>2. /\ Replaying /\ TooOften(run.retry + 1) /\ dep' = dep
        /\ intx' = (dep.model = "implicit") /\ run' = Idle
        /\ db' = [db EXCEPT !.work = <<>>] /\ tr' = [tr EXCEPT !.log = <<>>]
    BY <1>7 DEF ReplayFails
  <2>3. dep.model = "implicit" /\ intx /\ intx'
    <3>1. dep.maxretries > 0
      BY <2>2 DEF TooOften
    <3>. QED BY <2>2, <3>1 DEF ReplaysTransactions, TransactionInv
  <2>4. client'.work = <<>> /\ client'.done = client.done
    BY <1>0, <1>5, <2>1 DEF ToldError, Told
  <2>5. /\ db'.work = <<>> /\ db'.done = db.done /\ tr'.log = <<>> /\ ~Replaying'
    BY <1>0, <2>2 DEF Database, Trigger, Replaying, Idle
  <2>6. Same'
    BY <1>4, <2>2, <2>3, <2>4, <2>5 DEF ReplaysLog, Same
  <2>7. Logged' = <<>> /\ Len(<<>>) = 0
    BY <2>5 DEF Logged
  <2>8. LogRebuilds'
    BY <2>5, <2>7, RebuiltEmpty DEF LogRebuilds
  <2>. QED BY <2>3, <2>5, <2>6, <2>8 DEF TransactionInv
<1>8. CASE ReplayEnds
  <2>1. /\ Replaying /\ ~InLog /\ dep' = dep /\ intx' = intx /\ tr' = tr /\ db' = db
    BY <1>8 DEF ReplayEnds
  <2>2. run.at = n + 1 /\ EndsAsTold
    BY <1>0, <1>4, <2>1 DEF InLog
  <2>3. Same' /\ ~Replaying'
    BY <1>8, <2>2, ReplayEndsAsTold
  <2>4. intx => LogRebuilds'
    <3>1. ASSUME intx PROVE LogRebuilds'
      <4>1. ReplaysLog /\ run.at - 1 = n
        BY <1>0, <1>4, <2>1, <2>2, <3>1
      <4>2. Logged' = tr.log
        BY <2>1, <4>1 DEF ReplaysLog, Logged
      <4>. QED BY <2>1, <4>1, <4>2 DEF ReplaysLog, LogRebuilds
    <3>. QED BY <3>1
  <2>. QED BY <2>1, <2>3, <2>4 DEF TransactionInv
<1>. QED
  BY <1>2, <1>3, <1>6, <1>7, <1>8, TransactionExecute, TransactionExecuteFails,
     TransactionReplayRuns DEF Next, Replay

-----------------------------------------------------------------------------
(* Running the whole log again.  The induction is over a set, and rests on the *)
(* order of the naturals being well founded.                                   *)

LEMMA LeastElement ==
    ASSUME NEW T, T \subseteq Nat, T # {}
    PROVE  \E x \in T : \A y \in T : ~(y < x)
<1> DEFINE R == OpToRel(<, Nat)
<1>1. IsWellFoundedOn(R, Nat)
  BY NatLessThanWellFounded
<1> HIDE DEF R
<1>2. \E x \in T : \A y \in T : <<y, x>> \notin R
  BY <1>1, WFMin, Zenon
<1>3. \A x, y \in Nat : y < x => <<y, x>> \in R
  BY DEF R, OpToRel
<1>. QED BY <1>2, <1>3

LEMMA SetInduction ==
    ASSUME NEW S, 0 \in S, \A i \in Nat : i \in S => i + 1 \in S
    PROVE  Nat \subseteq S
<1> DEFINE T == {i \in Nat : i \notin S}
<1>1. ASSUME T # {} PROVE FALSE
  <2>1. PICK x \in T : \A y \in T : ~(y < x)
    BY <1>1, LeastElement
  <2>2. x \in Nat /\ x # 0 /\ x - 1 \in Nat /\ x - 1 < x
    BY <2>1
  <2>3. x - 1 \in S
    BY <2>1, <2>2
  <2>. QED BY <2>1, <2>2, <2>3
<1>. QED BY <1>1

LEMMA RebuildIs ==
    ASSUME NEW log \in Seq(Query), NEW w, Rebuilt(w, log)
    PROVE  Rebuild(log) = w[Len(log)]
<1> DEFINE n == Len(log)
           Step(f) == [i \in 0 .. n |->
                          IF i = 0 THEN <<>>
                          ELSE IF log[i].kind \in {"select", "bad"} THEN f[i - 1]
                          ELSE Append(f[i - 1], log[i])]
           rows == CHOOSE f : f = Step(f)
<1>1. n \in Nat
  OBVIOUS
<1>2. w \in [0 .. n -> Seq(Query)] /\ w[0] = <<>>
      /\ \A i \in 1 .. n :
            w[i] = IF Kept(log[i]) THEN Append(w[i - 1], log[i]) ELSE w[i - 1]
  BY DEF Rebuilt
<1>3. w = Step(w)
  <2>1. ASSUME NEW i \in 0 .. n
        PROVE  w[i] = IF i = 0 THEN <<>>
                      ELSE IF log[i].kind \in {"select", "bad"} THEN w[i - 1]
                      ELSE Append(w[i - 1], log[i])
    <3>1. CASE i = 0
      BY <1>2, <3>1
    <3>2. CASE i \in 1 .. n
      BY <1>2, <3>2 DEF Kept
    <3>. QED BY <1>1, <3>1, <3>2
  <2>2. w = [i \in 0 .. n |-> w[i]]
    BY <1>2
  <2>. QED BY <2>1, <2>2
<1>4. rows = Step(rows)
  <2> HIDE DEF Step
  <2>. QED BY <1>3
<1>5. Rebuild(log) = rows[n]
  BY DEF Rebuild
<1> HIDE DEF rows
<1>6. rows[0] = <<>> /\ \A i \in 1 .. n :
            rows[i] = IF Kept(log[i]) THEN Append(rows[i - 1], log[i]) ELSE rows[i - 1]
  <2>1. ASSUME NEW i \in 0 .. n
        PROVE  rows[i] = IF i = 0 THEN <<>>
                         ELSE IF log[i].kind \in {"select", "bad"} THEN rows[i - 1]
                         ELSE Append(rows[i - 1], log[i])
    BY <1>4
  <2>2. 0 \in 0 .. n /\ \A i \in 1 .. n : i \in 0 .. n /\ i # 0
    BY <1>1
  <2>. QED BY <2>1, <2>2 DEF Kept
<1> DEFINE S == {i \in Nat : i <= n => rows[i] = w[i]}
<1>7. 0 \in S
  BY <1>2, <1>6
<1>8. ASSUME NEW i \in Nat, i \in S PROVE i + 1 \in S
  <2>1. CASE i + 1 <= n
    <3>1. i + 1 \in 1 .. n /\ (i + 1) - 1 = i /\ rows[i] = w[i]
      BY <1>1, <1>8, <2>1
    <3>. QED BY <1>2, <1>6, <3>1
  <2>2. CASE ~(i + 1 <= n)
    BY <2>2
  <2>. QED BY <2>1, <2>2
<1> HIDE DEF S
<1>9. n \in S
  BY <1>1, <1>7, <1>8, SetInduction
<1>. QED BY <1>1, <1>5, <1>9 DEF S

-----------------------------------------------------------------------------
(* The theorems. *)

\* The strengthened invariant: what each kind of replay relies on.
ReplayInv ==
    /\ ReplayTypeInv /\ KeyBound
    /\ ReplaysQueries(dep) => QueryInv
    /\ ReplaysTransactions(dep) => TransactionInv

LEMMA ReplayInvariant == Spec => []ReplayInv
<1>1. Init => ReplayInv
  <2> SUFFICES ASSUME Init PROVE ReplayInv
    OBVIOUS
  <2>1. ReplayTypeInv
    BY EmptyRow, ReplayAssumption
    DEF Init, ReplayTypeInv, TypeOK, Deployment, NewTransaction, Idle, Replaying
  <2>2. KeyBound
    BY DEF Init, KeyBound, Bounded, NewTransaction
  <2>3. Same /\ ~Replaying /\ tr.wasintx = FALSE /\ db.work = <<>>
        /\ (dep.model = "implicit" <=> intx)
    BY DEF Init, Same, Replaying, Idle, NewTransaction
  <2>4. LogRebuilds
    <3>1. Logged = <<>> /\ Len(<<>>) = 0
      BY <2>3 DEF Logged
    <3>. QED BY <2>3, <3>1, RebuiltEmpty DEF LogRebuilds
  <2>. QED BY <2>1, <2>2, <2>3, <2>4 DEF ReplayInv, QueryInv, TransactionInv
<1>2. ReplayInv /\ [Next]_vars => ReplayInv'
  <2> SUFFICES ASSUME ReplayInv, [Next]_vars PROVE ReplayInv'
    OBVIOUS
  <2>1. ReplayTypeInv'
    BY ReplayTypeStep DEF ReplayInv
  <2>2. CASE Next
    <3>1. dep' = dep
      BY <2>2 DEF Next, Begin, Commit, Rollback, End, Execute, ExecuteFails, Send,
                  Replay, ReplayRuns, ReplayRetries, ReplayFails, ReplayEnds
    <3>. QED BY <2>1, <2>2, <3>1, KeyStep, QueryStep, TransactionStep
             DEF ReplayInv, ReplaysQueries, ReplaysTransactions
  <2>3. CASE UNCHANGED vars
    <3>1. /\ dep' = dep /\ intx' = intx /\ tr' = tr /\ run' = run /\ db' = db
          /\ client' = client
      BY <2>3 DEF vars
    <3>2. KeyBound'
      BY <3>1 DEF ReplayInv, KeyBound
    <3>3. (Same' <=> Same) /\ (EndsAsTold' <=> EndsAsTold) /\ (Replaying' <=> Replaying)
      BY <3>1 DEF Same, EndsAsTold, ToldAtEnd, Answer, ToldDone, ToldError, Replaying
    <3>4. (ReplaysQueries(dep)' <=> ReplaysQueries(dep))
          /\ (ReplaysTransactions(dep)' <=> ReplaysTransactions(dep))
      BY <3>1 DEF ReplaysQueries, ReplaysTransactions
    <3>5. QueryInv => QueryInv'
      BY <3>1, <3>3 DEF QueryInv
    <3>6. TransactionInv => TransactionInv'
      BY <3>1, <3>3 DEF TransactionInv, LogRebuilds, Logged, ReplaysLog, ReplaysAlone
    <3>. QED BY <2>1, <3>2, <3>4, <3>5, <3>6 DEF ReplayInv
  <2>. QED BY <2>2, <2>3
<1>. QED BY <1>1, <1>2, PTL DEF Spec

\* A replay starts over no more often than maxretries says, and stays within the log
\* of its transaction; what is logged, applied and told are queries that were sent.
THEOREM ReplayTypeCorrect == Spec => []TypeOK
<1>1. ReplayInv => TypeOK
  BY DEF ReplayInv, ReplayTypeInv
<1>. QED BY <1>1, ReplayInvariant, PTL

\* Every deployment replays transactions or queries the way the trigger is made for.
Replayable == \A d \in Deployments : ReplaysTransactions(d) \/ ReplaysQueries(d)

LEMMA ReplayedAsTold ==
    ASSUME Replayable, ReplayInv, ~Replaying
    PROVE  Same
BY DEF Replayable, ReplayInv, ReplayTypeInv, TypeOK, QueryInv, TransactionInv

\* However often the trigger replays, a client is told just what is applied: each query
\* once, in the order they were sent.
THEOREM ReplayAppliesAsTold ==
    ASSUME \A d \in Deployments : ReplaysTransactions(d) \/ ReplaysQueries(d)
    PROVE  Spec => []AppliedAsTold
<1>1. ReplayInv => AppliedAsTold
  BY ReplayedAsTold DEF Replayable, AppliedAsTold, Same
<1>. QED BY <1>1, ReplayInvariant, PTL

\* A replayed insert keeps the key it generated first, which the client was told.
THEOREM ReplayKeepsKeys ==
    ASSUME \A d \in Deployments : ReplaysTransactions(d) \/ ReplaysQueries(d)
    PROVE  Spec => []KeysAsTold
<1>1. ReplayInv => KeysAsTold
  BY ReplayedAsTold DEF Replayable, KeysAsTold, Same
<1>. QED BY <1>1, ReplayInvariant, PTL

\* Whenever a deadlock could strike, replaying the log gives the open transaction, row by
\* row.
THEOREM ReplayLogRebuilds ==
    ASSUME \A d \in Deployments : ReplaysTransactions(d) \/ ReplaysQueries(d)
    PROVE  Spec => []LogRebuildsTransaction
<1>1. ReplayInv => LogRebuildsTransaction
  <2> SUFFICES ASSUME ReplayInv, ~Replaying, intx, ~tr.disabled,
                      "deadlock" \in dep.conditions
               PROVE  Rebuild(IF tr.wasintx THEN tr.log ELSE <<>>) = db.work
    BY DEF LogRebuildsTransaction
  <2>1. dep \in Deployments /\ Logged \in Seq(Query)
    BY EmptyRow DEF ReplayInv, ReplayTypeInv, TypeOK, Logged
  <2>2. ~ReplaysQueries(dep)
    BY DEF ReplaysQueries
  <2>3. LogRebuilds
    BY <2>1, <2>2 DEF ReplayInv, TransactionInv
  <2>4. Rebuild(Logged) = db.work
    BY <2>1, <2>3, RebuildIs DEF LogRebuilds
  <2>. QED BY <2>4 DEF Logged
<1>. QED BY <1>1, ReplayInvariant, PTL
=============================================================================
