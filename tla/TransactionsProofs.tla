------------------------- MODULE TransactionsProofs -------------------------
(***************************************************************************)
(* Proofs about Transactions, for any databases and configurations of the  *)
(* kinds DeploymentKinds defines.                                          *)
(***************************************************************************)
EXTENDS Transactions, DeploymentKinds, TLAPS

\* What each call on the database and each operation of the controller returns
\* is again a state of the connection.
LEMMA DbType ==
    ASSUME NEW s \in State
    PROVE  /\ Succeed(s) \in State /\ Fail(s) \in State
           /\ DbCommit(s) \in State /\ DbRollback(s) \in State
           /\ DbBegin(s) \in State /\ DbAutoOn(s) \in State
           /\ DbAutoOff(s) \in State /\ DbExecute(s) \in State
           /\ BeginTransaction(s) \in State
<1> USE DEF State
<1>1. Succeed(s) \in State /\ Fail(s) \in State
  BY DEF Succeed, Fail
<1>2. \A fate \in {"committed", "rolledback"} : Ended(s, fate) \in State
  BY DEF Ended
<1>3. DbCommit(s) \in State /\ DbRollback(s) \in State
  <2>. HIDE DEF State
  <2>. QED BY <1>1, <1>2 DEF DbCommit, DbRollback
<1>4. DbBegin(s) \in State
  <2>1. /\ [s EXCEPT !.ok = TRUE, !.needs = TRUE] \in State
        /\ [s EXCEPT !.ok = TRUE, !.needs = TRUE, !.dbtx = TRUE] \in State
    OBVIOUS
  <2>. HIDE DEF State
  <2>. QED BY <1>1, <2>1 DEF DbBegin
<1>5. DbAutoOn(s) \in State
  <2> DEFINE e == Ended(s, "committed")
  <2>1. e \in State
    BY <1>2
  <2>. HIDE DEF e
  <2>2. [e EXCEPT !.dbauto = TRUE] \in State
    BY <2>1
  <2>. HIDE DEF State
  <2>. QED BY <1>1, <2>2 DEF DbAutoOn, e
<1>6. DbAutoOff(s) \in State
  <2>1. [s EXCEPT !.ok = TRUE, !.dbauto = FALSE] \in State
    OBVIOUS
  <2>. HIDE DEF State
  <2>. QED BY <1>1, <2>1 DEF DbAutoOff
<1>7. DbExecute(s) \in State
  BY DEF DbExecute
<1>8. BeginTransaction(s) \in State
  BY DEF BeginTransaction
<1>. QED BY <1>1, <1>3, <1>4, <1>5, <1>6, <1>7, <1>8

LEMMA EndTransactionType ==
    ASSUME NEW s \in State
    PROVE  EndTransaction(s) \in State
<1>1. AfterDeferred(s) \in State
  <2> DEFINE d == IF FakingExplicit(s)
                  THEN IF s.eot THEN DbAutoOn(s) ELSE DbAutoOff(s)
                  ELSE IF s.eot THEN s ELSE DbBegin(s)
  <2>1. d \in State
    BY DbType
  <2>2. AfterDeferred(s) = [d EXCEPT !.auto = s.eot, !.eot = FALSE]
    BY DEF AfterDeferred
  <2>. HIDE DEF d
  <2>. QED BY <2>1, <2>2 DEF State
<1>2. AfterFakedImplicit(s) \in State
  BY DbType DEF AfterFakedImplicit
<1>3. AfterExplicit(s) \in State
  <2> DEFINE d == IF be.hasac THEN DbAutoOn(s) ELSE s
  <2>1. d \in State
    BY DbType
  <2>2. AfterExplicit(s) = [d EXCEPT !.auto = TRUE]
    BY DEF AfterExplicit
  <2>. HIDE DEF d
  <2>. QED BY <2>1, <2>2 DEF State
<1>4. AfterTransaction(s) \in State
  BY <1>1, <1>2, <1>3 DEF AfterTransaction
<1>5. EndTransaction(s) =
        [AfterTransaction(s) EXCEPT !.ok = TRUE, !.intx = ~AfterTransaction(s).auto,
                                    !.needs = FALSE]
  BY DEF EndTransaction
<1>. QED BY <1>4, <1>5 DEF State

LEMMA OperationType ==
    ASSUME NEW s \in State
    PROVE  /\ Commit(s) \in State /\ Rollback(s) \in State
           /\ Begin(s) \in State
           /\ SetAutoCommitOn(s) \in State /\ SetAutoCommitOff(s) \in State
           /\ Query(s) \in State
<1>1. Commit(s) \in State /\ Rollback(s) \in State
  BY DbType, EndTransactionType DEF Commit, Rollback, Bail
<1>2. Begin(s) \in State
  <2> DEFINE t == IF FakingExplicit(s) THEN DbAutoOff(s) ELSE DbBegin(s)
             u == [t EXCEPT !.eot = @ \/ s.model = "deferred"]
  <2>1. t \in State
    BY DbType
  <2> HIDE DEF t
  <2>2. u \in State
    BY <2>1 DEF State
  <2>3. BeginTransaction(u) \in State
    BY <2>2, DbType
  <2> HIDE DEF u
  <2>. QED BY <2>1, <2>3, DbType DEF Begin, Bail, t, u
<1>3. SetAutoCommitOn(s) \in State
  <2> DEFINE t == IF be.hasac THEN DbAutoOn(s) ELSE DbCommit(s)
             u == [t EXCEPT !.eot = @ \/ s.model = "deferred",
                            !.auto = @ \/ be.hasac \/ FakingImplicit(s)]
  <2>1. t \in State
    BY DbType
  <2> HIDE DEF t
  <2>2. u \in State
    <3> DEFINE a == t.auto \/ be.hasac \/ FakingImplicit(s)
               e == t.eot \/ s.model = "deferred"
    <3>1. a \in BOOLEAN /\ e \in BOOLEAN
      OBVIOUS
    <3>2. u = [t EXCEPT !.eot = e, !.auto = a]
      BY <2>1 DEF State
    <3>. HIDE DEF a, e
    <3>. QED BY <2>1, <3>1, <3>2 DEF State
  <2>3. EndTransaction(u) \in State
    BY <2>2, EndTransactionType
  <2>4. [s EXCEPT !.ok = TRUE, !.auto = TRUE] \in State
    BY DEF State
  <2> HIDE DEF u
  <2>. QED BY <2>1, <2>3, <2>4, DbType DEF SetAutoCommitOn, Bail, t, u
<1>4. SetAutoCommitOff(s) \in State
  <2> DEFINE t == IF ~FakingDeferred(s) /\ be.hasac THEN DbAutoOff(s)
                                                   ELSE Succeed(s)
             v == IF be.hasac THEN DbAutoOff(s) ELSE DbBegin(s)
             w == [v EXCEPT !.eot = @ /\ s.model # "deferred"]
  <2>1. t \in State /\ v \in State
    BY DbType
  <2> HIDE DEF t, v
  <2>2. w \in State
    <3>1. (v.eot /\ s.model # "deferred") \in BOOLEAN
      BY <2>1 DEF State
    <3>. QED BY <2>1, <3>1 DEF State
  <2>3. BeginTransaction(w) \in State
    BY <2>2, DbType
  <2>4. [s EXCEPT !.ok = FALSE, !.auto = TRUE] \in State
    BY DEF State
  <2>5. [t EXCEPT !.eot = FALSE] \in State
    BY <2>1 DEF State
  <2> HIDE DEF w
  <2>. QED BY <2>1, <2>3, <2>4, <2>5, DbType DEF SetAutoCommitOff, Bail, t, v, w
<1>5. Query(s) \in State
  <2>1. DbExecute(s) \in State
    BY DbType
  <2>2. [DbExecute(s) EXCEPT !.needs = TRUE] \in State
    BY <2>1 DEF State
  <2>. QED BY <2>1, <2>2 DEF Query, MarkNeeds
<1>. QED BY <1>1, <1>2, <1>3, <1>4, <1>5

LEMMA SwitchType ==
    ASSUME dep \in Deployment, NEW s \in State, NEW model \in TxModels
    PROVE  SetTransactionModel(s, model) \in State
<1> DEFINE n == [s EXCEPT !.model = be.native]
           c == Commit(n)
           t == IF s.model = "none" THEN Succeed(s)
                ELSE Bail(c, SetAutoCommitOn(c))
           u == [t EXCEPT !.model = model]
<1>1. n \in State
  BY DEF State, Deployment, Backend, be
<1> HIDE DEF n
<1>2. c \in State
  BY <1>1, OperationType
<1> HIDE DEF c
<1>3. t \in State
  BY <1>2, OperationType, DbType DEF Bail
<1> HIDE DEF t
<1>4. u \in State /\ [t EXCEPT !.model = s.model] \in State
  BY <1>3 DEF State
<1> HIDE DEF u
<1>5. SetAutoCommitOff(u) \in State
  BY <1>4, OperationType
<1>. QED BY <1>4, <1>5, DbType DEF SetTransactionModel, n, c, t, u

LEMMA SettingsType ==
    ASSUME NEW s \in State
    PROVE  SetIncludingOn(s) \in State /\ SetIncludingOff(s) \in State
<1>1. \A t \in State, x \in BOOLEAN : MarkNeeds(t, x) \in State
  BY DEF MarkNeeds, State
<1>2. \A t \in State, x \in BOOLEAN : [t EXCEPT !.auto = x] \in State
  BY DEF State
<1>3. DbAutoOn(s) \in State /\ DbAutoOff(s) \in State
  BY DbType
<1>4. /\ [MarkNeeds(DbAutoOn(s), TRUE) EXCEPT !.auto = TRUE] \in State
      /\ [MarkNeeds(DbAutoOff(s), TRUE) EXCEPT !.auto = FALSE] \in State
  BY <1>1, <1>2, <1>3
<1>. QED BY <1>4, DbType, EndTransactionType DEF SetIncludingOn, SetIncludingOff

LEMMA SetAutoCommitType ==
    ASSUME NEW s \in State, NEW on \in BOOLEAN
    PROVE  SetAutoCommit(s, on) \in State
BY OperationType DEF SetAutoCommit

\* The settings that a new connection and a new session start with.
Initial == [model : TxModels, auto : BOOLEAN]

LEMMA EndOfSessionType ==
    ASSUME dep \in Deployment, initial \in Initial, NEW s \in State
    PROVE  /\ EndWork(s) \in State
           /\ DropTempTables(s) \in State
           /\ Reset(s) \in State
           /\ EndOfSession(s) \in State
<1> USE DEF Initial
<1>1. ASSUME NEW t \in State PROVE EndWork(t) \in State
  BY OperationType DEF EndWork
<1>2. ASSUME NEW t \in State PROVE DropTempTables(t) \in State
  <2>1. Query(t) \in State
    BY OperationType
  <2>2. [Query(t) EXCEPT !.temp = FALSE] \in State
    BY <2>1 DEF State
  <2>. QED BY <2>2, OperationType DEF DropTempTables
<1>3. ASSUME NEW t \in State PROVE Reset(t) \in State
  <2>1. SetTransactionModel(t, initial.model) \in State
    BY SwitchType
  <2>. QED BY <2>1, SetAutoCommitType DEF Reset
<1>. QED BY <1>1, <1>2, <1>3 DEF EndOfSession

LEMMA LogInType ==
    ASSUME dep \in Deployment, initial \in Initial, NEW s \in State
    PROVE  LogIn(s) \in State
<1> DEFINE a == be.autostart
           n == ~be.autostart
           f == IF s.dirty THEN "rolledback" ELSE s.fate
           t == [s EXCEPT !.auto = a, !.intx = n]
           u == [t EXCEPT !.dbauto = a, !.dbtx = FALSE]
           v == [u EXCEPT !.dirty = FALSE, !.fate = f]
<1>1. a \in BOOLEAN /\ n \in BOOLEAN
  BY DEF Deployment, Backend, be
<1>2. f \in {"none", "committed", "rolledback"}
  BY DEF State
<1>3. LogIn(s) = SetAutoCommit(v, initial.auto)
  BY DEF LogIn, State
<1> HIDE DEF a, n, f
<1>4. t \in State
  BY <1>1 DEF State
<1> HIDE DEF t
<1>5. u \in State
  BY <1>1, <1>4 DEF State
<1> HIDE DEF u
<1>6. v \in State
  BY <1>2, <1>5 DEF State
<1> HIDE DEF v
<1>. QED BY <1>3, <1>6, SetAutoCommitType DEF Initial

\* Types; among the states, _txmodel never becomes what is not a model, which
\* an _initialtxmodel that was never saved would make it.
THEOREM TransactionsTypeCorrect == Spec => []TypeOK
<1> USE TransactionsAssumption
<1>1. Init => TypeOK
  <2> SUFFICES ASSUME Init PROVE TypeOK
    OBVIOUS
  <2>1. dep \in Deployments /\ dep \in Deployment
    BY DEF Init
  <2>2. initial \in [model : dep.models, auto : BOOLEAN]
    BY DEF Init
  <2>3. initial \in Initial
    BY <2>1, <2>2 DEF Initial, Deployment
  <2>4. Constructed \in State
    BY <2>3 DEF Constructed, State, Initial, DbCalls
  <2>5. LogIn(Constructed) \in State
    BY <2>1, <2>3, <2>4, LogInType
  <2>6. failures \in 0 .. dep.failures
    BY <2>1 DEF Init, Deployment
  <2>. QED BY <2>1, <2>2, <2>5, <2>6 DEF Init, TypeOK
<1>2. TypeOK /\ [Next]_vars => TypeOK'
  <2> SUFFICES ASSUME TypeOK, [Next]_vars PROVE TypeOK'
    OBVIOUS
  <2>0. /\ dep \in Deployment /\ initial \in Initial /\ st \in State
        /\ failures \in 0 .. dep.failures /\ dep.failures \in Nat
    BY DEF TypeOK, Initial, Deployment
  <2>1. \A F \in SUBSET DbCalls : Asked(F) \in State
    BY <2>0 DEF Asked, State
  <2>2. \A t \in State : [t EXCEPT !.fails = {}] \in State
    BY DEF State
  <2>3. ASSUME NEW name, NEW F, F # {} => failures < dep.failures,
               NEW answer \in State, Request(name, F, answer)
        PROVE  TypeOK'
    <3>1. failures' \in 0 .. dep.failures
      BY <2>0, <2>3 DEF Request
    <3>2. st' \in State
      BY <2>2, <2>3 DEF Request
    <3>. QED BY <2>3, <3>1, <3>2 DEF Request, TypeOK
  <2>4. \A F \in Failing : F \in SUBSET DbCalls /\ (F # {} => failures < dep.failures)
    BY DEF Failing
  <2>5. \A t \in State, x \in BOOLEAN : MarkNeeds(t, x) \in State
    BY DEF MarkNeeds, State
  <2>6. /\ [st EXCEPT !.needs = FALSE, !.ok = TRUE, !.fate = "none"] \in State
        /\ [st EXCEPT !.fate = "none"] \in State
    BY <2>0 DEF State
  <2>7. CASE BeginSession
    BY <2>6, <2>7 DEF BeginSession, TypeOK
  <2>8. CASE EndSession
    <3>1. EndOfSession([st EXCEPT !.fate = "none"]) \in State
      BY <2>0, <2>6, EndOfSessionType
    <3>. QED BY <2>8, <3>1 DEF EndSession, TypeOK
  <2>9. CASE Reconnect
    <3>1. LogIn([st EXCEPT !.fate = "none"]) \in State
      BY <2>0, <2>6, LogInType
    <3>2. failures' \in 0 .. dep.failures
      BY <2>0, <2>9 DEF Reconnect
    <3>. QED BY <2>9, <3>1, <3>2 DEF Reconnect, TypeOK
  <2>10. CASE ClientBegin
    <3>1. PICK F \in Failing : Request("begin", F, Begin(Asked(F)))
      BY <2>10 DEF ClientBegin
    <3>2. Begin(Asked(F)) \in State
      BY <2>1, <2>4, OperationType
    <3>. QED BY <2>3, <2>4, <3>1, <3>2
  <2>11. CASE ClientCommit
    <3>1. PICK F \in Failing : Request("commit", F, Commit(Asked(F)))
      BY <2>11 DEF ClientCommit
    <3>2. Commit(Asked(F)) \in State
      BY <2>1, <2>4, OperationType
    <3>. QED BY <2>3, <2>4, <3>1, <3>2
  <2>12. CASE ClientRollback
    <3>1. PICK F \in Failing : Request("rollback", F, Rollback(Asked(F)))
      BY <2>12 DEF ClientRollback
    <3>2. Rollback(Asked(F)) \in State
      BY <2>1, <2>4, OperationType
    <3>. QED BY <2>3, <2>4, <3>1, <3>2
  <2>13. CASE AutoCommitOn
    <3>1. PICK F \in Failing : Request("on", F, SetAutoCommitOn(Asked(F)))
      BY <2>13 DEF AutoCommitOn
    <3>2. SetAutoCommitOn(Asked(F)) \in State
      BY <2>1, <2>4, OperationType
    <3>. QED BY <2>3, <2>4, <3>1, <3>2
  <2>14. CASE AutoCommitOff
    <3>1. PICK F \in Failing : Request("off", F, SetAutoCommitOff(Asked(F)))
      BY <2>14 DEF AutoCommitOff
    <3>2. SetAutoCommitOff(Asked(F)) \in State
      BY <2>1, <2>4, OperationType
    <3>. QED BY <2>3, <2>4, <3>1, <3>2
  <2>15. ASSUME NEW m \in dep.models, Switch(m) PROVE TypeOK'
    <3>1. PICK F \in Failing :
            Request("switch", F, SetTransactionModel(Asked(F), m))
      BY <2>15 DEF Switch
    <3>2. m \in TxModels
      BY <2>0 DEF Deployment
    <3>3. SetTransactionModel(Asked(F), m) \in State
      BY <2>0, <2>1, <2>4, <3>2, SwitchType
    <3>. QED BY <2>3, <2>4, <3>1, <3>3
  <2>16. /\ Query(Asked({})) \in State /\ DbExecute(Asked({})) \in State
         /\ Asked({}) \in State
    BY <2>1, OperationType, DbType
  <2>17. CASE Execute
    BY <2>3, <2>16, <2>17 DEF Execute
  <2>18. CASE CreateTemp
    <3>1. [Query(Asked({})) EXCEPT !.temp = TRUE] \in State
      BY <2>16 DEF State
    <3>. QED BY <2>3, <2>18, <3>1 DEF CreateTemp
  <2>19. CASE SelectForUpdate
    BY <2>3, <2>16, <2>19 DEF SelectForUpdate
  <2>20. CASE RollbackToSavepoint
    BY <2>3, <2>5, <2>16, <2>20 DEF RollbackToSavepoint
  <2>21. CASE HiddenBegin
    <3>1. [DbExecute(Asked({})) EXCEPT !.dbtx = TRUE] \in State
      BY <2>16 DEF State
    <3>. QED BY <2>3, <2>5, <2>21, <3>1 DEF HiddenBegin
  <2>22. CASE SettingsOn \/ SettingsOff
    BY <2>3, <2>16, <2>22, SettingsType DEF SettingsOn, SettingsOff
  <2>23. CASE UNCHANGED vars
    BY <2>23 DEF vars, TypeOK
  <2>. QED BY <2>7, <2>8, <2>9, <2>10, <2>11, <2>12, <2>13, <2>14, <2>15,
           <2>17, <2>18, <2>19, <2>20, <2>21, <2>22, <2>23 DEF Next
<1>. QED BY <1>1, <1>2, PTL DEF Spec

-----------------------------------------------------------------------------
(* What the calls on the database and the end of a transaction change.     *)

SameControl(s, r) ==
    /\ r.model = s.model /\ r.auto = s.auto /\ r.intx = s.intx /\ r.eot = s.eot
    /\ r.temp = s.temp /\ r.fails = s.fails

SameWork(s, r) == r.dirty = s.dirty /\ r.fate = s.fate

SameDatabase(s, r) ==
    r.dbauto = s.dbauto /\ r.dbtx = s.dbtx /\ SameWork(s, r)

\* All the same but for whether the request succeeded.
Same(s, r) ==
    SameControl(s, r) /\ SameDatabase(s, r) /\ r.needs = s.needs

\* Work that is uncommitted is over.
WorkOver(s, r, how) ==
    /\ ~r.dirty
    /\ r.fate = IF s.dirty /\ s.fate = "none" THEN how ELSE s.fate

LEMMA AnswerEffect ==
    ASSUME NEW s \in State
    PROVE  /\ Same(s, Succeed(s)) /\ Succeed(s).ok
           /\ Same(s, Fail(s)) /\ ~Fail(s).ok
BY DEF State, Succeed, Fail, Same, SameControl, SameDatabase, SameWork

EndEffect(s, r, fails, how) ==
    /\ SameControl(s, r) /\ r.needs = s.needs /\ r.dbauto = s.dbauto
    /\ r.ok <=> ~fails
    /\ fails => Same(s, r)
    /\ ~fails => ~r.dbtx /\ WorkOver(s, r, how)

LEMMA EndedEffect ==
    ASSUME NEW s \in State, NEW how \in {"committed", "rolledback"}
    PROVE  EndEffect(s, Ended(s, how), FALSE, how)
<1> DEFINE f == IF s.dirty /\ s.fate = "none" THEN how ELSE s.fate
<1>1. Ended(s, how) = [s EXCEPT !.ok = TRUE, !.dbtx = FALSE, !.dirty = FALSE,
                                !.fate = f]
  BY DEF Ended, State
<1>. QED
  BY <1>1 DEF State, EndEffect, SameControl, Same, WorkOver

LEMMA DbEndEffect ==
    ASSUME NEW s \in State
    PROVE  /\ EndEffect(s, DbCommit(s), CannotEnd(s, "commit"), "committed")
           /\ EndEffect(s, DbRollback(s), CannotEnd(s, "rollback"), "rolledback")
<1>1. CannotEnd(s, "commit") \in BOOLEAN /\ CannotEnd(s, "rollback") \in BOOLEAN
  BY DEF CannotEnd
<1>2. ASSUME NEW fails \in BOOLEAN, NEW how \in {"committed", "rolledback"}
      PROVE  EndEffect(s, IF fails THEN Fail(s) ELSE Ended(s, how), fails, how)
  <2>1. CASE fails
    BY <2>1, AnswerEffect DEF EndEffect, Same, SameDatabase
  <2>2. CASE ~fails
    BY <2>2, EndedEffect
  <2>. QED BY <2>1, <2>2
<1>. QED BY <1>1, <1>2 DEF DbCommit, DbRollback

BeginEffect(s, r) ==
    /\ SameControl(s, r) /\ SameWork(s, r) /\ r.dbauto = s.dbauto
    /\ r.ok <=> "begin" \notin s.fails
    /\ ~r.ok => Same(s, r)
    /\ r.ok => /\ r.needs
               /\ r.dbtx = (s.dbtx \/ s.dbauto \/ be.native # "explicit")

LEMMA DbBeginEffect ==
    ASSUME NEW s \in State
    PROVE  BeginEffect(s, DbBegin(s))
<1>1. CASE "begin" \in s.fails
  BY <1>1, AnswerEffect DEF DbBegin, BeginEffect, Same, SameDatabase
<1>2. CASE "begin" \notin s.fails /\ ~s.dbauto /\ be.native = "explicit"
  BY <1>2 DEF DbBegin, BeginEffect, State, SameControl, SameWork
<1>3. CASE "begin" \notin s.fails /\ ~(~s.dbauto /\ be.native = "explicit")
  BY <1>3 DEF DbBegin, BeginEffect, State, SameControl, SameWork
<1>. QED BY <1>1, <1>2, <1>3

OnEffect(s, r) ==
    /\ SameControl(s, r) /\ r.needs = s.needs
    /\ r.ok <=> "autocommiton" \notin s.fails
    /\ ~r.ok => Same(s, r)
    /\ r.ok => r.dbauto
    /\ r.ok /\ s.dbauto => Same(s, r)
    /\ r.ok /\ ~s.dbauto => ~r.dbtx /\ WorkOver(s, r, "committed")

LEMMA DbAutoOnEffect ==
    ASSUME NEW s \in State
    PROVE  OnEffect(s, DbAutoOn(s))
<1>1. CASE "autocommiton" \in s.fails
  BY <1>1, AnswerEffect DEF DbAutoOn, OnEffect, Same
<1>2. CASE "autocommiton" \notin s.fails /\ s.dbauto
  BY <1>2, AnswerEffect DEF DbAutoOn, OnEffect, Same, SameDatabase
<1>3. CASE "autocommiton" \notin s.fails /\ ~s.dbauto
  <2> DEFINE e == Ended(s, "committed")
  <2>1. e \in State
    BY DEF Ended, State
  <2>2. EndEffect(s, e, FALSE, "committed")
    BY EndedEffect
  <2>3. DbAutoOn(s) = [e EXCEPT !.dbauto = TRUE]
    BY <1>3 DEF DbAutoOn
  <2> HIDE DEF e
  <2>. QED
    BY <1>3, <2>1, <2>2, <2>3
    DEF State, OnEffect, EndEffect, SameControl, WorkOver
<1>. QED BY <1>1, <1>2, <1>3

OffEffect(s, r) ==
    /\ SameControl(s, r) /\ SameWork(s, r) /\ r.needs = s.needs
    /\ r.dbtx = s.dbtx
    /\ r.ok <=> "autocommitoff" \notin s.fails
    /\ r.dbauto = (s.dbauto /\ ~r.ok)

LEMMA DbAutoOffEffect ==
    ASSUME NEW s \in State
    PROVE  OffEffect(s, DbAutoOff(s))
<1>1. CASE "autocommitoff" \in s.fails
  BY <1>1, AnswerEffect DEF DbAutoOff, OffEffect, Same, SameDatabase, State
<1>2. CASE "autocommitoff" \notin s.fails
  BY <1>2 DEF DbAutoOff, OffEffect, State, SameControl, SameWork
<1>. QED BY <1>1, <1>2

\* endTransaction: with an autocommit of its own the database is out of the
\* transaction, with none it begins another one, or nothing is left to do.
FollowUp(s, d) ==
    IF s.model = "deferred"
    THEN IF be.native = "implicit"
         THEN IF s.eot THEN OnEffect(s, d) ELSE OffEffect(s, d)
         ELSE IF s.eot THEN d = s ELSE BeginEffect(s, d)
    ELSE IF s.model = "implicit"
    THEN IF be.native = "implicit" \/ s.auto \/ be.hasac THEN d = s
                                                       ELSE BeginEffect(s, d)
    ELSE IF be.hasac THEN OnEffect(s, d) ELSE d = s

AfterEffect(s, r) ==
    /\ r.ok /\ ~r.needs /\ r.intx = ~r.auto
    /\ r.model = s.model /\ r.temp = s.temp /\ r.fails = s.fails
    /\ r.auto = IF s.model = "deferred" THEN s.eot
               ELSE s.model # "implicit" \/ s.auto
    /\ r.eot = (s.eot /\ s.model # "deferred")
    /\ \E d \in State : SameDatabase(d, r) /\ FollowUp(s, d)

LEMMA EndTransactionEffect ==
    ASSUME NEW s \in State
    PROVE  AfterEffect(s, EndTransaction(s))
<1> DEFINE t == AfterTransaction(s)
<1>1. EndTransaction(s) = [t EXCEPT !.ok = TRUE, !.intx = ~t.auto, !.needs = FALSE]
  BY DEF EndTransaction
<1>2. /\ DbAutoOn(s) \in State /\ DbAutoOff(s) \in State /\ DbBegin(s) \in State
      /\ OnEffect(s, DbAutoOn(s)) /\ OffEffect(s, DbAutoOff(s))
      /\ BeginEffect(s, DbBegin(s))
  BY DbType, DbAutoOnEffect, DbAutoOffEffect, DbBeginEffect
<1> DEFINE r == EndTransaction(s)
<1>3. ASSUME t \in State
      PROVE  /\ r.ok /\ ~r.needs /\ r.intx = ~t.auto
             /\ r.auto = t.auto /\ r.eot = t.eot /\ SameDatabase(t, r)
             /\ r.model = t.model /\ r.temp = t.temp /\ r.fails = t.fails
  <2> HIDE DEF t
  <2>. QED BY <1>1, <1>3 DEF State, SameDatabase, SameWork
<1> HIDE DEF r
<1>. SUFFICES AfterEffect(s, r)
  BY DEF r
<1>4. CASE s.model = "deferred"
  <2> DEFINE d == IF be.native = "implicit"
                  THEN IF s.eot THEN DbAutoOn(s) ELSE DbAutoOff(s)
                  ELSE IF s.eot THEN s ELSE DbBegin(s)
  <2>1. t = [d EXCEPT !.auto = s.eot, !.eot = FALSE]
    BY <1>4 DEF AfterTransaction, AfterDeferred, FakingExplicit
  <2>2. d \in State
    BY <1>2
  <2>3. FollowUp(s, d)
    BY <1>2, <1>4 DEF FollowUp
  <2>4. SameControl(s, d)
    BY <1>4, <2>3 DEF FollowUp, OnEffect, OffEffect, BeginEffect, SameControl
  <2>5. s.eot \in BOOLEAN
    BY DEF State
  <2> HIDE DEF d
  <2>6. /\ t \in State /\ SameDatabase(d, t)
        /\ t.auto = s.eot /\ ~t.eot
        /\ t.model = d.model /\ t.temp = d.temp /\ t.fails = d.fails
    BY <2>1, <2>2, <2>5 DEF State, SameDatabase, SameWork
  <2> HIDE DEF t
  <2>7. SameDatabase(d, r)
    BY <1>3, <2>6 DEF SameDatabase, SameWork
  <2>8. \E e \in State : SameDatabase(e, r) /\ FollowUp(s, e)
    BY <2>2, <2>3, <2>7
  <2>. QED
    BY <1>3, <1>4, <2>4, <2>6, <2>8 DEF AfterEffect, SameControl, State
<1>5. CASE s.model = "implicit"
  <2> DEFINE d == IF be.native = "implicit" \/ s.auto \/ be.hasac THEN s
                  ELSE DbBegin(s)
  <2>1. t = d
    BY <1>5 DEF AfterTransaction, AfterFakedImplicit, FakingImplicit,
                FakingExplicit, SupportsExplicit
  <2>2. d \in State
    BY <1>2
  <2>3. FollowUp(s, d)
    BY <1>2, <1>5 DEF FollowUp
  <2>4. SameControl(s, d)
    BY <1>5, <2>3 DEF FollowUp, BeginEffect, SameControl
  <2>5. s.auto \in BOOLEAN
    BY DEF State
  <2> HIDE DEF d
  <2> HIDE DEF t
  <2>7. SameDatabase(d, r)
    BY <1>3, <2>1, <2>2
  <2>8. \E e \in State : SameDatabase(e, r) /\ FollowUp(s, e)
    BY <2>2, <2>3, <2>7
  <2>. QED
    BY <1>3, <1>5, <2>1, <2>2, <2>4, <2>5, <2>8
    DEF AfterEffect, SameControl, State
<1>6. CASE s.model \notin {"deferred", "implicit"}
  <2> DEFINE d == IF be.hasac THEN DbAutoOn(s) ELSE s
  <2>1. t = [d EXCEPT !.auto = TRUE]
    BY <1>6 DEF AfterTransaction, AfterExplicit, FakingImplicit, FakingExplicit,
                SupportsExplicit
  <2>2. d \in State
    BY <1>2
  <2>3. FollowUp(s, d)
    BY <1>2, <1>6 DEF FollowUp
  <2>4. SameControl(s, d)
    BY <1>6, <2>3 DEF FollowUp, OnEffect, SameControl
  <2> HIDE DEF d
  <2>6. /\ t \in State /\ SameDatabase(d, t)
        /\ t.auto /\ t.eot = d.eot
        /\ t.model = d.model /\ t.temp = d.temp /\ t.fails = d.fails
    BY <2>1, <2>2 DEF State, SameDatabase, SameWork
  <2> HIDE DEF t
  <2>7. SameDatabase(d, r)
    BY <1>3, <2>6 DEF SameDatabase, SameWork
  <2>8. \E e \in State : SameDatabase(e, r) /\ FollowUp(s, e)
    BY <2>2, <2>3, <2>7
  <2>9. s.eot \in BOOLEAN /\ t.auto \in BOOLEAN
    BY <2>6 DEF State
  <2>. QED BY <1>3, <1>6, <2>4, <2>6, <2>8, <2>9 DEF AfterEffect, SameControl
<1>. QED BY <1>4, <1>5, <1>6

-----------------------------------------------------------------------------
(* What holds between the controller and the database, kind by kind.        *)

Open(s) == ~s.dbauto \/ s.dbtx
Begun(s) == s.model = "deferred" /\ s.eot /\ Open(s)

\* The controller agrees with the database, and endSession will not overlook
\* uncommitted work.
Agrees(s) ==
    /\ s.auto = ~Open(s) /\ s.intx = ~s.auto
    /\ s.dirty => Open(s) /\ Owes(s)

\* What each kind of deployment adds to it, between requests and between the
\* operations that a request is made of.
TracksBegins(s) ==
    /\ BeginsAlways(dep) /\ s.fails = {}
    /\ s.dbauto
    /\ s.model = "none" => s.auto
    /\ s.dbtx /\ s.model = "error" => s.needs
    /\ s.dbtx /\ s.model = "deferred" /\ s.eot => s.needs

TracksImplicitly(s) ==
    /\ Implicitly(dep) /\ s.fails = {}
    /\ ~s.dbtx

TracksDeferred(s) ==
    /\ Deferred(dep)
    /\ ~s.auto => s.dbauto = s.eot
    /\ ~s.auto /\ s.eot => s.needs

TracksByAutocommit(s) ==
    /\ ByAutocommit(dep) /\ s.fails = {}
    /\ ~s.dbtx

TracksByBegin(s) ==
    /\ ByBegin(dep) /\ s.fails = {}
    /\ IF s.model = "implicit" THEN ~s.dbauto /\ ~s.dbtx
       ELSE s.dbauto /\ (s.dbtx => s.needs)
    /\ s.model = "deferred" /\ ~s.auto => s.eot

Tracks(s) ==
    /\ s \in State /\ s.model \in dep.models /\ Agrees(s)
    /\ \/ TracksBegins(s) \/ TracksImplicitly(s) \/ TracksDeferred(s)
       \/ TracksByAutocommit(s) \/ TracksByBegin(s)

\* What becomes of the transaction, as TransactionModel has it.
Stays(s, r) ==
    /\ r.model = s.model /\ Open(r) = Open(s) /\ Begun(r) = Begun(s)
    /\ SameWork(s, r)

Ends(s, r, how) ==
    /\ r.ok /\ r.model = s.model /\ WorkOver(s, r, how)
    /\ Open(r) = (/\ Open(s)
                 /\ \/ s.model = "implicit"
                    \/ s.model = "deferred" /\ ~Begun(s))
    /\ ~Begun(r)

Failed(s, r) == ~r.ok /\ s.fails # {} /\ Stays(s, r)

LEMMA SameTracks ==
    ASSUME NEW s, Tracks(s), NEW r \in State, Same(s, r)
    PROVE  Tracks(r) /\ Stays(s, r)
<1> USE DEF Same, SameControl, SameDatabase, SameWork, Open
<1>1. r.model = s.model /\ r.model \in dep.models
  BY DEF Tracks
<1>2. Agrees(r)
  BY DEF Tracks, Agrees, Owes, FakingExplicit, FakingImplicit
<1>3. TracksBegins(s) => TracksBegins(r)
  BY DEF TracksBegins
<1>4. TracksImplicitly(s) => TracksImplicitly(r)
  BY DEF TracksImplicitly
<1>5. TracksDeferred(s) => TracksDeferred(r)
  BY DEF TracksDeferred
<1>6. TracksByAutocommit(s) => TracksByAutocommit(r)
  BY DEF TracksByAutocommit
<1>7. TracksByBegin(s) => TracksByBegin(r)
  BY DEF TracksByBegin
<1>. QED
  BY <1>1, <1>2, <1>3, <1>4, <1>5, <1>6, <1>7 DEF Tracks, Stays, Begun

LEMMA NoneIsAuto ==
    ASSUME NEW s, Tracks(s), s.model = "none"
    PROVE  s.auto
BY DEF Tracks, TracksBegins, TracksImplicitly, TracksDeferred, TracksByAutocommit,
       TracksByBegin, Implicitly, Deferred, ByAutocommit, ByBegin

LEMMA EndTracks ==
    ASSUME dep \in Deployment, NEW s, Tracks(s), NEW call \in DbCalls, NEW t \in State,
           NEW how \in {"committed", "rolledback"},
           EndEffect(s, t, CannotEnd(s, call), how),
           NEW r \in State,
           r = IF s.model = "none" \/ s.auto THEN Succeed(s)
               ELSE IF ~s.intx THEN Fail(s)
               ELSE IF t.ok THEN EndTransaction(t) ELSE t
    PROVE  Tracks(r) /\ (Ends(s, r, how) \/ Failed(s, r))
<1>1. CASE s.model = "none" \/ s.auto
  <2>1. Same(s, r) /\ r.ok
    BY <1>1, AnswerEffect DEF Tracks
  <2>2. Tracks(r) /\ Stays(s, r)
    BY <2>1, SameTracks
  <2>3. s.auto /\ ~Open(s) /\ ~s.dirty
    BY <1>1, NoneIsAuto DEF Tracks, Agrees
  <2>. QED BY <2>1, <2>2, <2>3 DEF Ends, Stays, SameWork, WorkOver, Begun, Open
<1>2. CASE ~(s.model = "none" \/ s.auto) /\ ~t.ok
  <2>1. s.intx /\ r = t
    BY <1>2 DEF Tracks, Agrees
  <2>2. CannotEnd(s, call) /\ Same(s, t)
    BY <1>2 DEF EndEffect
  <2>3. Tracks(r) /\ Stays(s, r)
    BY <2>1, <2>2, SameTracks
  <2>4. s.fails # {}
    BY <1>2, <2>2
    DEF CannotEnd, Tracks, Agrees, TracksBegins, TracksImplicitly, TracksDeferred,
        TracksByAutocommit, TracksByBegin, Implicitly, Deferred, ByAutocommit,
        ByBegin, be, Open, State
  <2>. QED BY <1>2, <2>1, <2>3, <2>4 DEF Failed
<1>3. CASE ~(s.model = "none" \/ s.auto) /\ t.ok
  <2>1. AfterEffect(t, r)
    BY <1>3, EndTransactionEffect DEF Tracks, Agrees
  <2>2. PICK d \in State : SameDatabase(d, r) /\ FollowUp(t, d)
    BY <2>1 DEF AfterEffect
  <2>3. /\ s.intx /\ Open(s) /\ ~s.auto
        /\ SameControl(s, t) /\ ~t.dbtx /\ t.dbauto = s.dbauto /\ WorkOver(s, t, how)
    BY <1>3 DEF EndEffect, Tracks, Agrees
  <2>4. /\ r.model = s.model /\ r.model \in dep.models /\ r.fails = s.fails
        /\ r.auto = (IF s.model = "deferred" THEN s.eot ELSE s.model # "implicit")
        /\ r.intx = ~r.auto /\ r.ok /\ ~r.needs /\ r.eot = (s.eot /\ s.model # "deferred")
    BY <2>1, <2>3 DEF AfterEffect, SameControl, Tracks, State
  <2>5. WorkOver(s, r, how)
    BY <2>2, <2>3 DEF FollowUp, OnEffect, OffEffect, BeginEffect, WorkOver, SameDatabase,
            Same, SameWork
  <2>6. /\ s.model \in TxModels /\ s.eot \in BOOLEAN /\ s.dbauto \in BOOLEAN
        /\ t.dbtx = FALSE /\ t.auto = FALSE /\ t.eot = s.eot /\ t.model = s.model
        /\ d.dbtx \in BOOLEAN /\ d.dbauto \in BOOLEAN
        /\ s.dirty \in BOOLEAN
    BY <1>3, <2>3 DEF Tracks, State, SameControl
  <2>7. CASE TracksBegins(s)
    <3>1. s.dbauto /\ s.fails = {} /\ ~be.hasac /\ be.native \in {"explicit", "error"}
      BY <2>7 DEF TracksBegins, BeginsAlways, Begins, be
    <3>2. /\ r.dbauto
          /\ r.dbtx = (~r.auto /\ s.model \in {"implicit", "deferred"})
      BY <2>2, <2>3, <2>4, <2>6, <3>1
      DEF FollowUp, BeginEffect, SameDatabase, SameControl
    <3>3. TracksBegins(r) /\ Agrees(r) /\ Ends(s, r, how)
      BY <2>3, <2>4, <2>5, <2>6, <2>7, <3>1, <3>2
      DEF TracksBegins, Agrees, Ends, Open, Begun, WorkOver
    <3>. QED BY <2>4, <3>3 DEF Tracks
  <2>8. CASE TracksImplicitly(s)
    <3>1. /\ be.native = "implicit" /\ be.hasac /\ s.fails = {}
          /\ s.model \in {"implicit", "explicit", "deferred"} /\ ~s.dbauto
      BY <1>3, <2>3, <2>6, <2>8
      DEF TracksImplicitly, Implicitly, be, Tracks, TxModels, Open
    <3>2. ~r.dbtx /\ r.dbauto = r.auto
      BY <2>2, <2>3, <2>4, <2>6, <3>1
      DEF FollowUp, OnEffect, OffEffect, SameDatabase, SameControl, Same
    <3>3. TracksImplicitly(r) /\ Agrees(r) /\ Ends(s, r, how)
      BY <2>3, <2>4, <2>5, <2>6, <2>8, <3>1, <3>2
      DEF TracksImplicitly, Agrees, Ends, Open, Begun, WorkOver
    <3>. QED BY <2>4, <3>3 DEF Tracks
  <2>9. CASE TracksDeferred(s)
    <3>1. /\ be.native = "deferred" /\ s.model = "deferred"
          /\ s.dbauto = s.eot
      BY <1>3, <2>3, <2>9 DEF TracksDeferred, Deferred, be, Tracks, Agrees, Open
    <3>2. r.dbauto = s.eot /\ (s.eot => ~r.dbtx)
      BY <2>2, <2>3, <2>4, <2>6, <3>1
      DEF FollowUp, BeginEffect, SameDatabase, SameControl, Same
    <3>3. TracksDeferred(r) /\ Agrees(r) /\ Ends(s, r, how)
      BY <2>3, <2>4, <2>5, <2>6, <2>9, <3>1, <3>2
      DEF TracksDeferred, Agrees, Ends, Open, Begun, WorkOver
    <3>. QED BY <2>4, <3>3 DEF Tracks
  <2>10. CASE TracksByAutocommit(s)
    <3>1. /\ be.native # "implicit" /\ be.hasac /\ s.fails = {}
          /\ s.model = "explicit"
      BY <1>3, <2>3, <2>10 DEF TracksByAutocommit, ByAutocommit, be, Tracks, Agrees, Open
    <3>2. r.dbauto /\ ~r.dbtx
      BY <2>2, <2>3, <2>4, <2>6, <3>1
      DEF FollowUp, OnEffect, SameDatabase, SameControl, Same
    <3>3. TracksByAutocommit(r) /\ Agrees(r) /\ Ends(s, r, how)
      BY <2>3, <2>4, <2>5, <2>6, <2>10, <3>1, <3>2
      DEF TracksByAutocommit, Agrees, Ends, Open, Begun, WorkOver
    <3>. QED BY <2>4, <3>3 DEF Tracks
  <2>11. CASE TracksByBegin(s)
    <3>1. /\ be.native = "explicit" /\ be.hasac /\ s.fails = {}
          /\ IF s.model = "implicit" THEN ~s.dbauto ELSE s.dbauto
          /\ s.model = "deferred" => s.eot
      BY <1>3, <2>3, <2>11 DEF TracksByBegin, ByBegin, be, Tracks, Agrees, Open
    <3>2. ~r.dbtx /\ r.dbauto = r.auto
      BY <2>2, <2>3, <2>4, <2>6, <3>1
      DEF FollowUp, OnEffect, SameDatabase, SameControl, Same
    <3>3. TracksByBegin(r) /\ Agrees(r) /\ Ends(s, r, how)
      BY <2>3, <2>4, <2>5, <2>6, <2>11, <3>1, <3>2
      DEF TracksByBegin, Agrees, Ends, Open, Begun, WorkOver
    <3>. QED BY <2>4, <3>3 DEF Tracks
  <2>. QED BY <2>7, <2>8, <2>9, <2>10, <2>11 DEF Tracks
<1>. QED BY <1>1, <1>2, <1>3

\* commit and rollback end the transaction.
LEMMA CommitTracks ==
    ASSUME dep \in Deployment, NEW s, Tracks(s)
    PROVE  /\ Tracks(Commit(s))
           /\ Ends(s, Commit(s), "committed") \/ Failed(s, Commit(s))
<1> DEFINE t == DbCommit(s)
           r == Commit(s)
<1>1. s \in State /\ t \in State /\ r \in State
  BY DbType, OperationType DEF Tracks
<1>2. EndEffect(s, t, CannotEnd(s, "commit"), "committed") /\ "commit" \in DbCalls
  BY <1>1, DbEndEffect DEF DbCalls
<1>3. r = IF s.model = "none" \/ s.auto THEN Succeed(s)
          ELSE IF ~s.intx THEN Fail(s)
          ELSE IF t.ok THEN EndTransaction(t) ELSE t
  BY DEF Commit, Bail
<1> HIDE DEF t, r
<1>. QED BY <1>1, <1>2, <1>3, EndTracks DEF r

LEMMA RollbackTracks ==
    ASSUME dep \in Deployment, NEW s, Tracks(s)
    PROVE  /\ Tracks(Rollback(s))
           /\ Ends(s, Rollback(s), "rolledback") \/ Failed(s, Rollback(s))
<1> DEFINE t == DbRollback(s)
           r == Rollback(s)
<1>1. s \in State /\ t \in State /\ r \in State
  BY DbType, OperationType DEF Tracks
<1>2. EndEffect(s, t, CannotEnd(s, "rollback"), "rolledback") /\ "rollback" \in DbCalls
  BY <1>1, DbEndEffect DEF DbCalls
<1>3. r = IF s.model = "none" \/ s.auto THEN Succeed(s)
          ELSE IF ~s.intx THEN Fail(s)
          ELSE IF t.ok THEN EndTransaction(t) ELSE t
  BY DEF Rollback, Bail
<1> HIDE DEF t, r
<1>. QED BY <1>1, <1>2, <1>3, EndTracks DEF r

\* The transaction is open, and autocommit off.
StartEffect(t, r, eot) ==
    /\ r.ok /\ r.intx /\ ~r.auto /\ r.model = t.model /\ r.eot = eot
    /\ r.needs = t.needs /\ r.fails = t.fails /\ r.temp = t.temp /\ SameDatabase(t, r)

LEMMA BeginTransactionEffect ==
    ASSUME NEW t \in State, NEW eot \in BOOLEAN
    PROVE  StartEffect(t, BeginTransaction([t EXCEPT !.eot = eot]), eot)
BY DEF State, BeginTransaction, StartEffect, SameDatabase, SameWork

Starts(s, r) ==
    /\ r.ok /\ r.model = s.model
    /\ \/ /\ s.model # "none" /\ ~Open(s)
          /\ Open(r) /\ Begun(r) = (s.model = "deferred") /\ SameWork(s, r)
       \/ (Open(s) \/ s.model \in {"none", "implicit"}) /\ Stays(s, r)

LEMMA BeginTracks ==
    ASSUME dep \in Deployment, NEW s, Tracks(s), "begin" \in dep.uses
    PROVE  Tracks(Begin(s)) /\ (Starts(s, Begin(s)) \/ Failed(s, Begin(s)))
<1> DEFINE t == IF FakingExplicit(s) THEN DbAutoOff(s) ELSE DbBegin(s)
           eot == t.eot \/ s.model = "deferred"
           r == Begin(s)
<1>1. s \in State /\ t \in State /\ r \in State
  BY DbType, OperationType DEF Tracks
<1>2. IF FakingExplicit(s) THEN OffEffect(s, t) ELSE BeginEffect(s, t)
  BY <1>1, DbAutoOffEffect, DbBeginEffect
<1>3. s.auto = ~Open(s) /\ s.intx = ~s.auto /\ s.model \in TxModels
  BY <1>1 DEF Tracks, Agrees, State
<1>4. CASE s.model = "none" \/ ~s.auto \/ (be.native = "implicit" /\ s.model = "implicit")
  <2>1. r = Succeed(s)
    BY <1>3, <1>4 DEF Begin, SupportsExplicit, FakingExplicit
  <2>2. Same(s, r) /\ r.ok
    BY <1>1, <2>1, AnswerEffect
  <2>3. Tracks(r) /\ Stays(s, r)
    BY <1>1, <2>2, SameTracks
  <2>. QED BY <1>3, <1>4, <2>2, <2>3 DEF Starts, Stays
<1>5. CASE /\ s.model # "none" /\ s.auto
           /\ ~(be.native = "implicit" /\ s.model = "implicit")
  <2>1. r = IF t.ok THEN BeginTransaction([t EXCEPT !.eot = eot]) ELSE t
    BY <1>1, <1>3, <1>5 DEF Begin, Bail, SupportsExplicit, FakingExplicit, State
  <2>2. eot \in BOOLEAN
    OBVIOUS
  <2> HIDE DEF t, r, eot
  <2>3. CASE ~t.ok
    <3>1. Same(s, t) /\ s.fails # {}
      BY <1>1, <1>2, <2>3
      DEF OffEffect, BeginEffect, Same, SameDatabase, State
    <3>. QED BY <1>1, <2>1, <2>3, <3>1, SameTracks DEF Failed, r
  <2>4. CASE t.ok
    <3>1. StartEffect(t, r, eot)
      BY <1>1, <2>1, <2>2, <2>4, BeginTransactionEffect
    <3>2. /\ s.dbauto /\ ~s.dbtx /\ s.auto = TRUE /\ ~s.dirty
          /\ SameControl(s, t) /\ SameWork(s, t)
          /\ IF be.native = "implicit" THEN ~t.dbauto /\ ~t.dbtx
             ELSE t.dbauto /\ t.dbtx /\ t.needs
      BY <1>1, <1>2, <1>3, <1>5, <2>4
      DEF OffEffect, BeginEffect, FakingExplicit, Open, State, SameControl, Tracks,
          Agrees
    <3>3. /\ r.ok /\ r.model = s.model /\ SameWork(s, r) /\ Open(r) /\ ~r.auto
          /\ r.intx /\ ~r.dirty /\ r.fails = s.fails
          /\ IF be.native = "implicit" THEN ~r.dbauto /\ ~r.dbtx
             ELSE r.dbauto /\ r.dbtx /\ r.needs
          /\ s.model = "deferred" => r.eot
      BY <3>1, <3>2 DEF StartEffect, SameControl, SameDatabase, SameWork, Open, eot
    <3>4. Starts(s, r)
      BY <1>3, <1>5, <3>3 DEF Starts, Begun
    <3>5. Agrees(r)
      BY <1>1, <3>3 DEF Agrees, State
    <3>6. \/ TracksBegins(r) \/ TracksImplicitly(r) \/ TracksDeferred(r)
          \/ TracksByAutocommit(r) \/ TracksByBegin(r)
      <4>1. CASE TracksBegins(s)
        BY <1>3, <1>5, <3>3, <4>1 DEF TracksBegins, BeginsAlways, Begins, be
      <4>2. CASE TracksImplicitly(s)
        BY <1>3, <1>5, <3>3, <4>2 DEF TracksImplicitly, Implicitly, be
      <4>3. CASE TracksDeferred(s)
        <5>1. s.model = "deferred" /\ be.native # "implicit"
          BY <4>3 DEF TracksDeferred, Deferred, be, Tracks
        <5>. QED BY <3>3, <4>3, <5>1, <1>1 DEF TracksDeferred, State
      <4>4. CASE TracksByAutocommit(s)
        BY <4>4 DEF TracksByAutocommit, ByAutocommit
      <4>5. CASE TracksByBegin(s)
        <5>1. s.model # "implicit" /\ be.native # "implicit"
          BY <3>2, <4>5 DEF TracksByBegin, ByBegin, be
        <5>. QED BY <3>3, <4>5, <5>1 DEF TracksByBegin
      <4>. QED BY <4>1, <4>2, <4>3, <4>4, <4>5 DEF Tracks
    <3>. QED BY <1>1, <3>3, <3>4, <3>5, <3>6 DEF Tracks, r
  <2>. QED BY <2>3, <2>4
<1>. QED BY <1>4, <1>5

\* setAutoCommitOn ends the transaction, unless a begin deferred it or the model
\* makes an error of it.
TurnsOn(s, r) ==
    /\ r.model = s.model
    /\ \/ /\ r.ok /\ ~Begun(s) /\ ~(s.model = "error" /\ Open(s))
          /\ ~Open(r) /\ WorkOver(s, r, "committed")
       \/ r.ok /\ Begun(s) /\ Stays(s, r)
       \/ ~r.ok /\ s.model = "error" /\ Open(s) /\ Stays(s, r)

Closed(s) == s.auto /\ ~s.intx /\ s.dbauto /\ ~s.dbtx /\ ~s.dirty

LEMMA ClosedTracks ==
    ASSUME NEW s, Tracks(s),
           NEW r \in State, r.model \in dep.models, r.fails = s.fails, Closed(r),
           ByBegin(dep) => r.model # "implicit"
    PROVE  Tracks(r)
<1>1. Agrees(r)
  BY DEF Closed, Agrees, Open, State
<1>2. TracksBegins(s) => TracksBegins(r)
  BY DEF TracksBegins, Closed
<1>3. TracksImplicitly(s) => TracksImplicitly(r)
  BY DEF TracksImplicitly, Closed
<1>4. TracksDeferred(s) => TracksDeferred(r)
  BY DEF TracksDeferred, Closed
<1>5. TracksByAutocommit(s) => TracksByAutocommit(r)
  BY DEF TracksByAutocommit, Closed
<1>6. TracksByBegin(s) => TracksByBegin(r)
  BY DEF TracksByBegin, Closed
<1>. QED BY <1>1, <1>2, <1>3, <1>4, <1>5, <1>6 DEF Tracks

LEMMA OnTracks ==
    ASSUME dep \in Deployment, NEW s, Tracks(s),
           ByBegin(dep) => s.model # "implicit" /\ ~Open(s)
    PROVE  /\ Tracks(SetAutoCommitOn(s))
           /\ TurnsOn(s, SetAutoCommitOn(s)) \/ Failed(s, SetAutoCommitOn(s))
<1> DEFINE t == IF be.hasac THEN DbAutoOn(s) ELSE DbCommit(s)
           eot == t.eot \/ s.model = "deferred"
           auto == t.auto \/ be.hasac \/ FakingImplicit(s)
           r == SetAutoCommitOn(s)
<1>1. s \in State /\ t \in State /\ r \in State
  BY DbType, OperationType DEF Tracks
<1>2. IF be.hasac THEN OnEffect(s, t)
      ELSE EndEffect(s, t, CannotEnd(s, "commit"), "committed")
  BY <1>1, DbAutoOnEffect, DbEndEffect
<1>3. /\ s.auto = ~Open(s) /\ s.intx = ~s.auto /\ s.model \in TxModels
      /\ s.dirty => Open(s)
      /\ s.model = "none" => s.auto
  BY <1>1, NoneIsAuto DEF Tracks, Agrees, State
<1>4. ASSUME Same(s, r), r.ok, s.auto \/ (s.model = "deferred" /\ s.eot)
      PROVE  Tracks(r) /\ TurnsOn(s, r)
  <2>1. Tracks(r) /\ Stays(s, r)
    BY <1>1, <1>4, SameTracks
  <2>. QED
    BY <1>3, <1>4, <2>1 DEF TurnsOn, Begun, Stays, Open, SameWork, WorkOver
<1>5. CASE s.auto
  <2>1. Same(s, r) /\ r.ok
    <3>1. CASE s.model = "none"
      <4>1. r = [s EXCEPT !.ok = TRUE, !.auto = TRUE]
        BY <3>1 DEF SetAutoCommitOn
      <4> HIDE DEF r
      <4>. QED
        BY <1>1, <1>5, <4>1
        DEF State, Same, SameControl, SameDatabase, SameWork
    <3>2. CASE s.model # "none"
      BY <1>1, <1>5, <3>2, AnswerEffect DEF SetAutoCommitOn
    <3>. QED BY <3>1, <3>2
  <2>. QED BY <1>4, <1>5, <2>1
<1>6. CASE ~s.auto /\ s.model = "deferred" /\ s.eot
  <2>1. r = Succeed(s)
    BY <1>3, <1>6 DEF SetAutoCommitOn, BegunDeferred
  <2>. QED BY <1>1, <1>4, <1>6, <2>1, AnswerEffect
<1>7. CASE ~s.auto /\ s.model = "error"
  <2>1. r = Fail(s)
    BY <1>3, <1>7 DEF SetAutoCommitOn, BegunDeferred
  <2>2. Same(s, r) /\ ~r.ok
    BY <1>1, <2>1, AnswerEffect
  <2>3. Tracks(r) /\ Stays(s, r)
    BY <1>1, <2>2, SameTracks
  <2>. QED BY <1>3, <1>7, <2>2, <2>3 DEF TurnsOn, Stays
<1>8. CASE ~s.auto /\ s.model # "error" /\ ~(s.model = "deferred" /\ s.eot)
  <2>1. r = IF t.ok THEN EndTransaction([t EXCEPT !.eot = eot, !.auto = auto]) ELSE t
    <3>1. [t EXCEPT !.eot = @ \/ s.model = "deferred",
                    !.auto = @ \/ be.hasac \/ FakingImplicit(s)]
            = [t EXCEPT !.eot = eot, !.auto = auto]
      BY <1>1 DEF State
    <3>. QED BY <1>3, <1>8, <3>1 DEF SetAutoCommitOn, BegunDeferred, Bail
  <2>2. eot \in BOOLEAN /\ auto \in BOOLEAN
    OBVIOUS
  <2>3. Open(s) /\ s.intx /\ ~Begun(s)
    BY <1>3, <1>8 DEF Begun, Open
  <2> HIDE DEF t, r, eot, auto
  <2>4. CASE ~t.ok
    <3>1. Same(s, t) /\ s.fails # {}
      BY <1>1, <1>2, <1>3, <2>3, <2>4
      DEF OnEffect, EndEffect, CannotEnd, Tracks, TracksBegins, Open,
          TracksImplicitly, TracksDeferred, TracksByAutocommit, TracksByBegin,
          Implicitly, Deferred, ByAutocommit, ByBegin, be
    <3>. QED BY <1>1, <2>1, <2>4, <3>1, SameTracks DEF Failed, r
  <2>5. CASE t.ok
    <3> DEFINE u == [t EXCEPT !.eot = eot, !.auto = auto]
    <3>a. u \in State
      BY <1>1, <2>2 DEF State
    <3>b. /\ u.eot = eot /\ u.auto = auto /\ SameDatabase(t, u)
          /\ u.model = t.model /\ u.fails = t.fails
      BY <1>1 DEF State, SameDatabase, SameWork
    <3> HIDE DEF u
    <3>2. AfterEffect(u, r)
      BY <2>1, <2>5, <3>a, EndTransactionEffect DEF u
    <3>3. PICK d \in State : SameDatabase(d, r) /\ FollowUp(u, d)
      BY <3>2 DEF AfterEffect
    <3>4. ~ByBegin(dep)
      BY <2>3
    <3>5. /\ SameControl(s, t)
          /\ s.eot \in BOOLEAN /\ s.dirty \in BOOLEAN /\ s.auto = FALSE
          /\ d.dbtx \in BOOLEAN /\ d.dbauto \in BOOLEAN
      BY <1>1, <1>2, <1>8, <3>3 DEF OnEffect, EndEffect, State
    <3>6. /\ s.fails = {} \/ (s.model = "deferred" /\ be.native = "deferred")
          /\ IF be.hasac THEN ~s.dbauto ELSE s.dbauto /\ be.native # "implicit"
      <4>1. CASE TracksBegins(s)
        BY <4>1 DEF TracksBegins, BeginsAlways, Begins, be
      <4>2. CASE TracksImplicitly(s)
        BY <2>3, <4>2 DEF TracksImplicitly, Implicitly, be, Open
      <4>3. CASE TracksDeferred(s)
        <5>1. s.model = "deferred"
          BY <4>3 DEF TracksDeferred, Deferred, Tracks
        <5>2. ~s.dbauto
          BY <1>1, <1>8, <4>3, <5>1 DEF TracksDeferred, State
        <5>. QED BY <4>3, <5>1, <5>2 DEF TracksDeferred, Deferred, be
      <4>4. CASE TracksByAutocommit(s)
        BY <2>3, <4>4 DEF TracksByAutocommit, ByAutocommit, be, Open
      <4>. QED BY <3>4, <4>1, <4>2, <4>3, <4>4 DEF Tracks, TracksByBegin
    <3>7. t.dbauto /\ ~t.dbtx /\ WorkOver(s, t, "committed")
      BY <1>2, <2>5, <3>6 DEF OnEffect, EndEffect
    <3>8. r.auto /\ ~r.intx /\ r.ok /\ r.model = s.model /\ r.fails = s.fails
      BY <3>2, <3>5, <3>6, <3>b, <1>3
      DEF AfterEffect, SameControl, FakingImplicit, eot, auto
    <3>9. SameDatabase(t, r)
      BY <3>3, <3>5, <3>6, <3>7, <3>b, <1>3
      DEF FollowUp, OnEffect, SameDatabase, SameWork, Same, SameControl,
          FakingImplicit, eot, auto
    <3>10. ~Open(r) /\ ~r.dirty /\ WorkOver(s, r, "committed")
      BY <3>7, <3>9 DEF SameDatabase, SameWork, WorkOver, Open
    <3>11. Tracks(r)
      BY <1>1, <3>4, <3>7, <3>8, <3>9, <3>10, ClosedTracks
      DEF Closed, SameDatabase, Tracks
    <3>12. TurnsOn(s, r)
      BY <1>8, <2>3, <3>8, <3>10 DEF TurnsOn
    <3>. QED BY <3>11, <3>12 DEF r
  <2>. QED BY <2>4, <2>5
<1>. QED BY <1>5, <1>6, <1>7, <1>8

\* setAutoCommitOff opens a transaction, which the end of one follows from then
\* on, or is an error.
TurnsOff(s, r) ==
    /\ r.model = s.model
    /\ \/ /\ r.ok /\ s.model # "none" /\ ~(s.model = "error" /\ Open(s))
          /\ Open(r) /\ ~Begun(r) /\ SameWork(s, r)
       \/ /\ ~r.ok /\ Stays(s, r)
          /\ s.model = "none" \/ (s.model = "error" /\ Open(s))

\* In autocommit, a transaction is opened.
LEMMA OffOpens ==
    ASSUME NEW s \in State, s.auto, ~s.intx, s.model # "none",
           s.dbauto, ~s.dbtx
    PROVE  LET r == SetAutoCommitOff(s)
           IN \/ Same(s, r) /\ ~r.ok /\ s.fails # {}
              \/ /\ r.ok /\ ~r.auto /\ r.intx /\ r.model = s.model
                 /\ r.fails = s.fails /\ SameWork(s, r)
                 /\ r.eot = (s.eot /\ s.model # "deferred")
                 /\ IF be.hasac THEN ~r.dbauto /\ ~r.dbtx
                    ELSE r.dbauto /\ r.dbtx /\ r.needs
<1> DEFINE t == IF be.hasac THEN DbAutoOff(s) ELSE DbBegin(s)
           eot == t.eot /\ s.model # "deferred"
           r == SetAutoCommitOff(s)
<1>1. t \in State /\ r \in State
  BY DbType, OperationType
<1>2. IF be.hasac THEN OffEffect(s, t) ELSE BeginEffect(s, t)
  BY DbAutoOffEffect, DbBeginEffect
<1>3. r = IF t.ok THEN BeginTransaction([t EXCEPT !.eot = eot]) ELSE t
  BY <1>1 DEF SetAutoCommitOff, Bail, State
<1>4. eot \in BOOLEAN
  OBVIOUS
<1> HIDE DEF t, r
<1>5. CASE ~t.ok
  BY <1>1, <1>2, <1>3, <1>5 DEF r, OffEffect, BeginEffect, Same, SameDatabase, State
<1>6. CASE t.ok
  <2> HIDE DEF eot
  <2>1. StartEffect(t, r, eot)
    BY <1>1, <1>3, <1>4, <1>6, BeginTransactionEffect
  <2>2. eot = (s.eot /\ s.model # "deferred")
    BY <1>2 DEF OffEffect, BeginEffect, SameControl, eot
  <2>. QED
    BY <1>1, <1>2, <1>6, <2>1, <2>2
    DEF OffEffect, BeginEffect, SameControl, SameWork, SameDatabase, StartEffect, r
<1>. QED BY <1>5, <1>6

LEMMA OffTracks ==
    ASSUME dep \in Deployment, NEW s, Tracks(s), ~ByBegin(dep)
    PROVE  /\ Tracks(SetAutoCommitOff(s))
           /\ TurnsOff(s, SetAutoCommitOff(s)) \/ Failed(s, SetAutoCommitOff(s))
<1> DEFINE r == SetAutoCommitOff(s)
<1>1. s \in State /\ r \in State
  BY OperationType DEF Tracks
<1>3. /\ s.auto = ~Open(s) /\ s.intx = ~s.auto /\ s.model \in TxModels
      /\ s.dirty => Open(s)
      /\ s.model = "none" => s.auto
  BY <1>1, NoneIsAuto DEF Tracks, Agrees, State
<1>4. CASE s.model = "none"
  <2>1. r = [s EXCEPT !.ok = FALSE, !.auto = TRUE]
    BY <1>4 DEF SetAutoCommitOff
  <2>2. s.auto = TRUE
    BY <1>1, <1>3, <1>4 DEF State
  <2> HIDE DEF r
  <2>3. Same(s, r) /\ ~r.ok
    BY <1>1, <2>1, <2>2 DEF State, Same, SameControl, SameDatabase, SameWork
  <2>4. Tracks(r) /\ Stays(s, r)
    BY <1>1, <2>3, SameTracks
  <2>. QED BY <1>4, <2>3, <2>4 DEF TurnsOff, Stays, r
<1>5. CASE ~s.auto /\ s.model = "error"
  <2>1. r = Fail(s)
    BY <1>3, <1>5 DEF SetAutoCommitOff
  <2>2. Same(s, r) /\ ~r.ok
    BY <1>1, <2>1, AnswerEffect
  <2>3. Tracks(r) /\ Stays(s, r)
    BY <1>1, <2>2, SameTracks
  <2>. QED BY <1>3, <1>5, <2>2, <2>3 DEF TurnsOff, Stays
<1>6. CASE ~s.auto /\ s.model \in {"implicit", "explicit"}
  <2>1. r = Succeed(s)
    BY <1>3, <1>6 DEF SetAutoCommitOff
  <2>2. Same(s, r) /\ r.ok
    BY <1>1, <2>1, AnswerEffect
  <2>3. Tracks(r) /\ Stays(s, r)
    BY <1>1, <2>2, SameTracks
  <2>. QED BY <1>3, <1>6, <2>2, <2>3 DEF TurnsOff, Stays, Begun, Open
<1>7. CASE ~s.auto /\ s.model = "deferred"
  <2> DEFINE t == IF be.native = "deferred" /\ be.hasac THEN DbAutoOff(s)
                                                        ELSE Succeed(s)
  <2>1. r = IF t.ok THEN [t EXCEPT !.eot = FALSE] ELSE t
    BY <1>3, <1>7 DEF SetAutoCommitOff, FakingDeferred, Bail
  <2>2. /\ t \in State
        /\ IF be.native = "deferred" /\ be.hasac THEN OffEffect(s, t)
           ELSE Same(s, t) /\ t.ok
    BY <1>1, DbType, DbAutoOffEffect, AnswerEffect
  <2> HIDE DEF r, t
  <2>3. CASE ~t.ok
    <3>1. Same(s, t) /\ s.fails # {}
      BY <1>1, <2>2, <2>3 DEF OffEffect, Same, SameDatabase, State
    <3>. QED BY <1>1, <2>1, <2>3, <3>1, SameTracks DEF Failed, r
  <2>4. CASE t.ok
    <3>1. /\ r.model = s.model /\ r.auto = s.auto /\ r.intx = s.intx /\ ~r.eot
          /\ r.needs = s.needs /\ r.fails = s.fails /\ r.ok
          /\ r.dbtx = s.dbtx /\ SameWork(s, r)
          /\ IF be.native = "deferred" /\ be.hasac THEN ~r.dbauto
             ELSE r.dbauto = s.dbauto
      <4>1. /\ r.model = t.model /\ r.auto = t.auto /\ r.intx = t.intx /\ ~r.eot
            /\ r.needs = t.needs /\ r.fails = t.fails /\ r.ok = t.ok
            /\ SameDatabase(t, r)
        BY <2>1, <2>2, <2>4 DEF State, SameDatabase, SameWork
      <4>. QED
        BY <2>2, <2>4, <4>1 DEF OffEffect, Same, SameDatabase, SameControl, SameWork
    <3>2. Open(r) /\ Open(s)
      BY <1>3, <1>7, <3>1 DEF Open
    <3>3. Agrees(r)
      BY <1>1, <1>3, <1>7, <3>1, <3>2
      DEF Agrees, Tracks, SameWork, Owes, FakingExplicit, FakingImplicit, State
    <3>4. CASE TracksBegins(s)
      <4>1. be.native # "deferred"
        BY <3>4 DEF TracksBegins, BeginsAlways, Begins, be
      <4>. QED BY <1>1, <1>7, <3>1, <3>2, <3>3, <3>4, <4>1
               DEF TracksBegins, Tracks, TurnsOff, Begun, r
    <3>5. CASE TracksImplicitly(s)
      BY <1>1, <1>7, <3>1, <3>2, <3>3, <3>5
      DEF TracksImplicitly, Tracks, TurnsOff, Begun, r
    <3>6. CASE TracksDeferred(s)
      <4>1. be.native = "deferred" /\ be.hasac
        BY <3>6 DEF TracksDeferred, Deferred, be
      <4>2. r.dbauto = r.eot
        BY <1>1, <3>1, <4>1 DEF State
      <4>. QED BY <1>1, <1>7, <3>1, <3>2, <3>3, <3>6, <4>2
               DEF TracksDeferred, Tracks, TurnsOff, Begun, r
    <3>7. CASE TracksByAutocommit(s)
      BY <1>7, <3>7 DEF TracksByAutocommit, ByAutocommit, Tracks
    <3>. QED BY <3>4, <3>5, <3>6, <3>7 DEF Tracks, TracksByBegin
  <2>. QED BY <2>3, <2>4
<1>8. CASE s.auto /\ s.model # "none"
  <2>1. s.dbauto /\ ~s.dbtx /\ ~s.intx /\ ~s.dirty
    BY <1>3, <1>8 DEF Open
  <2>2. CASE Same(s, r) /\ ~r.ok /\ s.fails # {}
    BY <1>1, <2>2, SameTracks DEF Failed
  <2>3. CASE /\ r.ok /\ ~r.auto /\ r.intx /\ r.model = s.model
             /\ r.fails = s.fails /\ SameWork(s, r)
             /\ r.eot = (s.eot /\ s.model # "deferred")
             /\ IF be.hasac THEN ~r.dbauto /\ ~r.dbtx
                ELSE r.dbauto /\ r.dbtx /\ r.needs
    <3> HIDE DEF r
    <3>1. TurnsOff(s, r)
      BY <1>3, <1>8, <2>1, <2>3 DEF TurnsOff, Open, Begun
    <3>2. Agrees(r)
      BY <1>1, <2>1, <2>3 DEF Agrees, SameWork, Open, State
    <3>3. TracksBegins(s) => TracksBegins(r)
      BY <1>8, <2>3 DEF TracksBegins, BeginsAlways, Begins, be
    <3>4. TracksImplicitly(s) => TracksImplicitly(r)
      BY <2>3 DEF TracksImplicitly, Implicitly, be
    <3>5. TracksDeferred(s) => TracksDeferred(r)
      <4>1. SUFFICES ASSUME TracksDeferred(s) PROVE TracksDeferred(r)
        OBVIOUS
      <4>2. be.hasac /\ s.model = "deferred"
        BY <4>1 DEF TracksDeferred, Deferred, be, Tracks
      <4>3. r.dbauto = r.eot /\ ~r.eot
        BY <1>1, <2>3, <4>2 DEF State
      <4>. QED BY <2>3, <4>1, <4>3 DEF TracksDeferred
    <3>6. TracksByAutocommit(s) => TracksByAutocommit(r)
      BY <2>3 DEF TracksByAutocommit, ByAutocommit, be
    <3>7. Tracks(r)
      BY <1>1, <2>3, <3>2, <3>3, <3>4, <3>5, <3>6 DEF Tracks, TracksByBegin
    <3>. QED BY <3>1, <3>7 DEF r
  <2>. QED BY <1>1, <1>8, <2>1, <2>2, <2>3, OffOpens
<1>. QED BY <1>3, <1>4, <1>5, <1>6, <1>7, <1>8 DEF TxModels

LEMMA OffByBegin ==
    ASSUME ByBegin(dep), NEW s \in State, Closed(s), s.fails = {},
           s.model = "implicit", s.model \in dep.models
    PROVE  Tracks(SetAutoCommitOff(s)) /\ TurnsOff(s, SetAutoCommitOff(s))
<1> DEFINE r == SetAutoCommitOff(s)
<1>1. r \in State
  BY OperationType
<1>2. be.hasac
  BY DEF ByBegin, be
<1>3. /\ r.ok /\ ~r.auto /\ r.intx /\ r.model = s.model
      /\ r.fails = s.fails /\ SameWork(s, r)
      /\ ~r.dbauto /\ ~r.dbtx
  BY <1>2, OffOpens DEF Closed
<1> HIDE DEF r
<1>. QED
  BY <1>1, <1>3
  DEF Tracks, TracksByBegin, Agrees, TurnsOff, Open, Begun, SameWork, Closed, State, r

\* setTransactionModel: out of any transaction, and for the implicit model into the
\* next one.
Switches(s, r, model) ==
    /\ r.ok /\ r.model = model
    /\ \/ /\ model # s.model
          /\ Open(r) = (model = "implicit") /\ ~Begun(r) /\ WorkOver(s, r, "committed")
       \/ model = s.model /\ Stays(s, r)

\* The way out of a transaction, as the native model has it.
LEMMA NativeWayOut ==
    ASSUME dep \in Deployment, NEW s, Tracks(s), s.fails = {},
           BeginsAlways(dep) \/ Implicitly(dep) \/ ByBegin(dep),
           NEW n, n = [s EXCEPT !.model = be.native],
           NEW c, c = Commit(n),
           NEW t, t = IF s.model = "none" THEN Succeed(s) ELSE Bail(c, SetAutoCommitOn(c))
    PROVE  t \in State /\ t.ok /\ Closed(t) /\ t.fails = {} /\ WorkOver(s, t, "committed")
<1> USE DEF Closed
<1>1. s \in State /\ n \in State /\ c \in State /\ t \in State
  <2>1. s \in State /\ be.native \in TxModels
    BY DEF Tracks, Deployment, Backend, be
  <2>2. n \in State
    BY <2>1 DEF State
  <2>3. c \in State
    BY <2>2, OperationType
  <2>. QED BY <2>1, <2>2, <2>3, OperationType, DbType DEF Bail
<1>2. /\ s.auto = ~Open(s) /\ s.intx = ~s.auto /\ s.model \in TxModels
      /\ s.dirty => Open(s)
      /\ s.model = "none" => s.auto
  BY <1>1, NoneIsAuto DEF Tracks, Agrees, State
<1>3. /\ be.native \in {"implicit", "explicit", "error"}
      /\ be.native = "implicit" => be.hasac
      /\ be.strict => ~be.hasac /\ s.dbauto
      /\ ~s.auto => IF be.native = "implicit" THEN ~s.dbauto /\ ~s.dbtx
                    ELSE ~be.hasac => s.dbauto
  BY <1>2
  DEF Tracks, TracksBegins, TracksImplicitly, TracksDeferred, TracksByAutocommit,
      TracksByBegin, BeginsAlways, Begins, Implicitly, Deferred, ByAutocommit, ByBegin,
      be, Open
<1>4. /\ n.auto = s.auto /\ n.intx = s.intx /\ n.model = be.native /\ n.eot = s.eot
      /\ n.fails = {} /\ SameDatabase(s, n)
  BY <1>1 DEF State, SameDatabase, SameWork
<1>5. CASE s.model = "none"
  <2>1. Same(s, t) /\ t.ok
    BY <1>1, <1>5, AnswerEffect
  <2>. QED
    BY <1>1, <1>2, <1>5, <2>1
    DEF Same, SameControl, SameDatabase, SameWork, WorkOver, Open
<1>6. CASE s.model # "none" /\ s.auto
  <2>1. Same(n, c) /\ c.ok
    BY <1>1, <1>4, <1>6, AnswerEffect DEF Commit
  <2>2. t = Succeed(c)
    BY <1>3, <1>4, <1>6, <2>1 DEF SetAutoCommitOn, Bail, Same, SameControl
  <2>3. Same(c, t) /\ t.ok
    BY <1>1, <2>2, AnswerEffect
  <2>4. /\ t.auto = s.auto /\ t.intx = s.intx /\ t.fails = {}
        /\ SameDatabase(s, t)
    BY <1>4, <2>1, <2>3 DEF Same, SameControl, SameDatabase, SameWork
  <2>. QED
    BY <1>1, <1>2, <1>6, <2>3, <2>4 DEF SameDatabase, SameWork, WorkOver, Open
<1>7. CASE s.model # "none" /\ ~s.auto
  <2> DEFINE e == DbCommit(n)
  <2>1. EndEffect(n, e, CannotEnd(n, "commit"), "committed") /\ e \in State
    BY <1>1, DbEndEffect, DbType
  <2>2. ~CannotEnd(n, "commit")
    BY <1>1, <1>2, <1>3, <1>4, <1>7 DEF CannotEnd, Open, SameDatabase
  <2>3. /\ e.ok /\ SameControl(n, e) /\ e.dbauto = s.dbauto /\ ~e.dbtx
        /\ WorkOver(s, e, "committed")
    BY <1>1, <1>4, <2>1, <2>2 DEF EndEffect, SameDatabase, SameWork, WorkOver
  <2>4. c = EndTransaction(e)
    BY <1>2, <1>3, <1>4, <1>7, <2>3 DEF Commit, Bail
  <2> HIDE DEF e
  <2>5. AfterEffect(e, c)
    BY <2>1, <2>4, EndTransactionEffect
  <2>6. PICK d \in State : SameDatabase(d, c) /\ FollowUp(e, d)
    BY <2>5 DEF AfterEffect
  <2>7. /\ e.model = be.native /\ e.auto = FALSE /\ e.dbtx = FALSE /\ e.fails = {}
    BY <1>1, <1>4, <1>7, <2>1, <2>3 DEF SameControl, State
  <2>8. CASE be.native # "implicit"
    <3>1. c.auto /\ ~c.intx /\ c.ok /\ c.model = be.native /\ c.fails = {}
      BY <1>3, <2>5, <2>7, <2>8 DEF AfterEffect
    <3>2. c.dbauto /\ ~c.dbtx /\ WorkOver(s, c, "committed")
      BY <1>1, <1>3, <1>7, <2>3, <2>6, <2>7, <2>8
      DEF FollowUp, OnEffect, Same, SameDatabase, SameWork, WorkOver
    <3>3. t = Succeed(c)
      BY <1>3, <1>7, <3>1 DEF SetAutoCommitOn, Bail
    <3>4. Same(c, t) /\ t.ok
      BY <1>1, <3>3, AnswerEffect
    <3>. QED
      BY <1>1, <3>1, <3>2, <3>4
      DEF Same, SameControl, SameDatabase, SameWork, WorkOver
  <2>9. CASE be.native = "implicit"
    <3>1. /\ c.auto = FALSE /\ c.intx /\ c.ok /\ c.model = "implicit" /\ c.fails = {}
          /\ ~c.dbauto /\ ~c.dbtx /\ WorkOver(s, c, "committed")
      <4>1. c.auto = FALSE /\ c.intx /\ c.ok /\ c.model = "implicit" /\ c.fails = {}
        BY <1>3, <2>5, <2>7, <2>9 DEF AfterEffect
      <4>2. SameDatabase(e, d)
        BY <2>6, <2>7, <2>9 DEF FollowUp, SameDatabase, SameWork
      <4>3. SameDatabase(e, c)
        BY <2>6, <4>2 DEF SameDatabase, SameWork
      <4>4. ~c.dbauto /\ ~c.dbtx /\ WorkOver(s, c, "committed")
        BY <1>1, <1>3, <1>7, <2>3, <2>7, <2>9, <4>3
        DEF SameDatabase, SameWork, WorkOver
      <4>. QED BY <4>1, <4>4
    <3> DEFINE a == DbAutoOn(c)
               u == [a EXCEPT !.eot = a.eot, !.auto = TRUE]
    <3>2. OnEffect(c, a) /\ a \in State
      BY <1>1, DbAutoOnEffect, DbType
    <3>3. a.ok /\ SameControl(c, a) /\ a.dbauto /\ ~a.dbtx /\ WorkOver(c, a, "committed")
      BY <3>1, <3>2 DEF OnEffect
    <3>4. t = EndTransaction(u)
      BY <1>3, <1>7, <2>9, <3>1, <3>2, <3>3 DEF SetAutoCommitOn, BegunDeferred, Bail, State
    <3> HIDE DEF a
    <3>5. /\ u \in State /\ u.auto /\ SameDatabase(a, u)
          /\ u.model = a.model /\ u.fails = a.fails
      BY <3>2 DEF State, SameDatabase, SameWork
    <3> HIDE DEF u
    <3>6. AfterEffect(u, t)
      BY <3>4, <3>5, EndTransactionEffect
    <3>7. PICK f \in State : SameDatabase(f, t) /\ FollowUp(u, f)
      BY <3>6 DEF AfterEffect
    <3>8. u.model = "implicit" /\ u.fails = {} /\ u.auto = TRUE
      BY <3>1, <3>3, <3>5 DEF SameControl, State
    <3>9. t.auto /\ ~t.intx /\ t.ok /\ t.fails = {}
      BY <3>6, <3>8 DEF AfterEffect
    <3>10. SameDatabase(a, t)
      BY <2>9, <3>5, <3>7, <3>8 DEF FollowUp, SameDatabase, SameWork
    <3>. QED
      BY <1>1, <3>1, <3>3, <3>9, <3>10 DEF SameDatabase, SameWork, WorkOver
  <2>. QED BY <2>8, <2>9
<1>. QED BY <1>5, <1>6, <1>7

LEMMA SwitchTracks ==
    ASSUME dep \in Deployment, NEW s, Tracks(s), NEW model \in dep.models
    PROVE  /\ Tracks(SetTransactionModel(s, model))
           /\ Switches(s, SetTransactionModel(s, model), model)
<1> DEFINE r == SetTransactionModel(s, model)
<1>1. s \in State /\ r \in State
  BY SwitchType DEF Tracks, Deployment
<1>2. CASE model = s.model
  <2>1. Same(s, r) /\ r.ok
    BY <1>1, <1>2, AnswerEffect DEF SetTransactionModel
  <2>2. Tracks(r) /\ Stays(s, r)
    BY <1>1, <2>1, SameTracks
  <2>. QED BY <1>2, <2>1, <2>2 DEF Switches, Stays
<1>3. CASE model # s.model
  <2>1. BeginsAlways(dep) \/ Implicitly(dep) \/ ByBegin(dep)
    BY <1>3
    DEF Tracks, TracksBegins, TracksImplicitly, TracksDeferred, TracksByAutocommit,
        TracksByBegin, Deferred, ByAutocommit
  <2>2. s.fails = {}
    BY <2>1
    DEF Tracks, TracksBegins, TracksImplicitly, TracksDeferred, TracksByAutocommit,
        TracksByBegin, BeginsAlways, Begins, Implicitly, ByBegin, Deferred
  <2> DEFINE n == [s EXCEPT !.model = be.native]
             c == Commit(n)
             t == IF s.model = "none" THEN Succeed(s) ELSE Bail(c, SetAutoCommitOn(c))
             u == [t EXCEPT !.model = model]
  <2>3. t \in State /\ t.ok /\ Closed(t) /\ t.fails = {} /\ WorkOver(s, t, "committed")
    BY <2>1, <2>2, NativeWayOut
  <2>4. r = IF model = "implicit" THEN SetAutoCommitOff(u) ELSE u
    BY <1>3, <2>3 DEF SetTransactionModel
  <2> HIDE DEF t
  <2>5. model \in TxModels
    BY DEF Deployment
  <2>6. /\ u \in State /\ Closed(u) /\ u.ok /\ u.fails = {} /\ u.model = model
        /\ WorkOver(s, u, "committed")
    BY <2>3, <2>5 DEF State, Closed, WorkOver
  <2> HIDE DEF u, r
  <2>7. CASE model # "implicit"
    <3>1. Tracks(r)
      BY <2>2, <2>4, <2>6, <2>7, ClosedTracks
    <3>. QED BY <1>3, <2>4, <2>6, <2>7, <3>1
             DEF Switches, Closed, Open, Begun, r
  <2>8. CASE model = "implicit"
    <3>1. r = SetAutoCommitOff(u)
      BY <2>4, <2>8
    <3>2. Tracks(r) /\ TurnsOff(u, r)
      <4>1. CASE ByBegin(dep)
        BY <2>6, <2>8, <3>1, <4>1, OffByBegin
      <4>2. CASE ~ByBegin(dep)
        <5>1. Tracks(u)
          BY <2>2, <2>6, <4>2, ClosedTracks
        <5>. QED BY <2>6, <3>1, <4>2, <5>1, OffTracks DEF Failed
      <4>. QED BY <4>1, <4>2
    <3>3. Switches(s, r, model)
      BY <1>3, <2>6, <2>8, <3>2
      DEF Switches, TurnsOff, Open, Begun, WorkOver, SameWork, Closed
    <3>. QED BY <3>2, <3>3 DEF r
  <2>. QED BY <2>7, <2>8
<1>. QED BY <1>2, <1>3

-----------------------------------------------------------------------------
(* Only queries make work, and what became of it once does not change.     *)

NoNewWork(s, r) ==
    /\ r.fails = s.fails
    /\ r.dirty => s.dirty
    /\ ~s.dirty \/ s.fate # "none" => r.fate = s.fate

LEMMA NoNewWorkByCalls ==
    ASSUME NEW s \in State, NEW r
    PROVE  /\ Same(s, r) => NoNewWork(s, r)
           /\ OnEffect(s, r) => NoNewWork(s, r)
           /\ OffEffect(s, r) => NoNewWork(s, r)
           /\ BeginEffect(s, r) => NoNewWork(s, r)
           /\ \A fails, how : EndEffect(s, r, fails, how) => NoNewWork(s, r)
<1> USE DEF NoNewWork, Same, SameControl, SameDatabase, SameWork
<1>1. Same(s, r) => NoNewWork(s, r)
  OBVIOUS
<1>2. OnEffect(s, r) => NoNewWork(s, r)
  BY DEF OnEffect, WorkOver
<1>3. OffEffect(s, r) => NoNewWork(s, r)
  BY DEF OffEffect
<1>4. BeginEffect(s, r) => NoNewWork(s, r)
  BY DEF BeginEffect
<1>5. ASSUME NEW fails, NEW how, EndEffect(s, r, fails, how) PROVE NoNewWork(s, r)
  BY <1>5 DEF EndEffect, WorkOver
<1>. QED BY <1>1, <1>2, <1>3, <1>4, <1>5

LEMMA NoNewWorkByEnd ==
    ASSUME NEW s \in State
    PROVE  NoNewWork(s, EndTransaction(s))
<1>1. AfterEffect(s, EndTransaction(s))
  BY EndTransactionEffect
<1>2. PICK d \in State : SameDatabase(d, EndTransaction(s)) /\ FollowUp(s, d)
  BY <1>1 DEF AfterEffect
<1>3. d = s \/ NoNewWork(s, d)
  BY <1>2, NoNewWorkByCalls DEF FollowUp
<1>. QED BY <1>1, <1>2, <1>3 DEF AfterEffect, NoNewWork, SameDatabase, SameWork

LEMMA NoNewWorkByOperations ==
    ASSUME NEW s \in State
    PROVE  /\ NoNewWork(s, Commit(s)) /\ NoNewWork(s, Rollback(s))
           /\ NoNewWork(s, SetAutoCommitOn(s)) /\ NoNewWork(s, SetAutoCommitOff(s))
           /\ NoNewWork(s, Begin(s))
<1>1. NoNewWork(s, Succeed(s)) /\ NoNewWork(s, Fail(s))
  BY AnswerEffect, NoNewWorkByCalls
<1>2. /\ NoNewWork(s, DbCommit(s)) /\ NoNewWork(s, DbRollback(s))
      /\ NoNewWork(s, DbAutoOn(s)) /\ NoNewWork(s, DbAutoOff(s))
      /\ NoNewWork(s, DbBegin(s))
  BY DbEndEffect, DbAutoOnEffect, DbAutoOffEffect, DbBeginEffect, NoNewWorkByCalls
<1>3. ASSUME NEW t \in State, NoNewWork(s, t), NEW r \in State, NoNewWork(t, r)
      PROVE  NoNewWork(s, r)
  BY <1>3 DEF NoNewWork
<1>4. ASSUME NEW t \in State, NoNewWork(s, t)
      PROVE  NoNewWork(s, EndTransaction(t))
  BY <1>3, <1>4, NoNewWorkByEnd, EndTransactionType
<1>5. ASSUME NEW t \in State, NoNewWork(s, t), NEW eot \in BOOLEAN, NEW auto \in BOOLEAN
      PROVE  /\ [t EXCEPT !.eot = eot] \in State
             /\ NoNewWork(s, [t EXCEPT !.eot = eot])
             /\ [t EXCEPT !.eot = eot, !.auto = auto] \in State
             /\ NoNewWork(s, [t EXCEPT !.eot = eot, !.auto = auto])
  <2>1. [t EXCEPT !.eot = eot] \in State /\ [t EXCEPT !.eot = eot, !.auto = auto] \in State
    BY DEF State
  <2>. QED BY <1>5, <2>1 DEF NoNewWork, State
<1>6. ASSUME NEW t \in State, NoNewWork(s, t)
      PROVE  NoNewWork(s, BeginTransaction(t))
  BY <1>6 DEF NoNewWork, BeginTransaction, State
<1>7. NoNewWork(s, Commit(s)) /\ NoNewWork(s, Rollback(s))
  BY <1>1, <1>2, <1>4, DbType DEF Commit, Rollback, Bail
<1>8. NoNewWork(s, SetAutoCommitOn(s))
  <2> DEFINE t == IF be.hasac THEN DbAutoOn(s) ELSE DbCommit(s)
             eot == t.eot \/ s.model = "deferred"
             auto == t.auto \/ be.hasac \/ FakingImplicit(s)
             u == [t EXCEPT !.eot = eot, !.auto = auto]
  <2>1. t \in State /\ NoNewWork(s, t)
    BY <1>2, DbType
  <2>2. eot \in BOOLEAN /\ auto \in BOOLEAN
    OBVIOUS
  <2>3. [t EXCEPT !.eot = @ \/ s.model = "deferred",
                  !.auto = @ \/ be.hasac \/ FakingImplicit(s)] = u
    BY <2>1 DEF State
  <2>4. NoNewWork(s, [s EXCEPT !.ok = TRUE, !.auto = TRUE])
    BY DEF State, NoNewWork
  <2>5. NoNewWork(s, EndTransaction(u))
    <3> HIDE DEF t, eot, auto
    <3>. QED BY <1>4, <1>5, <2>1, <2>2
  <2>6. \/ SetAutoCommitOn(s) \in {Succeed(s), Fail(s), t, EndTransaction(u)}
        \/ SetAutoCommitOn(s) = [s EXCEPT !.ok = TRUE, !.auto = TRUE]
    BY <2>3 DEF SetAutoCommitOn, Bail
  <2>. QED BY <1>1, <2>1, <2>4, <2>5, <2>6
<1>9. NoNewWork(s, SetAutoCommitOff(s))
  <2> DEFINE t == IF ~FakingDeferred(s) /\ be.hasac THEN DbAutoOff(s) ELSE Succeed(s)
             u == [t EXCEPT !.eot = FALSE]
             v == IF be.hasac THEN DbAutoOff(s) ELSE DbBegin(s)
             eot == v.eot /\ s.model # "deferred"
             w == [v EXCEPT !.eot = eot]
  <2>1. t \in State /\ NoNewWork(s, t) /\ v \in State /\ NoNewWork(s, v)
    BY <1>1, <1>2, DbType
  <2>2. eot \in BOOLEAN
    OBVIOUS
  <2>3. [v EXCEPT !.eot = @ /\ s.model # "deferred"] = w
    BY <2>1 DEF State
  <2>4. NoNewWork(s, [s EXCEPT !.ok = FALSE, !.auto = TRUE])
    BY DEF State, NoNewWork
  <2>5. NoNewWork(s, u) /\ NoNewWork(s, BeginTransaction(w))
    <3> HIDE DEF t, v, eot
    <3>. QED BY <1>5, <1>6, <2>1, <2>2
  <2>6. \/ SetAutoCommitOff(s) \in {Succeed(s), Fail(s), t, u, v, BeginTransaction(w)}
        \/ SetAutoCommitOff(s) = [s EXCEPT !.ok = FALSE, !.auto = TRUE]
    BY <2>3 DEF SetAutoCommitOff, Bail
  <2>. QED BY <1>1, <2>1, <2>4, <2>5, <2>6
<1>10. NoNewWork(s, Begin(s))
  <2> DEFINE t == IF FakingExplicit(s) THEN DbAutoOff(s) ELSE DbBegin(s)
             eot == t.eot \/ s.model = "deferred"
             w == [t EXCEPT !.eot = eot]
  <2>1. t \in State /\ NoNewWork(s, t)
    BY <1>2, DbType
  <2>2. eot \in BOOLEAN
    OBVIOUS
  <2>3. [t EXCEPT !.eot = @ \/ s.model = "deferred"] = w
    BY <2>1 DEF State
  <2>5. NoNewWork(s, BeginTransaction(w))
    <3> HIDE DEF t, eot
    <3>. QED BY <1>5, <1>6, <2>1, <2>2
  <2>6. Begin(s) \in {Succeed(s), Fail(s), t, BeginTransaction(w)}
    BY <2>3 DEF Begin, Bail
  <2>. QED BY <1>1, <2>1, <2>5, <2>6
<1>. QED BY <1>7, <1>8, <1>9, <1>10

LEMMA NoNewWorkBySwitch ==
    ASSUME dep \in Deployment, NEW s \in State, NEW model \in TxModels
    PROVE  NoNewWork(s, SetTransactionModel(s, model))
<1> DEFINE n == [s EXCEPT !.model = be.native]
           c == Commit(n)
           t == IF s.model = "none" THEN Succeed(s) ELSE Bail(c, SetAutoCommitOn(c))
           u == [t EXCEPT !.model = model]
<1>1. n \in State
  BY DEF State, Deployment, Backend, be
<1>2. NoNewWork(s, n)
  BY DEF State, NoNewWork
<1> HIDE DEF n
<1>3. c \in State /\ NoNewWork(n, c)
  BY <1>1, OperationType, NoNewWorkByOperations
<1> HIDE DEF c
<1>4. SetAutoCommitOn(c) \in State /\ NoNewWork(c, SetAutoCommitOn(c))
  BY <1>3, OperationType, NoNewWorkByOperations
<1>5. Succeed(s) \in State /\ NoNewWork(s, Succeed(s))
  BY DbType, AnswerEffect, NoNewWorkByCalls
<1>6. t \in State /\ NoNewWork(s, t)
  BY <1>2, <1>3, <1>4, <1>5 DEF Bail, NoNewWork
<1> HIDE DEF t
<1>7. u \in State /\ NoNewWork(s, u) /\ NoNewWork(s, [t EXCEPT !.model = s.model])
  BY <1>6 DEF State, NoNewWork
<1> HIDE DEF u
<1>8. NoNewWork(u, SetAutoCommitOff(u))
  BY <1>7, NoNewWorkByOperations
<1>9. NoNewWork(s, SetAutoCommitOff(u))
  BY <1>7, <1>8 DEF NoNewWork
<1>10. SetTransactionModel(s, model) \in
        {Succeed(s), [t EXCEPT !.model = s.model], SetAutoCommitOff(u), u}
  BY DEF SetTransactionModel, n, c, t, u
<1>. QED BY <1>5, <1>7, <1>9, <1>10

-----------------------------------------------------------------------------
(* Queries.                                                                 *)

\* A query does its work in the open transaction.
Queried(s, r) ==
    /\ r.ok /\ r.model = s.model /\ Open(r) = Open(s) /\ Begun(r) = Begun(s)
    /\ r.dirty = Open(s) /\ r.fate = s.fate

QueryEffect(s, r) ==
    /\ r.ok /\ r.model = s.model /\ r.auto = s.auto /\ r.intx = s.intx
    /\ r.eot = s.eot /\ r.fails = s.fails /\ r.dbauto = s.dbauto /\ r.dbtx = s.dbtx
    /\ r.dirty = Open(s) /\ r.fate = s.fate

LEMMA DbExecuteEffect ==
    ASSUME NEW s \in State
    PROVE  QueryEffect(s, DbExecute(s))
BY DEF State, DbExecute, QueryEffect, Open

LEMMA QueryKeepsEffect ==
    ASSUME NEW s, NEW t \in State, QueryEffect(s, t)
    PROVE  /\ \A b \in BOOLEAN :
                /\ QueryEffect(s, [t EXCEPT !.temp = b])
                /\ [t EXCEPT !.temp = b].needs = t.needs
                /\ MarkNeeds(t, b) \in State
                /\ QueryEffect(s, MarkNeeds(t, b))
                /\ t.model # "none" => MarkNeeds(t, b).needs = b
           /\ s.dbtx = TRUE => [t EXCEPT !.dbtx = TRUE] = t
<1>1. s.dbtx = TRUE => t.dbtx = TRUE
  BY DEF QueryEffect
<1>2. ASSUME NEW b \in BOOLEAN
      PROVE  /\ [t EXCEPT !.temp = b] \in State
             /\ QueryEffect(s, [t EXCEPT !.temp = b])
             /\ [t EXCEPT !.temp = b].needs = t.needs
             /\ [t EXCEPT !.needs = b] \in State
             /\ QueryEffect(s, [t EXCEPT !.needs = b])
             /\ [t EXCEPT !.needs = b].needs = b
  BY DEF State, QueryEffect
<1>3. ASSUME NEW b \in BOOLEAN
      PROVE  MarkNeeds(t, b) \in {t, [t EXCEPT !.needs = b]}
  BY DEF MarkNeeds
<1>4. t.dbtx = TRUE => [t EXCEPT !.dbtx = TRUE] = t
  BY DEF State
<1>5. ASSUME NEW b \in BOOLEAN, t.model # "none" PROVE MarkNeeds(t, b).needs = b
  BY <1>2, <1>5 DEF MarkNeeds
<1>. QED BY <1>1, <1>2, <1>3, <1>4, <1>5

LEMMA QueryTracks ==
    ASSUME NEW s, Tracks(s), NEW r \in State, QueryEffect(s, r),
           s.auto \/ r.needs \/ FakingExplicit(s)
    PROVE  Tracks(r) /\ Queried(s, r)
<1> USE DEF QueryEffect, Open
<1>1. Queried(s, r)
  BY DEF Queried, Begun
<1>2. Agrees(r)
  BY NoneIsAuto DEF Tracks, Agrees, Owes, FakingExplicit, FakingImplicit
<1>3. s.auto => ~s.dbtx
  BY DEF Tracks, Agrees
<1>4. TracksBegins(s) => TracksBegins(r)
  BY <1>3 DEF TracksBegins, BeginsAlways, Begins, be, FakingExplicit
<1>5. TracksImplicitly(s) => TracksImplicitly(r)
  BY DEF TracksImplicitly
<1>6. TracksDeferred(s) => TracksDeferred(r)
  BY DEF TracksDeferred, Deferred, be, FakingExplicit
<1>7. TracksByAutocommit(s) => TracksByAutocommit(r)
  BY DEF TracksByAutocommit
<1>8. TracksByBegin(s) => TracksByBegin(r)
  BY <1>3 DEF TracksByBegin, ByBegin, be, FakingExplicit
<1>. QED BY <1>1, <1>2, <1>4, <1>5, <1>6, <1>7, <1>8 DEF Tracks

LEMMA PlainQueryTracks ==
    ASSUME NEW s, Tracks(s)
    PROVE  /\ Tracks(Query(s)) /\ Queried(s, Query(s)) /\ Query(s) \in State
           /\ QueryEffect(s, Query(s)) /\ (s.auto \/ Query(s).needs)
<1>1. s \in State /\ Query(s) \in State /\ DbExecute(s) \in State
  BY OperationType, DbType DEF Tracks
<1>2. QueryEffect(s, DbExecute(s))
  BY <1>1, DbExecuteEffect
<1>3. /\ QueryEffect(s, Query(s))
      /\ s.model # "none" => Query(s).needs
  BY <1>1, <1>2, QueryKeepsEffect DEF Query, QueryEffect
<1>. QED BY <1>1, <1>3, NoneIsAuto, QueryTracks

-----------------------------------------------------------------------------
(* The end of a session, and a new connection.                              *)

Configured ==
    /\ initial \in [model : dep.models, auto : BOOLEAN]
    /\ dep.autos \subseteq {"default"} => initial.auto = (initial.model # "implicit")

AtEnd == IF dep.endcommit THEN "committed" ELSE "rolledback"

\* Nothing keeps the connection from going back to its initial settings.
Quiet(s) ==
    /\ ~s.dirty /\ ~Begun(s) /\ ~(s.model = "error" /\ Open(s))
    /\ ByBegin(dep) /\ s.model # "implicit" => ~Open(s)

\* How a session finds its connection.
Settled(s) ==
    /\ s.model = initial.model /\ s.auto = initial.auto
    /\ ~s.dirty /\ ~Begun(s)

LEMMA NotOwedIsQuiet ==
    ASSUME NEW s, Tracks(s), ~Owes(s)
    PROVE  Quiet(s)
<1>1. ~s.dirty
  BY DEF Tracks, Agrees
<1>2. s.model = "none" => ~Open(s)
  BY NoneIsAuto DEF Tracks, Agrees
<1>3. CASE TracksBegins(s)
  <2>1. ~ByBegin(dep)
    BY <1>3 DEF TracksBegins, BeginsAlways, Begins, ByBegin
  <2>. QED BY <1>1, <1>3, <2>1 DEF TracksBegins, Quiet, Owes, Open, Begun
<1>4. CASE TracksImplicitly(s)
  <2>1. FakingExplicit(s) \/ s.model = "implicit"
    BY <1>4 DEF TracksImplicitly, Implicitly, FakingExplicit, be
  <2>2. ~ByBegin(dep)
    BY <1>4 DEF TracksImplicitly, Implicitly, ByBegin
  <2>. QED BY <1>1, <2>1, <2>2 DEF Quiet, Owes, Begun
<1>5. CASE TracksDeferred(s)
  <2>1. ~ByBegin(dep) /\ s.model = "deferred"
    BY <1>5 DEF TracksDeferred, Deferred, ByBegin, Tracks
  <2>. QED BY <1>1, <1>5, <2>1 DEF TracksDeferred, Quiet, Owes, Begun, Tracks, Agrees
<1>6. CASE TracksByAutocommit(s)
  <2>1. s.model = "explicit"
    BY <1>6 DEF TracksByAutocommit, ByAutocommit, Tracks
  <2>2. ~ByBegin(dep)
    <3>1. ~(dep.uses \subseteq {"begin", "switch"})
      BY <1>6 DEF TracksByAutocommit, ByAutocommit
    <3>. QED BY <3>1 DEF ByBegin
  <2>. QED BY <1>1, <2>1, <2>2 DEF Quiet, Begun
<1>7. CASE TracksByBegin(s)
  BY <1>1, <1>2, <1>7 DEF TracksByBegin, Quiet, Owes, Open, Begun
<1>. QED BY <1>3, <1>4, <1>5, <1>6, <1>7 DEF Tracks

LEMMA EndedIsQuiet ==
    ASSUME NEW s, Tracks(s), NEW how, NEW r, Ends(s, r, how)
    PROVE  Quiet(r)
<1>1. ByBegin(dep) /\ s.model = "deferred" => ~Open(r)
  BY DEF Tracks, TracksBegins, TracksImplicitly, TracksDeferred, TracksByAutocommit,
         TracksByBegin, BeginsAlways, Begins, Implicitly, Deferred, ByAutocommit,
         ByBegin, Ends, Begun, Agrees
<1>. QED BY <1>1 DEF Ends, Quiet, WorkOver, Open

LEMMA EndSessionTracks ==
    ASSUME dep \in Deployment, Configured, NEW s, Tracks(s), s.fails = {}, s.fate = "none"
    PROVE  LET r == EndOfSession(s)
           IN /\ Tracks(r) /\ Settled(r) /\ r.fails = {}
              /\ r.model = initial.model /\ Open(r) = ~initial.auto
              /\ ~r.dirty
              /\ IF s.dirty THEN r.fate = AtEnd ELSE r.fate \in {"none", "committed"}
<1> DEFINE e == EndWork(s)
           d == DropTempTables(e)
           x == SetTransactionModel(d, initial.model)
           r == EndOfSession(s)
<1>1. /\ Tracks(e) /\ Quiet(e) /\ e.fails = {}
      /\ e.fate = IF s.dirty THEN AtEnd ELSE "none"
  <2>1. CASE ~Owes(s)
    BY <2>1, NotOwedIsQuiet DEF EndWork, Quiet
  <2>2. CASE Owes(s) /\ dep.endcommit
    <3>1. e = Commit(s)
      BY <2>2 DEF EndWork
    <3>2. Tracks(e) /\ Ends(s, e, "committed") /\ e.fails = {}
      BY <3>1, CommitTracks, NoNewWorkByOperations DEF Failed, Tracks, NoNewWork
    <3>. QED BY <2>2, <3>2, EndedIsQuiet DEF Ends, WorkOver, AtEnd
  <2>3. CASE Owes(s) /\ ~dep.endcommit
    <3>1. e = Rollback(s)
      BY <2>3 DEF EndWork
    <3>2. Tracks(e) /\ Ends(s, e, "rolledback") /\ e.fails = {}
      BY <3>1, RollbackTracks, NoNewWorkByOperations DEF Failed, Tracks, NoNewWork
    <3>. QED BY <2>3, <3>2, EndedIsQuiet DEF Ends, WorkOver, AtEnd
  <2>. QED BY <2>1, <2>2, <2>3
<1> HIDE DEF e
<1>2. /\ Tracks(d) /\ Quiet(d) /\ d.fails = {}
      /\ d.fate \in {e.fate, "committed"} /\ (e.fate # "none" => d.fate = e.fate)
  <2>1. CASE ~e.temp
    BY <1>1, <2>1 DEF DropTempTables
  <2>2. CASE e.temp
    <3> DEFINE q == [Query(e) EXCEPT !.temp = FALSE]
    <3>1. d = Commit(q)
      BY <2>2 DEF DropTempTables
    <3>2. /\ Query(e) \in State /\ QueryEffect(e, Query(e))
          /\ e.auto \/ Query(e).needs
      BY <1>1, PlainQueryTracks
    <3>3. /\ q \in State /\ QueryEffect(e, q) /\ (e.auto \/ q.needs)
      BY <3>2, QueryKeepsEffect DEF State
    <3> HIDE DEF q
    <3>4. Tracks(q)
      BY <1>1, <3>3, QueryTracks
    <3>5. q.fails = {} /\ q.fate = e.fate
      BY <1>1, <3>3 DEF QueryEffect
    <3>6. Tracks(d) /\ Ends(q, d, "committed") /\ d.fails = {}
      BY <3>1, <3>3, <3>4, <3>5, CommitTracks, NoNewWorkByOperations DEF Failed, NoNewWork
    <3>. QED BY <3>4, <3>5, <3>6, EndedIsQuiet DEF Ends, WorkOver
  <2>. QED BY <2>1, <2>2
<1> HIDE DEF d
<1>3. /\ Tracks(x) /\ Quiet(x) /\ x.fails = {} /\ x.model = initial.model
      /\ x.fate = d.fate
  <2>1. initial.model \in dep.models /\ initial.model \in TxModels
    BY DEF Configured, Deployment
  <2>2. Tracks(x) /\ Switches(d, x, initial.model)
    BY <1>2, <2>1, SwitchTracks
  <2>3. x.fails = {} /\ x.fate = d.fate
    BY <1>2, <2>1, NoNewWorkBySwitch DEF Tracks, NoNewWork, Quiet
  <2>. QED BY <1>2, <2>2, <2>3 DEF Switches, Quiet, WorkOver, Stays, SameWork
<1> HIDE DEF x
<1>4. r = IF initial.auto THEN SetAutoCommitOn(x) ELSE SetAutoCommitOff(x)
  BY DEF EndOfSession, Reset, SetAutoCommit, e, d, x
<1> HIDE DEF r
<1>5. initial.model = "none" => initial.auto
  BY <1>3
  DEF Configured, Tracks, TracksBegins, TracksImplicitly, TracksDeferred,
      TracksByAutocommit, TracksByBegin, BeginsAlways, Begins, Implicitly, Deferred,
      ByAutocommit, ByBegin
<1>6. x \in State /\ NoNewWork(x, r)
  BY <1>3, <1>4, NoNewWorkByOperations DEF Tracks
<1>7. r.fails = {} /\ ~r.dirty /\ r.fate = d.fate
  BY <1>3, <1>6 DEF NoNewWork, Quiet
<1>8. Tracks(r) /\ r.model = initial.model /\ Open(r) = ~initial.auto /\ ~Begun(r)
  <2>1. CASE initial.auto
    <3>1. ByBegin(dep) => x.model # "implicit" /\ ~Open(x)
      BY <1>3, <2>1 DEF Configured, ByBegin, Quiet
    <3>2. Tracks(r) /\ TurnsOn(x, r)
      BY <1>3, <1>4, <2>1, <3>1, OnTracks DEF Failed
    <3>. QED BY <1>3, <2>1, <3>2 DEF TurnsOn, Quiet, Begun, Open
  <2>2. CASE ~initial.auto /\ ~ByBegin(dep)
    <3>1. Tracks(r) /\ TurnsOff(x, r)
      BY <1>3, <1>4, <2>2, OffTracks DEF Failed
    <3>2. initial.auto = FALSE
      BY <2>2 DEF Configured
    <3>. QED BY <1>3, <1>5, <2>2, <3>1, <3>2 DEF TurnsOff, Quiet, Open
  <2>3. CASE ~initial.auto /\ ByBegin(dep)
    <3>1. x.model = "implicit" /\ initial.auto = FALSE
      BY <1>3, <2>3 DEF Configured, ByBegin
    <3>2. TracksByBegin(x)
      BY <1>3, <2>3, <3>1
      DEF Tracks, TracksBegins, TracksImplicitly, TracksDeferred, TracksByAutocommit,
          BeginsAlways, Begins, Implicitly, Deferred, ByAutocommit, ByBegin
    <3>3. Open(x) /\ ~x.auto /\ x.intx
      BY <1>3, <3>1, <3>2 DEF TracksByBegin, Open, Tracks, Agrees
    <3>4. r = Succeed(x)
      BY <1>4, <2>3, <3>1, <3>3 DEF SetAutoCommitOff
    <3>5. Tracks(r) /\ Stays(x, r)
      BY <1>3, <1>6, <3>4, AnswerEffect, DbType, SameTracks
    <3>. QED BY <1>3, <3>1, <3>3, <3>5 DEF Stays, Begun, Open
  <2>. QED BY <2>1, <2>2, <2>3
<1>9. r.auto = initial.auto
  BY <1>8 DEF Tracks, Agrees, Configured
<1>10. IF s.dirty THEN r.fate = AtEnd ELSE r.fate \in {"none", "committed"}
  BY <1>1, <1>2, <1>7 DEF AtEnd
<1>. QED BY <1>7, <1>8, <1>9, <1>10 DEF Settled, r

LEMMA LogInEffect ==
    ASSUME dep \in Deployment, NEW s \in State
    PROVE  \E v \in State :
              /\ LogIn(s) = SetAutoCommit(v, initial.auto)
              /\ v.model = s.model /\ v.eot = s.eot /\ v.fails = s.fails
              /\ v.auto = be.autostart /\ v.intx = ~be.autostart
              /\ v.dbauto = be.autostart /\ ~v.dbtx /\ ~v.dirty
              /\ v.fate = IF s.dirty THEN "rolledback" ELSE s.fate
<1> DEFINE a == be.autostart
           n == ~be.autostart
           f == IF s.dirty THEN "rolledback" ELSE s.fate
           t == [s EXCEPT !.auto = a, !.intx = n]
           u == [t EXCEPT !.dbauto = a, !.dbtx = FALSE]
           v == [u EXCEPT !.dirty = FALSE, !.fate = f]
<1>1. a \in BOOLEAN /\ n \in BOOLEAN
  BY DEF Deployment, Backend, be
<1>2. f \in {"none", "committed", "rolledback"}
  BY DEF State
<1>3. LogIn(s) = SetAutoCommit(v, initial.auto)
  BY DEF LogIn, State
<1> SUFFICES /\ v \in State
             /\ v.model = s.model /\ v.eot = s.eot /\ v.fails = s.fails
             /\ v.auto = a /\ v.intx = n
             /\ v.dbauto = a /\ ~v.dbtx /\ ~v.dirty
             /\ v.fate = f
  BY <1>3
<1> HIDE DEF a, n, f
<1>4. /\ t \in State /\ t.auto = a /\ t.intx = n
      /\ t.model = s.model /\ t.eot = s.eot /\ t.fails = s.fails
  BY <1>1 DEF State
<1> HIDE DEF t
<1>5. /\ u \in State /\ u.auto = a /\ u.intx = n /\ u.dbauto = a /\ ~u.dbtx
      /\ u.model = s.model /\ u.eot = s.eot /\ u.fails = s.fails
  BY <1>1, <1>4 DEF State
<1> HIDE DEF u
<1>6. v \in State
  BY <1>2, <1>5 DEF State
<1>7. /\ v.model = s.model /\ v.eot = s.eot /\ v.fails = s.fails
      /\ v.auto = a /\ v.intx = n
      /\ v.dbauto = a /\ ~v.dbtx /\ ~v.dirty
      /\ v.fate = f
  BY <1>5 DEF State
<1>. QED BY <1>6, <1>7

LEMMA LogInTracks ==
    ASSUME dep \in Deployment, Configured, Follows(dep), NEW s \in State,
           s.model = initial.model, s.fails = {}, s.eot => be.autostart
    PROVE  LET r == LogIn(s)
           IN /\ Tracks(r) /\ Settled(r) /\ r.fails = {}
              /\ r.model = initial.model /\ Open(r) = ~initial.auto
              /\ ~r.dirty
              /\ r.fate = IF s.dirty THEN "rolledback" ELSE s.fate
<1> DEFINE r == LogIn(s)
<1>1. PICK v \in State :
         /\ r = SetAutoCommit(v, initial.auto)
         /\ v.model = s.model /\ v.eot = s.eot /\ v.fails = s.fails
         /\ v.auto = be.autostart /\ v.intx = ~be.autostart
         /\ v.dbauto = be.autostart /\ ~v.dbtx /\ ~v.dirty
         /\ v.fate = IF s.dirty THEN "rolledback" ELSE s.fate
  BY LogInEffect
<1>2. r = IF initial.auto THEN SetAutoCommitOn(v) ELSE SetAutoCommitOff(v)
  BY <1>1 DEF SetAutoCommit
<1> HIDE DEF r
<1>3. v.fails = {} /\ v.model = initial.model /\ initial.model \in dep.models
  BY <1>1 DEF Configured
<1>4. /\ initial.auto \in BOOLEAN
      /\ initial.model \in {"none", "error"} => be.autostart
      /\ initial.model = "none" => initial.auto
      /\ ByBegin(dep) => be.autostart /\ initial.auto = (initial.model # "implicit")
  BY <1>3
  DEF Configured, Follows, BeginsAlways, Begins, Implicitly, Deferred, ByAutocommit,
      ByBegin, be
<1>5. NoNewWork(v, r)
  BY <1>2, NoNewWorkByOperations
<1>6. r.fails = {} /\ ~r.dirty /\ r.fate = v.fate
  BY <1>1, <1>3, <1>5 DEF NoNewWork
<1>7. Agrees(v) /\ Open(v) = ~be.autostart
  BY <1>1 DEF Agrees, Open, State
<1>8. ~Begun(v) /\ ~(v.model = "error" /\ Open(v))
  BY <1>1, <1>3, <1>4, <1>7 DEF Begun
<1>9. ~(ByBegin(dep) /\ initial.model = "implicit") => Tracks(v)
  <2>1. ASSUME BeginsAlways(dep) PROVE TracksBegins(v)
    BY <1>1, <1>3, <2>1 DEF TracksBegins, BeginsAlways, Begins, be
  <2>2. ASSUME Implicitly(dep) PROVE TracksImplicitly(v)
    BY <1>1, <1>3, <2>2 DEF TracksImplicitly
  <2>3. ASSUME Deferred(dep) PROVE TracksDeferred(v)
    BY <1>1, <2>3 DEF TracksDeferred, Deferred, be
  <2>4. ASSUME ByAutocommit(dep) PROVE TracksByAutocommit(v)
    BY <1>1, <1>3, <2>4 DEF TracksByAutocommit
  <2>5. ASSUME ByBegin(dep), initial.model # "implicit" PROVE TracksByBegin(v)
    BY <1>1, <1>3, <2>5 DEF TracksByBegin, ByBegin, be
  <2>. QED BY <1>3, <1>7, <2>1, <2>2, <2>3, <2>4, <2>5 DEF Tracks, Follows
<1>10. Tracks(r) /\ r.model = initial.model /\ Open(r) = ~initial.auto /\ ~Begun(r)
  <2>1. CASE initial.auto
    <3>1. Tracks(v) /\ (ByBegin(dep) => v.model # "implicit" /\ ~Open(v))
      BY <1>3, <1>4, <1>7, <1>9, <2>1
    <3>2. Tracks(r) /\ TurnsOn(v, r)
      BY <1>2, <1>3, <2>1, <3>1, OnTracks DEF Failed
    <3>. QED BY <1>3, <1>4, <1>8, <2>1, <3>2 DEF TurnsOn, Begun, Open
  <2>2. CASE ~initial.auto
    <3>1. Tracks(r) /\ TurnsOff(v, r)
      <4>1. CASE ByBegin(dep)
        <5>1. Closed(v) /\ v.model = "implicit"
          BY <1>1, <1>3, <1>4, <2>2, <4>1 DEF Closed
        <5>. QED BY <1>2, <1>3, <2>2, <4>1, <5>1, OffByBegin
      <4>2. CASE ~ByBegin(dep)
        BY <1>2, <1>3, <1>9, <2>2, <4>2, OffTracks DEF Failed
      <4>. QED BY <4>1, <4>2
    <3>. QED BY <1>3, <1>4, <1>8, <2>2, <3>1 DEF TurnsOff, Open
  <2>. QED BY <2>1, <2>2
<1>11. r.auto = initial.auto
  BY <1>4, <1>10 DEF Tracks, Agrees
<1>. QED BY <1>1, <1>6, <1>10, <1>11 DEF Settled, r

LEMMA SettingsTracks ==
    ASSUME dep \in Deployment, NEW s, Tracks(s), s.fails = {}, "settings" \in dep.uses
    PROVE  /\ Tracks(SetIncludingOn(s)) /\ TurnsOn(s, SetIncludingOn(s))
           /\ Tracks(SetIncludingOff(s)) /\ TurnsOff(s, SetIncludingOff(s))
<1>1. s \in State /\ SetIncludingOn(s) \in State /\ SetIncludingOff(s) \in State
  BY SettingsType DEF Tracks
<1>2. TracksByAutocommit(s)
  BY DEF Tracks, TracksBegins, TracksImplicitly, TracksDeferred, TracksByBegin,
         BeginsAlways, Implicitly, Deferred, ByBegin
<1>3. /\ be.native # "implicit" /\ be.hasac /\ s.model = "explicit"
      /\ s.auto = s.dbauto /\ s.intx = ~s.auto /\ ~s.dbtx
      /\ s.auto => ~s.dirty
  BY <1>1, <1>2 DEF TracksByAutocommit, ByAutocommit, be, Tracks, Agrees, Open, State
<1>4. ASSUME NEW r \in State, r.model = s.model, r.fails = s.fails, ~r.dbtx,
             Agrees(r)
      PROVE  Tracks(r)
  BY <1>2, <1>4 DEF TracksByAutocommit, Tracks
<1>5. ASSUME NEW t \in State, NEW on \in BOOLEAN
      PROVE  LET u == [MarkNeeds(t, TRUE) EXCEPT !.auto = on]
             IN  /\ u \in State /\ u.auto = on /\ SameDatabase(t, u)
                 /\ u.model = t.model /\ u.intx = t.intx /\ u.fails = t.fails
                 /\ u.ok = t.ok
                 /\ u.needs \/ u.model = "none"
  <2> DEFINE m == MarkNeeds(t, TRUE)
  <2>1. /\ m \in State /\ SameDatabase(t, m)
        /\ m.model = t.model /\ m.intx = t.intx /\ m.fails = t.fails
        /\ m.ok = t.ok
        /\ m.needs \/ m.model = "none"
    <3>1. CASE t.model = "none"
      BY <3>1 DEF MarkNeeds, SameDatabase, SameWork
    <3>2. CASE t.model # "none"
      <4>1. m = [t EXCEPT !.needs = TRUE]
        BY <3>2 DEF MarkNeeds
      <4> HIDE DEF m
      <4>. QED BY <4>1 DEF State, SameDatabase, SameWork
    <3>. QED BY <3>1, <3>2
  <2> HIDE DEF m
  <2> DEFINE u == [m EXCEPT !.auto = on]
  <2>2. u \in State /\ u.auto = on
    BY <2>1 DEF State
  <2>3. /\ SameDatabase(m, u) /\ u.needs = m.needs
        /\ u.model = m.model /\ u.intx = m.intx /\ u.fails = m.fails
        /\ u.ok = m.ok
    BY <2>1 DEF State, SameDatabase, SameWork
  <2>4. SameDatabase(t, u)
    BY <2>1, <2>3 DEF SameDatabase, SameWork
  <2> HIDE DEF u
  <2>5. /\ u \in State /\ u.auto = on /\ SameDatabase(t, u)
        /\ u.model = t.model /\ u.intx = t.intx /\ u.fails = t.fails
        /\ u.ok = t.ok
        /\ u.needs \/ u.model = "none"
    BY <2>1, <2>2, <2>3, <2>4
  <2>. QED BY <2>5 DEF m, u
<1>6. Tracks(SetIncludingOn(s)) /\ TurnsOn(s, SetIncludingOn(s))
  <2> DEFINE a == DbAutoOn(s)
             t == [MarkNeeds(a, TRUE) EXCEPT !.auto = TRUE]
             r == SetIncludingOn(s)
  <2>1. a \in State /\ OnEffect(s, a)
    BY <1>1, DbType, DbAutoOnEffect
  <2>2. r = IF t.intx THEN EndTransaction(t) ELSE t
    BY DEF SetIncludingOn
  <2> HIDE DEF a
  <2>3. /\ t \in State /\ t.auto = TRUE /\ SameDatabase(a, t)
        /\ t.model = a.model /\ t.intx = a.intx /\ t.fails = a.fails
        /\ t.ok = a.ok
    BY <1>5, <2>1
  <2> HIDE DEF t, r
  <2>4. /\ t.ok /\ t.dbauto /\ ~t.dbtx /\ WorkOver(s, t, "committed") /\ t.fails = {}
        /\ t.model = "explicit" /\ t.intx = s.intx
    BY <1>1, <1>3, <2>1, <2>3
    DEF OnEffect, Same, SameControl, SameDatabase, SameWork, WorkOver
  <2>5. /\ r.ok /\ r.auto = TRUE /\ r.intx = FALSE /\ r.model = "explicit" /\ r.fails = {}
        /\ r.dbauto /\ ~r.dbtx /\ WorkOver(s, r, "committed")
    <3>1. CASE ~t.intx
      BY <2>2, <2>3, <2>4, <3>1 DEF State
    <3>2. CASE t.intx
      <4>1. AfterEffect(t, r)
        BY <2>2, <2>3, <3>2, EndTransactionEffect
      <4>2. PICK d \in State : SameDatabase(d, r) /\ FollowUp(t, d)
        BY <4>1 DEF AfterEffect
      <4>. QED
        BY <1>3, <2>3, <2>4, <4>1, <4>2
        DEF AfterEffect, FollowUp, OnEffect, Same, SameDatabase, SameWork, WorkOver
    <3>. QED BY <3>1, <3>2
  <2>6. ~Open(r) /\ Agrees(r)
    BY <2>5 DEF Open, Agrees, WorkOver
  <2>7. Tracks(r)
    BY <1>1, <1>3, <1>4, <2>5, <2>6 DEF r
  <2>. QED BY <1>3, <2>5, <2>6, <2>7 DEF TurnsOn, Begun, r
<1>7. Tracks(SetIncludingOff(s)) /\ TurnsOff(s, SetIncludingOff(s))
  <2> DEFINE a == DbAutoOff(s)
             t == [MarkNeeds(a, TRUE) EXCEPT !.auto = FALSE]
             r == SetIncludingOff(s)
  <2>1. a \in State /\ OffEffect(s, a)
    BY <1>1, DbType, DbAutoOffEffect
  <2>2. r = IF t.intx THEN t ELSE BeginTransaction(t)
    BY DEF SetIncludingOff
  <2> HIDE DEF a
  <2>3. /\ t \in State /\ t.auto = FALSE /\ SameDatabase(a, t)
        /\ t.model = a.model /\ t.intx = a.intx /\ t.fails = a.fails
        /\ t.ok = a.ok
        /\ t.needs \/ t.model = "none"
    BY <1>5, <2>1
  <2> HIDE DEF t, r
  <2>4. /\ t.ok /\ ~t.dbauto /\ ~t.dbtx /\ SameWork(s, t) /\ t.fails = {}
        /\ t.model = "explicit" /\ t.needs
    BY <1>1, <1>3, <2>1, <2>3
    DEF OffEffect, SameControl, SameDatabase, SameWork
  <2>5. /\ BeginTransaction(t).ok /\ BeginTransaction(t).intx
        /\ ~BeginTransaction(t).auto /\ SameDatabase(t, BeginTransaction(t))
        /\ BeginTransaction(t).model = t.model
        /\ BeginTransaction(t).fails = t.fails
        /\ BeginTransaction(t).needs = t.needs
    BY <2>3 DEF BeginTransaction, State, SameDatabase, SameWork
  <2>6. /\ r.ok /\ ~r.auto /\ r.intx /\ r.model = "explicit" /\ r.fails = {}
        /\ ~r.dbauto /\ ~r.dbtx /\ SameWork(s, r) /\ r.needs
    BY <2>2, <2>3, <2>4, <2>5 DEF SameDatabase, SameWork
  <2>7. Open(r) /\ Agrees(r)
    BY <1>1, <2>6 DEF Open, Agrees, Owes, State, r
  <2>8. Tracks(r)
    BY <1>1, <1>3, <1>4, <2>6, <2>7 DEF r
  <2>. QED BY <1>3, <2>6, <2>7, <2>8 DEF TurnsOff, Begun, r
<1>. QED BY <1>6, <1>7

-----------------------------------------------------------------------------
(* The invariant, and each step as one of the transaction model.            *)

\* Between requests.  A block that hides a begin is harmless where a transaction
\* is always open.
Between(s) ==
    Tracks(s) /\ s.fails = {} /\ ("block" \in dep.uses => Open(s))

FollowInv ==
    /\ Configured
    /\ Follows(dep) => Between(st) /\ (phase = "idle" => Settled(st))

\* What a request starts from.
LEMMA AskedTracks ==
    ASSUME dep \in Deployment, NEW s, Between(s), NEW F \in SUBSET DbCalls,
           F # {} => dep.failures > 0
    PROVE  LET a == [s EXCEPT !.fails = F, !.fate = "none"]
           IN /\ a \in State /\ Tracks(a) /\ a.fails = F /\ a.fate = "none"
              /\ a.dirty = s.dirty /\ a.model = s.model /\ Open(a) = Open(s)
              /\ Begun(a) = Begun(s) /\ a.auto = s.auto /\ a.dbtx = s.dbtx
<1> DEFINE a == [s EXCEPT !.fails = F, !.fate = "none"]
<1>1. /\ s \in State /\ a \in State /\ a.fails = F /\ a.fate = "none"
      /\ a.model = s.model /\ a.auto = s.auto /\ a.intx = s.intx /\ a.eot = s.eot
      /\ a.needs = s.needs /\ a.dbauto = s.dbauto /\ a.dbtx = s.dbtx /\ a.dirty = s.dirty
  BY DEF Between, Tracks, State
<1> HIDE DEF a
<1>2. Open(a) = Open(s) /\ Begun(a) = Begun(s) /\ Agrees(a)
  BY <1>1
  DEF Open, Begun, Between, Tracks, Agrees, Owes, FakingExplicit, FakingImplicit
<1>3. Tracks(s) /\ (F = {} \/ Deferred(dep))
  BY DEF Between, Tracks, TracksBegins, TracksImplicitly, TracksDeferred,
         TracksByAutocommit, TracksByBegin, BeginsAlways, Implicitly,
         ByAutocommit, ByBegin
<1>4. TracksBegins(s) /\ F = {} => TracksBegins(a)
  BY <1>1 DEF TracksBegins
<1>5. TracksImplicitly(s) /\ F = {} => TracksImplicitly(a)
  BY <1>1 DEF TracksImplicitly
<1>6. TracksDeferred(s) => TracksDeferred(a)
  BY <1>1 DEF TracksDeferred
<1>7. TracksByAutocommit(s) /\ F = {} => TracksByAutocommit(a)
  BY <1>1 DEF TracksByAutocommit
<1>8. TracksByBegin(s) /\ F = {} => TracksByBegin(a)
  BY <1>1 DEF TracksByBegin
<1>9. F # {} => TracksDeferred(s)
  BY <1>3
  DEF Tracks, TracksBegins, TracksImplicitly, TracksByAutocommit, TracksByBegin,
      BeginsAlways, Begins, Implicitly, ByAutocommit, ByBegin, Deferred
<1>10. Tracks(a)
  BY <1>1, <1>2, <1>3, <1>4, <1>5, <1>6, <1>7, <1>8, <1>9 DEF Tracks
<1>. QED BY <1>1, <1>2, <1>10 DEF a

\* What it leaves.
LEMMA AnsweredTracks ==
    ASSUME NEW r, Tracks(r), NEW s, s = [r EXCEPT !.fails = {}]
    PROVE  /\ s \in State /\ Tracks(s) /\ s.fails = {}
           /\ s.ok = r.ok /\ s.model = r.model /\ s.dirty = r.dirty /\ s.fate = r.fate
           /\ s.eot = r.eot /\ s.dbauto = r.dbauto /\ s.dbtx = r.dbtx
<1>1. /\ r \in State /\ s \in State /\ s.fails = {} /\ s.ok = r.ok /\ s.fate = r.fate
      /\ s.model = r.model /\ s.auto = r.auto /\ s.intx = r.intx /\ s.eot = r.eot
      /\ s.needs = r.needs /\ s.dbauto = r.dbauto /\ s.dbtx = r.dbtx /\ s.dirty = r.dirty
  BY DEF Tracks, State
<1>2. Agrees(s)
  BY <1>1 DEF Open, Tracks, Agrees, Owes, FakingExplicit, FakingImplicit
<1>4. TracksBegins(r) => TracksBegins(s)
  BY <1>1 DEF TracksBegins
<1>5. TracksImplicitly(r) => TracksImplicitly(s)
  BY <1>1 DEF TracksImplicitly
<1>6. TracksDeferred(r) => TracksDeferred(s)
  BY <1>1 DEF TracksDeferred
<1>7. TracksByAutocommit(r) => TracksByAutocommit(s)
  BY <1>1 DEF TracksByAutocommit
<1>8. TracksByBegin(r) => TracksByBegin(s)
  BY <1>1 DEF TracksByBegin
<1>. QED BY <1>1, <1>2, <1>4, <1>5, <1>6, <1>7, <1>8 DEF Tracks

\* A request whose effect on the transaction is one of the transaction model's.
RequestEffect(name, a, r) ==
    \/ name = "begin" /\ Starts(a, r)
    \/ name = "commit" /\ Ends(a, r, "committed")
    \/ name = "rollback" /\ Ends(a, r, "rolledback")
    \/ name \in {"on", "settings on"} /\ TurnsOn(a, r)
    \/ name \in {"off", "settings off"} /\ TurnsOff(a, r)
    \/ name = "switch" /\ Switches(a, r, r.model)
    \/ name = "query" /\ Queried(a, r)
    \/ Failed(a, r)

LEMMA OneMore == ASSUME NEW n \in Nat, NEW m, m = n + 1 PROVE m > n
  OBVIOUS

LEMMA RequestFollows ==
    ASSUME dep \in Deployment, failures \in Nat, Between(st), NEW F \in SUBSET DbCalls,
           F # {} => dep.failures > 0,
           NEW name \in {"begin", "commit", "rollback", "on", "settings on", "off",
                         "settings off", "switch", "query"},
           NEW STATE r, Tracks(r), Request(name, F, r), RequestEffect(name, Asked(F), r)
    PROVE  /\ Tracks(st') /\ st'.fails = {} /\ Open(st') = Open(r)
           /\ Model!ModelNext
<1> DEFINE a == Asked(F)
<1>1. /\ a \in State /\ Tracks(a) /\ a.fails = F /\ a.fate = "none"
      /\ a.dirty = st.dirty /\ a.model = st.model /\ Open(a) = Open(st)
      /\ Begun(a) = Begun(st) /\ a.auto = st.auto /\ a.dbtx = st.dbtx
  BY AskedTracks DEF Asked
<1>2. /\ st' \in State /\ Tracks(st') /\ st'.fails = {}
      /\ st'.ok = r.ok /\ st'.model = r.model /\ st'.dirty = r.dirty /\ st'.fate = r.fate
      /\ st'.eot = r.eot /\ st'.dbauto = r.dbauto /\ st'.dbtx = r.dbtx
  BY AnsweredTracks DEF Request
<1>3. Open(st') = Open(r) /\ Begun(st') = Begun(r)
  BY <1>2 DEF Open, Begun
<1> DEFINE open == ~st.dbauto \/ st.dbtx
           begun == st.model = "deferred" /\ st.eot /\ (~st.dbauto \/ st.dbtx)
<1>4. /\ last' = name /\ dep' = dep /\ initial' = initial
      /\ failures' = failures + (IF F = {} THEN 0 ELSE 1)
  BY DEF Request
<1>5. open = Open(a) /\ begun = Begun(a) /\ open' = Open(r) /\ begun' = Begun(r)
  BY <1>1, <1>2, <1>3 DEF Open, Begun
<1>6. /\ st.model = a.model /\ st.dirty = a.dirty /\ st.dirty \in BOOLEAN
      /\ st.model' = r.model /\ st.dirty' = r.dirty /\ st.fate' = r.fate
      /\ st.ok' = r.ok /\ st.dirty' \in BOOLEAN /\ a.fate = "none"
      /\ a.dirty => Open(a)
      /\ st.model \in TxModels
  BY <1>1, <1>2 DEF State, Tracks, Agrees
<1> HIDE DEF a, open, begun
<1> SUFFICES Model!ModelNext
  BY <1>2, <1>3
<1> USE DEF Model!ModelNext, Stays, SameWork, WorkOver, open, begun
<1>10. CASE name = "begin" /\ Starts(a, r)
  BY <1>4, <1>5, <1>6, <1>10 DEF Model!Begin, Model!NoChange, Starts
<1>11. CASE name = "commit" /\ Ends(a, r, "committed")
  BY <1>4, <1>5, <1>6, <1>11 DEF Model!End, Model!Over, Ends
<1>12. CASE name = "rollback" /\ Ends(a, r, "rolledback")
  BY <1>4, <1>5, <1>6, <1>12 DEF Model!End, Model!Over, Ends
<1>13. CASE name \in {"on", "settings on"} /\ TurnsOn(a, r)
  BY <1>4, <1>5, <1>6, <1>13
  DEF Model!On, Model!OnDeferred, Model!AutoCommitError, Model!Over, Model!NoChange,
      TurnsOn, Begun
<1>14. CASE name \in {"off", "settings off"} /\ TurnsOff(a, r)
  BY <1>4, <1>5, <1>6, <1>14
  DEF Model!Off, Model!AutoCommitError, Model!NoChange, TurnsOff
<1>15. CASE name = "switch" /\ Switches(a, r, r.model)
  BY <1>4, <1>5, <1>6, <1>15
  DEF Model!Switch, Model!Over, Model!NoChange, Switches
<1>16. CASE name = "query" /\ Queried(a, r)
  BY <1>4, <1>5, <1>6, <1>16 DEF Model!Query, Queried
<1>17. CASE Failed(a, r)
  <2>1. a.fails # {}
    BY <1>17 DEF Failed
  <2>2. F # {}
    BY <1>1, <2>1
  <2>5. failures' = failures + 1
    BY <1>4, <2>2
  <2>6. failures' > failures
    BY <2>5, OneMore
  <2>3. ~r.ok /\ Stays(a, r)
    BY <1>17 DEF Failed
  <2>4. Model!Failed
    <3>1. ~st'.ok /\ st'.model = st.model /\ st'.dirty = st.dirty /\ st'.fate = "none"
      BY <1>2, <1>6, <2>3
    <3>2. open' = open /\ begun' = begun
      BY <1>5, <2>3
    <3>. QED BY <2>6, <3>1, <3>2 DEF Model!Failed, Model!NoChange
  <2>. QED BY <1>4, <2>4
<1>. QED
  BY <1>10, <1>11, <1>12, <1>13, <1>14, <1>15, <1>16, <1>17 DEF RequestEffect, a

\* No request ends for good the transaction a block's begin would hide in.
LEMMA BlockStaysOpen ==
    ASSUME "block" \in dep.uses, NEW a, Tracks(a), Open(a), NEW name, NEW r,
           RequestEffect(name, a, r),
           name \in {"on", "off"} => "auto" \in dep.uses,
           name \in {"settings on", "settings off"} => "settings" \in dep.uses,
           name = "switch" => "switch" \in dep.uses
    PROVE  Open(r)
<1>1. /\ BeginsAlways(dep) /\ dep.models \subseteq {"implicit"}
      /\ dep.uses \subseteq {"begin", "block"} /\ a.fails = {}
  BY DEF Tracks, TracksBegins, TracksImplicitly, TracksDeferred, TracksByAutocommit,
         TracksByBegin, BeginsAlways, Implicitly, Deferred, ByAutocommit, ByBegin
<1>2. a.model = "implicit"
  BY <1>1 DEF Tracks
<1>3. \/ Starts(a, r) \/ Queried(a, r)
      \/ \E how \in {"committed", "rolledback"} : Ends(a, r, how)
  BY <1>1 DEF RequestEffect, Failed
<1>. QED BY <1>2, <1>3 DEF Starts, Queried, Ends, Stays, Open

LEMMA RequestKeeps ==
    ASSUME dep \in Deployment, failures \in Nat, Between(st), NEW F \in SUBSET DbCalls,
           F # {} => dep.failures > 0,
           NEW name \in {"begin", "commit", "rollback", "on", "settings on", "off",
                         "settings off", "switch", "query"},
           name \in {"on", "off"} => "auto" \in dep.uses,
           name \in {"settings on", "settings off"} => "settings" \in dep.uses,
           name = "switch" => "switch" \in dep.uses,
           NEW STATE r, Tracks(r), Request(name, F, r), RequestEffect(name, Asked(F), r)
    PROVE  Between(st') /\ phase' = "session" /\ Model!ModelNext
<1>1. Tracks(Asked(F)) /\ Open(Asked(F)) = Open(st)
  BY AskedTracks DEF Asked
<1>2. Tracks(st') /\ st'.fails = {} /\ Open(st') = Open(r) /\ Model!ModelNext
  BY RequestFollows
<1>3. "block" \in dep.uses => Open(r)
  BY <1>1, BlockStaysOpen DEF Between
<1>4. phase' = "session"
  BY DEF Request
<1>. QED BY <1>2, <1>3, <1>4 DEF Between

\* The next session finds the connection settled, and forgetting whether the last
\* one made changes does no harm.
LEMMA BeginSessionTracks ==
    ASSUME Configured, NEW s, Between(s), Settled(s)
    PROVE  LET r == [s EXCEPT !.needs = FALSE, !.ok = TRUE, !.fate = "none"]
           IN /\ Between(r) /\ r.model = s.model /\ Open(r) = Open(s)
              /\ Begun(r) = Begun(s) /\ r.dirty = s.dirty /\ r.fate = "none"
<1> DEFINE r == [s EXCEPT !.needs = FALSE, !.ok = TRUE, !.fate = "none"]
<1>1. /\ s \in State /\ r \in State /\ r.fate = "none" /\ r.fails = s.fails
      /\ r.model = s.model /\ r.auto = s.auto /\ r.intx = s.intx /\ r.eot = s.eot
      /\ r.dbauto = s.dbauto /\ r.dbtx = s.dbtx /\ r.dirty = s.dirty
  BY DEF Between, Tracks, State
<1> HIDE DEF r
<1>2. Open(r) = Open(s) /\ Begun(r) = Begun(s)
  BY <1>1 DEF Open, Begun
<1>3. Agrees(r)
  BY <1>1, <1>2 DEF Between, Tracks, Agrees, Settled
<1>4. s.auto => ~Open(s)
  BY DEF Between, Tracks, Agrees
<1>5. dep.autos \subseteq {"default"} /\ s.model # "implicit" => ~Open(s)
  BY <1>4 DEF Configured, Settled
<1>6. TracksBegins(s) => TracksBegins(r)
  BY <1>1, <1>5 DEF TracksBegins, BeginsAlways, Begins, Settled, Begun, Open
<1>7. TracksImplicitly(s) => TracksImplicitly(r)
  BY <1>1 DEF TracksImplicitly
<1>8. TracksDeferred(s) => TracksDeferred(r)
  <2> SUFFICES ASSUME TracksDeferred(s) PROVE TracksDeferred(r)
    OBVIOUS
  <2>1. s.model = "deferred"
    BY DEF TracksDeferred, Deferred, Between, Tracks
  <2>2. ~(~s.auto /\ s.eot)
    BY <2>1 DEF Settled, Begun, Between, Tracks, Agrees
  <2>. QED BY <1>1, <2>2 DEF TracksDeferred
<1>9. TracksByAutocommit(s) => TracksByAutocommit(r)
  BY <1>1 DEF TracksByAutocommit
<1>10. TracksByBegin(s) => TracksByBegin(r)
  BY <1>1, <1>5 DEF TracksByBegin, ByBegin, Open
<1>11. Tracks(r)
  BY <1>1, <1>3, <1>6, <1>7, <1>8, <1>9, <1>10 DEF Between, Tracks
<1>. QED BY <1>1, <1>2, <1>11 DEF Between, r

\* Every step is one of the transaction model, and leaves the connection as the
\* next finds it.
LEMMA StepFollows ==
    ASSUME dep \in Deployment, TypeOK, Configured, Follows(dep),
           Between(st), phase = "idle" => Settled(st), Next
    PROVE  Between(st') /\ (phase' = "idle" => Settled(st')) /\ Model!ModelNext
<1> DEFINE asked == Asked({})
<1>0. /\ failures \in Nat /\ dep.failures \in Nat /\ st \in State
      /\ st.fails = {} /\ initial.model \in dep.models
      /\ dep.models \subseteq TxModels
  BY DEF TypeOK, Deployment, Between
<1>1. \A F \in Failing : F \in SUBSET DbCalls /\ (F # {} => dep.failures > 0)
  BY <1>0 DEF Failing
<1>2. ASSUME NEW F \in SUBSET DbCalls, F # {} => dep.failures > 0
      PROVE  /\ Asked(F) \in State /\ Tracks(Asked(F)) /\ Asked(F).fails = F
             /\ Asked(F).fate = "none" /\ Asked(F).dirty = st.dirty
             /\ Asked(F).model = st.model /\ Open(Asked(F)) = Open(st)
             /\ Asked(F).auto = st.auto /\ Asked(F).dbtx = st.dbtx
  BY <1>2, AskedTracks DEF Asked
<1>3. /\ asked \in State /\ Tracks(asked) /\ asked.fails = {} /\ asked.fate = "none"
      /\ asked.dirty = st.dirty /\ asked.model = st.model /\ Open(asked) = Open(st)
      /\ asked.auto = st.auto /\ asked.dbtx = st.dbtx
  BY <1>2
<1>4. "auto" \in dep.uses => ~ByBegin(dep)
  BY DEF ByBegin
<1> HIDE DEF asked
<1>5. ASSUME phase' = "session", Between(st'), Model!ModelNext
      PROVE  Between(st') /\ (phase' = "idle" => Settled(st')) /\ Model!ModelNext
  BY <1>5
<1>6. CASE ClientBegin
  <2>1. PICK F \in Failing : Request("begin", F, Begin(Asked(F)))
    BY <1>6 DEF ClientBegin
  <2>2. F \in SUBSET DbCalls /\ (F # {} => dep.failures > 0) /\ Tracks(Asked(F))
    BY <1>1, <1>2
  <2>3. Tracks(Begin(Asked(F))) /\ RequestEffect("begin", Asked(F), Begin(Asked(F)))
    BY <1>6, <2>2, BeginTracks DEF ClientBegin, RequestEffect
  <2>. QED BY <1>0, <1>5, <1>6, <2>1, <2>2, <2>3, RequestKeeps DEF ClientBegin
<1>7. CASE ClientCommit
  <2>1. PICK F \in Failing : Request("commit", F, Commit(Asked(F)))
    BY <1>7 DEF ClientCommit
  <2>2. F \in SUBSET DbCalls /\ (F # {} => dep.failures > 0) /\ Tracks(Asked(F))
    BY <1>1, <1>2
  <2>3. Tracks(Commit(Asked(F))) /\ RequestEffect("commit", Asked(F), Commit(Asked(F)))
    BY <1>7, <2>2, CommitTracks DEF ClientCommit, RequestEffect
  <2>. QED BY <1>0, <1>5, <1>7, <2>1, <2>2, <2>3, RequestKeeps DEF ClientCommit
<1>8. CASE ClientRollback
  <2>1. PICK F \in Failing : Request("rollback", F, Rollback(Asked(F)))
    BY <1>8 DEF ClientRollback
  <2>2. F \in SUBSET DbCalls /\ (F # {} => dep.failures > 0) /\ Tracks(Asked(F))
    BY <1>1, <1>2
  <2>3. Tracks(Rollback(Asked(F))) /\ RequestEffect("rollback", Asked(F), Rollback(Asked(F)))
    BY <1>8, <2>2, RollbackTracks DEF ClientRollback, RequestEffect
  <2>. QED BY <1>0, <1>5, <1>8, <2>1, <2>2, <2>3, RequestKeeps DEF ClientRollback
<1>9. CASE AutoCommitOn
  <2>1. PICK F \in Failing : Request("on", F, SetAutoCommitOn(Asked(F)))
    BY <1>9 DEF AutoCommitOn
  <2>2. F \in SUBSET DbCalls /\ (F # {} => dep.failures > 0) /\ Tracks(Asked(F))
    BY <1>1, <1>2
  <2>3. Tracks(SetAutoCommitOn(Asked(F))) /\ RequestEffect("on", Asked(F), SetAutoCommitOn(Asked(F)))
    BY <1>9, <2>2, <1>4, OnTracks DEF AutoCommitOn, RequestEffect
  <2>. QED BY <1>0, <1>5, <1>9, <2>1, <2>2, <2>3, RequestKeeps DEF AutoCommitOn
<1>10. CASE AutoCommitOff
  <2>1. PICK F \in Failing : Request("off", F, SetAutoCommitOff(Asked(F)))
    BY <1>10 DEF AutoCommitOff
  <2>2. F \in SUBSET DbCalls /\ (F # {} => dep.failures > 0) /\ Tracks(Asked(F))
    BY <1>1, <1>2
  <2>3. Tracks(SetAutoCommitOff(Asked(F))) /\ RequestEffect("off", Asked(F), SetAutoCommitOff(Asked(F)))
    BY <1>10, <2>2, <1>4, OffTracks DEF AutoCommitOff, RequestEffect
  <2>. QED BY <1>0, <1>5, <1>10, <2>1, <2>2, <2>3, RequestKeeps DEF AutoCommitOff
<1>11. ASSUME NEW m \in dep.models, Switch(m)
      PROVE  Between(st') /\ (phase' = "idle" => Settled(st')) /\ Model!ModelNext
  <2>1. PICK F \in Failing : Request("switch", F, SetTransactionModel(Asked(F), m))
    BY <1>11 DEF Switch
  <2>2. F \in SUBSET DbCalls /\ (F # {} => dep.failures > 0) /\ Tracks(Asked(F))
    BY <1>1, <1>2
  <2>3. /\ Tracks(SetTransactionModel(Asked(F), m))
        /\ Switches(Asked(F), SetTransactionModel(Asked(F), m), m)
    BY <2>2, SwitchTracks
  <2>4. RequestEffect("switch", Asked(F), SetTransactionModel(Asked(F), m))
    BY <2>3 DEF RequestEffect, Switches
  <2>. QED BY <1>0, <1>5, <1>11, <2>1, <2>2, <2>3, <2>4, RequestKeeps DEF Switch
<1>12. Tracks(Query(asked)) /\ Queried(asked, Query(asked))
  BY <1>3, PlainQueryTracks
<1>13. QueryEffect(asked, DbExecute(asked)) /\ DbExecute(asked) \in State
  BY <1>3, DbExecuteEffect, DbType
<1>14. ASSUME NEW STATE r, Tracks(r), Queried(asked, r), Request("query", {}, r)
      PROVE  Between(st') /\ (phase' = "idle" => Settled(st')) /\ Model!ModelNext
  BY <1>0, <1>14, RequestKeeps DEF RequestEffect, asked
<1>15. CASE Execute
  BY <1>12, <1>14, <1>15 DEF Execute, asked
<1>16. CASE CreateTemp
  <2> DEFINE r == [Query(asked) EXCEPT !.temp = TRUE]
  <2>1. /\ Query(asked) \in State /\ QueryEffect(asked, Query(asked))
        /\ asked.auto \/ Query(asked).needs
    BY <1>3, PlainQueryTracks
  <2>2. /\ r \in State /\ QueryEffect(asked, r) /\ r.needs = Query(asked).needs
    BY <2>1, QueryKeepsEffect DEF State
  <2>3. Tracks(r) /\ Queried(asked, r)
    BY <1>3, <2>1, <2>2, QueryTracks
  <2>. QED BY <1>14, <1>16, <2>3 DEF CreateTemp, asked
<1>17. CASE SelectForUpdate
  <2>1. CASE st.auto
    <3>1. Tracks(DbExecute(asked)) /\ Queried(asked, DbExecute(asked))
      BY <1>3, <1>13, <2>1, QueryTracks
    <3>. QED BY <1>14, <1>17, <2>1, <3>1 DEF SelectForUpdate, asked
  <2>2. CASE ~st.auto
    BY <1>12, <1>14, <1>17, <2>2 DEF SelectForUpdate, asked
  <2>. QED BY <2>1, <2>2
<1>18. CASE RollbackToSavepoint
  <2> DEFINE r == MarkNeeds(DbExecute(asked), FALSE)
  <2>1. Implicitly(dep) /\ dep.models \subseteq {"explicit", "deferred"}
    BY <1>18
    DEF RollbackToSavepoint, Follows, BeginsAlways, Implicitly, Deferred,
        ByAutocommit, ByBegin
  <2>2. FakingExplicit(asked)
    BY <1>3, <2>1 DEF Implicitly, FakingExplicit, be, Tracks
  <2>3. r \in State /\ QueryEffect(asked, r)
    BY <1>13, QueryKeepsEffect
  <2>4. Tracks(r) /\ Queried(asked, r)
    BY <1>3, <2>2, <2>3, QueryTracks
  <2>. QED BY <1>14, <1>18, <2>4 DEF RollbackToSavepoint, asked
<1>19. CASE HiddenBegin
  <2>1. BeginsAlways(dep) /\ Open(st)
    BY <1>19
    DEF HiddenBegin, Between, Follows, BeginsAlways, Implicitly, Deferred,
        ByAutocommit, ByBegin
  <2>2. TracksBegins(st)
    BY <2>1
    DEF Between, Tracks, TracksBegins, TracksImplicitly, TracksDeferred,
        TracksByAutocommit, TracksByBegin, BeginsAlways, Begins, Implicitly, Deferred,
        ByAutocommit, ByBegin
  <2>3. st.dbtx = TRUE
    BY <1>0, <2>1, <2>2 DEF TracksBegins, Open, State
  <2>4. [DbExecute(asked) EXCEPT !.dbtx = TRUE] = DbExecute(asked)
    BY <1>3, <1>13, <2>3, QueryKeepsEffect
  <2>. QED BY <1>12, <1>14, <1>19, <2>4 DEF HiddenBegin, Query, asked
<1>20. CASE SettingsOn \/ SettingsOff
  <2>1. "settings" \in dep.uses
    BY <1>20 DEF SettingsOn, SettingsOff
  <2>2. /\ Tracks(SetIncludingOn(asked)) /\ TurnsOn(asked, SetIncludingOn(asked))
        /\ Tracks(SetIncludingOff(asked)) /\ TurnsOff(asked, SetIncludingOff(asked))
    BY <1>3, <2>1, SettingsTracks
  <2>3. CASE SettingsOn
    BY <1>0, <2>1, <2>2, <2>3, RequestKeeps DEF SettingsOn, RequestEffect, asked
  <2>4. CASE SettingsOff
    BY <1>0, <2>1, <2>2, <2>4, RequestKeeps DEF SettingsOff, RequestEffect, asked
  <2>. QED BY <1>20, <2>3, <2>4
<1>21. [st EXCEPT !.fate = "none"] = asked
  BY <1>0 DEF asked, Asked, State
<1>22. CASE BeginSession
  <2> DEFINE r == [st EXCEPT !.needs = FALSE, !.ok = TRUE, !.fate = "none"]
  <2>1. /\ Between(r) /\ r.model = st.model /\ Open(r) = Open(st)
        /\ Begun(r) = Begun(st) /\ r.dirty = st.dirty /\ r.fate = "none"
    BY <1>22, BeginSessionTracks DEF BeginSession
  <2> HIDE DEF r
  <2>2. st' = r /\ phase' = "session" /\ last' = "session" /\ dep' = dep
        /\ initial' = initial
    BY <1>22 DEF BeginSession, r
  <2>3. Model!BeginSession
    BY <2>1, <2>2 DEF Model!BeginSession, Model!NoChange, Open, Begun
  <2>. QED BY <2>1, <2>2, <2>3 DEF Model!ModelNext
<1>23. CASE EndSession
  <2> DEFINE r == EndOfSession(asked)
  <2>1. /\ Tracks(r) /\ Settled(r) /\ r.fails = {}
        /\ r.model = initial.model /\ Open(r) = ~initial.auto
        /\ ~r.dirty
        /\ IF asked.dirty THEN r.fate = AtEnd ELSE r.fate \in {"none", "committed"}
    BY <1>3, EndSessionTracks
  <2> HIDE DEF r
  <2>2. /\ st' = r /\ phase' = "idle" /\ last' = "end" /\ dep' = dep
        /\ initial' = initial
    BY <1>21, <1>23 DEF EndSession, r
  <2>3. Open(r) = (r.model # "none" /\ ~initial.auto)
    BY <2>1, NoneIsAuto DEF Settled
  <2>4. Model!EndSession
    BY <1>3, <2>1, <2>2, <2>3
    DEF Model!EndSession, Model!Over, Settled, Open, Begun, AtEnd, Tracks, State
  <2>5. "block" \in dep.uses => Open(r)
    BY <2>1
    DEF Configured, Follows, BeginsAlways, Begins, Implicitly, Deferred, ByAutocommit,
        ByBegin
  <2>. QED BY <2>1, <2>2, <2>4, <2>5 DEF Model!ModelNext, Between
<1>24. CASE Reconnect
  <2> DEFINE r == LogIn(asked)
  <2>1. Deferred(dep)
    BY <1>0, <1>24
    DEF Reconnect, Follows, BeginsAlways, Begins, Implicitly, Deferred, ByAutocommit,
        ByBegin
  <2>2. st.model = "deferred" /\ initial.model = "deferred" /\ be.autostart
    BY <1>0, <2>1 DEF Deferred, Between, Tracks, be
  <2>3. /\ Tracks(r) /\ Settled(r) /\ r.fails = {}
        /\ r.model = initial.model /\ Open(r) = ~initial.auto
        /\ ~r.dirty
        /\ r.fate = IF asked.dirty THEN "rolledback" ELSE asked.fate
    BY <1>3, <2>2, LogInTracks
  <2> HIDE DEF r
  <2>4. /\ st' = r /\ phase' = "session" /\ last' = "login" /\ dep' = dep
        /\ initial' = initial
    BY <1>21, <1>24 DEF Reconnect, r
  <2>5. Model!LogIn
    BY <1>3, <2>2, <2>3, <2>4 DEF Model!LogIn, Model!Over, Settled, Open, Begun
  <2>6. "block" \notin dep.uses
    BY <2>1 DEF Deferred
  <2>. QED BY <2>3, <2>4, <2>5, <2>6 DEF Model!ModelNext, Between
<1>. QED
  BY <1>5, <1>6, <1>7, <1>8, <1>9, <1>10, <1>11, <1>15, <1>16, <1>17, <1>18, <1>19,
     <1>20, <1>22, <1>23, <1>24 DEF Next

\* What is said of the connection is said by a deployment, which never changes.
LEMMA SameDeployment ==
    ASSUME dep' = dep
    PROVE  /\ Follows(dep)' <=> Follows(dep)
           /\ Between(st') => Between(st)'
<1>1. Follows(dep)' <=> Follows(dep)
  BY DEF Follows, BeginsAlways, Begins, Implicitly, Deferred, ByAutocommit, ByBegin
<1>2. Agrees(st') => Agrees(st)'
  BY DEF Agrees, Owes, FakingExplicit, FakingImplicit, be, Open
<1>3. TracksBegins(st') => TracksBegins(st)'
  BY DEF TracksBegins, BeginsAlways, Begins
<1>4. TracksImplicitly(st') => TracksImplicitly(st)'
  BY DEF TracksImplicitly, Implicitly
<1>5. TracksDeferred(st') => TracksDeferred(st)'
  BY DEF TracksDeferred, Deferred
<1>6. TracksByAutocommit(st') => TracksByAutocommit(st)'
  BY DEF TracksByAutocommit, ByAutocommit
<1>7. TracksByBegin(st') => TracksByBegin(st)'
  BY DEF TracksByBegin, ByBegin
<1>8. Tracks(st') => Tracks(st)'
  BY <1>2, <1>3, <1>4, <1>5, <1>6, <1>7 DEF Tracks, State, TxModels, DbCalls
<1>. QED BY <1>1, <1>8 DEF Between, Open

LEMMA InitFollows ==
    ASSUME Init
    PROVE  /\ Configured
           /\ Follows(dep) => Between(st) /\ Settled(st) /\ Model!ModelInit
<1>1. dep \in Deployment /\ dep.models \subseteq TxModels
  BY TransactionsAssumption DEF Init, Deployment
<1>2. Configured
  <2>1. PICK m \in dep.models, a \in dep.autos :
            initial = [model |-> m,
                       auto |-> a = "yes" \/ (a = "default" /\ m # "implicit")]
    BY DEF Init
  <2>. QED BY <2>1 DEF Configured
<1>3. /\ Constructed \in State /\ Constructed.model = initial.model
      /\ Constructed.fails = {} /\ ~Constructed.eot /\ ~Constructed.dirty
      /\ Constructed.fate = "none"
  BY <1>1, <1>2 DEF Constructed, State, Configured, DbCalls
<1>4. st = LogIn(Constructed) /\ last = "login"
  BY DEF Init
<1> SUFFICES ASSUME Follows(dep)
             PROVE  Between(st) /\ Settled(st) /\ Model!ModelInit
  BY <1>2
<1>5. /\ Tracks(st) /\ Settled(st) /\ st.fails = {}
      /\ st.model = initial.model /\ Open(st) = ~initial.auto
      /\ ~st.dirty /\ st.fate = "none"
  BY <1>1, <1>2, <1>3, <1>4, LogInTracks
<1>6. "block" \in dep.uses => Open(st)
  BY <1>2, <1>5
  DEF Configured, Follows, BeginsAlways, Begins, Implicitly, Deferred, ByAutocommit,
      ByBegin
<1>7. Open(st) = (st.model # "none" /\ ~initial.auto)
  BY <1>5, NoneIsAuto DEF Settled
<1>8. Model!ModelInit
  BY <1>4, <1>5, <1>7 DEF Model!ModelInit, Settled, Open, Begun
<1>. QED BY <1>5, <1>6, <1>8 DEF Between

LEMMA NextFollows ==
    ASSUME TypeOK, FollowInv, [Next]_vars
    PROVE  FollowInv' /\ (Follows(dep) => [Model!ModelNext]_Model!modelvars)
<1>1. dep \in Deployment
  BY TransactionsAssumption DEF TypeOK
<1>2. CASE Next
  <2>1. dep' = dep /\ initial' = initial
    BY <1>2
    DEF Next, BeginSession, EndSession, Reconnect, ClientBegin, ClientCommit,
        ClientRollback, AutoCommitOn, AutoCommitOff, Switch, Execute, CreateTemp,
        SelectForUpdate, RollbackToSavepoint, HiddenBegin, SettingsOn, SettingsOff,
        Request
  <2>2. Configured'
    BY <2>1 DEF FollowInv, Configured
  <2>3. ASSUME Follows(dep)
        PROVE  Between(st') /\ (phase' = "idle" => Settled(st')) /\ Model!ModelNext
    BY <1>1, <1>2, <2>3, StepFollows DEF FollowInv
  <2>4. Settled(st') => Settled(st)'
    BY <2>1 DEF Settled, Begun, Open
  <2>. QED BY <2>1, <2>2, <2>3, <2>4, SameDeployment DEF FollowInv
<1>3. CASE UNCHANGED vars
  <2>1. dep' = dep /\ initial' = initial /\ st' = st /\ phase' = phase
    BY <1>3 DEF vars
  <2>2. Configured'
    BY <2>1 DEF FollowInv, Configured
  <2>3. Between(st) => Between(st')
    BY <2>1
  <2>4. Settled(st) => Settled(st)'
    BY <2>1 DEF Settled, Begun, Open
  <2>5. FollowInv'
    BY <2>1, <2>2, <2>3, <2>4, SameDeployment DEF FollowInv
  <2>6. UNCHANGED Model!modelvars
    BY <1>3 DEF vars, Model!modelvars
  <2>. QED BY <2>5, <2>6
<1>. QED BY <1>2, <1>3

LEMMA FollowInvariant == Spec => []FollowInv
<1>1. Init => FollowInv
  BY InitFollows DEF FollowInv
<1>2. TypeOK /\ FollowInv /\ [Next]_vars => FollowInv'
  BY NextFollows
<1>. QED BY <1>1, <1>2, TransactionsTypeCorrect, PTL DEF Spec

\* The controller's idea of the transaction agrees with the database's, in every
\* deployment of the kinds above: _autocommit is on exactly if the database commits
\* each query at once, and _intransaction is set exactly if it does not.
THEOREM ControllerAgreesWithDatabase ==
    ASSUME \A d \in Deployments : d.tracked => Follows(d)
    PROVE  Spec => []AgreesWithDatabase
<1>1. TypeOK /\ FollowInv => AgreesWithDatabase
  <2> SUFFICES ASSUME TypeOK, FollowInv, dep.tracked
               PROVE  (st.auto <=> st.dbauto /\ ~st.dbtx) /\ (st.intx <=> ~st.auto)
    BY DEF AgreesWithDatabase
  <2>1. Agrees(st)
    BY DEF TypeOK, FollowInv, Between, Tracks
  <2>. QED BY <2>1 DEF Agrees, Open
<1>. QED BY <1>1, FollowInvariant, TransactionsTypeCorrect, PTL

\* In such deployments a session follows the configured transaction model, whatever
\* the database does natively: the controller implements TransactionModel, each
\* request one of its steps or a stutter.
THEOREM SessionsFollowTheModel ==
    ASSUME \A d \in Deployments : d.tracked => Follows(d)
    PROVE  Spec => ImplementsModel
<1>1. Init => (dep.tracked => Model!ModelInit)
  BY InitFollows DEF Init
<1>2. TypeOK /\ FollowInv /\ [Next]_vars
          => [dep.tracked => Model!ModelNext]_Model!modelvars
  BY NextFollows DEF TypeOK
<1>. QED
  BY <1>1, <1>2, FollowInvariant, TransactionsTypeCorrect, PTL DEF Spec, ImplementsModel

-----------------------------------------------------------------------------
(* The end of a session, also where calls on the database fail.             *)

\* The controller knows of every transaction, and of the work in it.
Known(s) ==
    /\ s \in State /\ s.dbauto
    /\ s.auto \/ s.intx
    /\ s.dbtx => ~s.auto
    /\ s.model = "none" => s.auto
    /\ s.dirty => s.dbtx /\ s.needs

\* It has no way to end one but a commit or a rollback.
NoAutocommit ==
    be.native \in {"explicit", "error"} /\ ~be.hasac

LEMMA SameKnown ==
    ASSUME NEW s, Known(s), NEW r \in State, Same(s, r)
    PROVE  Known(r)
BY DEF Known, Same, SameControl, SameDatabase, SameWork

LEMMA EndedKnown ==
    ASSUME NoAutocommit, NEW s \in State, s.dbauto, ~s.dbtx, ~s.dirty
    PROVE  /\ Known(EndTransaction(s)) /\ ~EndTransaction(s).dirty
           /\ EndTransaction(s).ok /\ EndTransaction(s).model = s.model
           /\ EndTransaction(s).fate = s.fate
           /\ s.model = be.native => EndTransaction(s).auto
<1> DEFINE r == EndTransaction(s)
<1>1. AfterEffect(s, r) /\ r \in State
  BY EndTransactionEffect, EndTransactionType
<1> HIDE DEF r
<1>2. PICK d \in State : SameDatabase(d, r) /\ FollowUp(s, d)
  BY <1>1 DEF AfterEffect
<1>3. d = s \/ (BeginEffect(s, d) /\ (s.model = "deferred" => ~s.eot)
               /\ (s.model = "implicit" => ~s.auto)
               /\ s.model \in {"deferred", "implicit"})
  BY <1>2 DEF FollowUp, NoAutocommit
<1>4. d.dbauto /\ ~d.dirty /\ d.fate = s.fate
  BY <1>3 DEF BeginEffect, SameWork
<1>5. d.dbtx => ~r.auto
  BY <1>1, <1>3 DEF AfterEffect
<1>6. s.model = "none" \/ s.model = be.native => r.auto
  BY <1>1 DEF AfterEffect, NoAutocommit
<1>. QED
  BY <1>1, <1>2, <1>4, <1>5, <1>6 DEF AfterEffect, Known, SameDatabase, SameWork, r

\* Unless the database fails, a commit or a rollback ends the work there is.
LEMMA EndKnown ==
    ASSUME NoAutocommit, NEW s, Known(s), NEW call \in DbCalls, NEW t \in State,
           NEW how \in {"committed", "rolledback"},
           EndEffect(s, t, CannotEnd(s, call), how), NEW r \in State,
           r = IF s.model = "none" \/ s.auto THEN Succeed(s)
               ELSE IF ~s.intx THEN Fail(s)
               ELSE IF t.ok THEN EndTransaction(t) ELSE t
    PROVE  /\ Known(r) /\ r.model = s.model
           /\ r.ok /\ s.model = be.native => r.auto
           /\ s.fails = {} => ~r.dirty
           /\ s.fails = {} /\ s.dirty /\ s.fate = "none" => r.fate = how
<1>1. s \in State /\ Succeed(s) \in State /\ Fail(s) \in State
  BY DbType DEF Known
<1>2. CASE s.model = "none" \/ s.auto
  <2>1. r = Succeed(s) /\ Same(s, r) /\ s.auto /\ ~s.dirty
    BY <1>1, <1>2, AnswerEffect DEF Known
  <2>. QED BY <2>1, SameKnown DEF Same, SameControl, SameDatabase, SameWork
<1>3. CASE ~(s.model = "none" \/ s.auto) /\ ~t.ok
  <2>1. r = t /\ Same(s, r) /\ CannotEnd(s, call)
    BY <1>3 DEF EndEffect, Known
  <2>2. s.fails = {} => ~s.dirty
    BY <2>1 DEF CannotEnd, Known
  <2>. QED BY <1>3, <2>1, <2>2, SameKnown DEF Same, SameControl, SameDatabase, SameWork
<1>4. CASE ~(s.model = "none" \/ s.auto) /\ t.ok
  <2>1. r = EndTransaction(t)
    BY <1>4 DEF Known
  <2>2. /\ t.dbauto /\ ~t.dbtx /\ WorkOver(s, t, how) /\ t.model = s.model
    BY <1>4 DEF EndEffect, Known, SameControl
  <2>. QED BY <2>1, <2>2, EndedKnown DEF WorkOver
<1>. QED BY <1>2, <1>3, <1>4

LEMMA CommitKnown ==
    ASSUME NoAutocommit, NEW s, Known(s)
    PROVE  LET r == Commit(s)
           IN /\ Known(r) /\ r.model = s.model
              /\ r.ok /\ s.model = be.native => r.auto
              /\ s.fails = {} => ~r.dirty
              /\ s.fails = {} /\ s.dirty /\ s.fate = "none" => r.fate = "committed"
<1> DEFINE t == DbCommit(s)
<1>1. /\ s \in State /\ t \in State /\ Commit(s) \in State
      /\ EndEffect(s, t, CannotEnd(s, "commit"), "committed") /\ "commit" \in DbCalls
  BY DbType, DbEndEffect, OperationType DEF Known, DbCalls
<1>2. Commit(s) = IF s.model = "none" \/ s.auto THEN Succeed(s)
                  ELSE IF ~s.intx THEN Fail(s)
                  ELSE IF t.ok THEN EndTransaction(t) ELSE t
  BY DEF Commit, Bail
<1> HIDE DEF t
<1>. QED BY <1>1, <1>2, EndKnown

LEMMA RollbackKnown ==
    ASSUME NoAutocommit, NEW s, Known(s)
    PROVE  LET r == Rollback(s)
           IN /\ Known(r) /\ r.model = s.model
              /\ s.fails = {} => ~r.dirty
              /\ s.fails = {} /\ s.dirty /\ s.fate = "none" => r.fate = "rolledback"
<1> DEFINE t == DbRollback(s)
<1>1. /\ s \in State /\ t \in State /\ Rollback(s) \in State
      /\ EndEffect(s, t, CannotEnd(s, "rollback"), "rolledback")
      /\ "rollback" \in DbCalls
  BY DbType, DbEndEffect, OperationType DEF Known, DbCalls
<1>2. Rollback(s) = IF s.model = "none" \/ s.auto THEN Succeed(s)
                    ELSE IF ~s.intx THEN Fail(s)
                    ELSE IF t.ok THEN EndTransaction(t) ELSE t
  BY DEF Rollback, Bail
<1> HIDE DEF t
<1>. QED BY <1>1, <1>2, EndKnown

\* A begin query that is followed, or not, by the start of a transaction.
LEMMA StartKnown ==
    ASSUME NoAutocommit, NEW s, Known(s), s.model # "none", s.auto,
           NEW eot \in BOOLEAN,
           NEW r, r = Bail(DbBegin(s), BeginTransaction([DbBegin(s) EXCEPT !.eot = eot]))
    PROVE  Known(r)
<1> DEFINE t == DbBegin(s)
           b == BeginTransaction([t EXCEPT !.eot = eot])
<1>1. s \in State /\ t \in State /\ BeginEffect(s, t)
  BY DbType, DbBeginEffect DEF Known
<1>2. r = IF t.ok THEN b ELSE t
  BY DEF Bail
<1>3. StartEffect(t, b, eot) /\ b \in State
  <2> HIDE DEF t
  <2>1. [t EXCEPT !.eot = eot] \in State
    BY <1>1 DEF State
  <2>2. b \in State
    BY <2>1 DEF State, BeginTransaction
  <2>. QED BY <1>1, <2>2, BeginTransactionEffect
<1> HIDE DEF t, b
<1>4. ~t.ok => Known(t)
  BY <1>1, SameKnown DEF BeginEffect
<1>5. Known(b)
  BY <1>1, <1>3
  DEF Known, StartEffect, BeginEffect, SameControl, SameDatabase, SameWork
<1>. QED BY <1>2, <1>4, <1>5

LEMMA BeginKnown ==
    ASSUME NoAutocommit, NEW s, Known(s)
    PROVE  Known(Begin(s))
<1> DEFINE eot == DbBegin(s).eot \/ s.model = "deferred"
<1>1. s \in State /\ DbBegin(s) \in State
  BY DbType DEF Known
<1>2. Known(Succeed(s)) /\ Known(Fail(s))
  BY <1>1, DbType, AnswerEffect, SameKnown
<1>3. [DbBegin(s) EXCEPT !.eot = @ \/ s.model = "deferred"]
        = [DbBegin(s) EXCEPT !.eot = eot]
  BY <1>1 DEF State
<1>4. ~FakingExplicit(s)
  BY DEF FakingExplicit, NoAutocommit
<1>5. CASE s.model = "none" \/ ~s.auto \/ s.intx
  BY <1>2, <1>5 DEF Begin
<1>6. CASE ~(s.model = "none" \/ ~s.auto \/ s.intx)
  <2>1. \/ Begin(s) = Bail(DbBegin(s), BeginTransaction([DbBegin(s) EXCEPT !.eot = eot]))
        \/ Begin(s) = Succeed(s)
    BY <1>3, <1>4, <1>6 DEF Begin
  <2>2. eot \in BOOLEAN
    OBVIOUS
  <2> HIDE DEF eot
  <2>. QED BY <1>2, <1>6, <2>1, <2>2, StartKnown
<1>. QED BY <1>5, <1>6

\* Autocommit on, once the native model is in charge, is on.
LEMMA OnKnown ==
    ASSUME NoAutocommit, NEW s, Known(s)
    PROVE  LET r == SetAutoCommitOn(s)
           IN Known(r) /\ (r.ok /\ s.model = be.native => r.auto)
<1> DEFINE r == SetAutoCommitOn(s)
           t == DbCommit(s)
           eot == t.eot \/ s.model = "deferred"
           auto == t.auto \/ be.hasac \/ FakingImplicit(s)
           u == [t EXCEPT !.eot = eot, !.auto = auto]
<1>1. s \in State /\ t \in State /\ EndEffect(s, t, CannotEnd(s, "commit"), "committed")
  BY DbType, DbEndEffect DEF Known
<1>2. /\ Known(Succeed(s)) /\ Known(Fail(s)) /\ ~Fail(s).ok
      /\ Succeed(s).auto = s.auto
  BY <1>1, DbType, AnswerEffect, SameKnown DEF Same, SameControl
<1>3. CASE s.model = "none"
  <2>1. r = [s EXCEPT !.ok = TRUE, !.auto = TRUE] /\ r \in State
    BY <1>1, <1>3, OperationType DEF SetAutoCommitOn
  <2>2. r.auto /\ r.dbauto /\ r.dbtx = s.dbtx /\ r.dirty = s.dirty /\ s.auto
    BY <1>1, <1>3, <2>1 DEF State, Known
  <2> HIDE DEF r
  <2>. QED BY <1>1, <2>1, <2>2 DEF Known, r
<1>4. CASE s.model # "none" /\ (s.auto \/ ~s.intx)
  <2>1. r = Succeed(s) /\ s.auto
    BY <1>4 DEF SetAutoCommitOn, Known
  <2>. QED BY <1>2, <2>1
<1>5. CASE s.model # "none" /\ ~(s.auto \/ ~s.intx)
  <2>1. [t EXCEPT !.eot = @ \/ s.model = "deferred",
                  !.auto = @ \/ be.hasac \/ FakingImplicit(s)] = u
    BY <1>1 DEF State
  <2>2. \/ r = Succeed(s) /\ s.model = "deferred"
        \/ r = Fail(s)
        \/ r = IF t.ok THEN EndTransaction(u) ELSE t
    BY <1>5, <2>1 DEF SetAutoCommitOn, BegunDeferred, NoAutocommit, Bail
  <2>3. be.native # "deferred"
    BY DEF NoAutocommit
  <2>4. eot \in BOOLEAN /\ auto \in BOOLEAN
    OBVIOUS
  <2> HIDE DEF r, t, eot, auto
  <2>5. CASE t.ok
    <3>1. /\ u \in State /\ u.dbauto = t.dbauto /\ u.dbtx = t.dbtx /\ u.dirty = t.dirty
          /\ u.model = t.model
      BY <1>1, <2>4 DEF State
    <3>2. u.dbauto /\ ~u.dbtx /\ ~u.dirty /\ u.model = s.model
      BY <1>1, <2>5, <3>1 DEF EndEffect, WorkOver, SameControl, Known
    <3> HIDE DEF u
    <3>. QED BY <1>2, <2>2, <2>3, <2>5, <3>1, <3>2, EndedKnown DEF r
  <2>6. CASE ~t.ok
    <3>1. Known(t)
      BY <1>1, <2>6, SameKnown DEF EndEffect
    <3>. QED BY <1>2, <2>2, <2>3, <2>6, <3>1 DEF r
  <2>. QED BY <2>5, <2>6
<1>. QED BY <1>3, <1>4, <1>5

LEMMA OffKnown ==
    ASSUME NoAutocommit, NEW s, Known(s)
    PROVE  Known(SetAutoCommitOff(s))
<1> DEFINE r == SetAutoCommitOff(s)
           z == [Succeed(s) EXCEPT !.eot = FALSE]
           eot == DbBegin(s).eot /\ s.model # "deferred"
<1>1. s \in State /\ DbBegin(s) \in State /\ Succeed(s) \in State
  BY DbType DEF Known
<1>2. Known(Succeed(s)) /\ Known(Fail(s))
  BY <1>1, DbType, AnswerEffect, SameKnown
<1>3. CASE s.model = "none"
  <2>1. r = [s EXCEPT !.ok = FALSE, !.auto = TRUE] /\ r \in State
    BY <1>1, <1>3, OperationType DEF SetAutoCommitOff
  <2>2. r.auto /\ r.dbauto /\ r.dbtx = s.dbtx /\ r.dirty = s.dirty /\ s.auto
    BY <1>1, <1>3, <2>1 DEF State, Known
  <2> HIDE DEF r
  <2>. QED BY <1>1, <2>1, <2>2 DEF Known, r
<1>4. CASE s.model # "none" /\ (~s.auto \/ s.intx)
  <2>1. Known(z)
    <3>1. z \in State
      BY <1>1 DEF State
    <3>. QED BY <1>1, <1>2, <3>1 DEF Known, State
  <2>2. Bail(Succeed(s), z) \in {Succeed(s), z}
    BY DEF Bail
  <2>3. r \in {Succeed(s), Fail(s), Bail(Succeed(s), z)}
    BY <1>4 DEF SetAutoCommitOff, NoAutocommit
  <2>. QED BY <1>2, <2>1, <2>2, <2>3
<1>5. CASE s.model # "none" /\ s.auto /\ ~s.intx
  <2>1. [DbBegin(s) EXCEPT !.eot = @ /\ s.model # "deferred"]
          = [DbBegin(s) EXCEPT !.eot = eot]
    BY <1>1 DEF State
  <2>2. r = Bail(DbBegin(s), BeginTransaction([DbBegin(s) EXCEPT !.eot = eot]))
    BY <1>5, <2>1 DEF SetAutoCommitOff, NoAutocommit
  <2>3. eot \in BOOLEAN
    OBVIOUS
  <2> HIDE DEF eot, r
  <2>4. Known(r)
    BY <1>5, <2>2, <2>3, StartKnown
  <2>. QED BY <2>4 DEF r
<1>. QED BY <1>3, <1>4, <1>5

LEMMA SwitchKnown ==
    ASSUME NoAutocommit, NEW s, Known(s), NEW model \in TxModels
    PROVE  Known(SetTransactionModel(s, model))
<1> DEFINE n == [s EXCEPT !.model = be.native]
           c == Commit(n)
           t == IF s.model = "none" THEN Succeed(s) ELSE Bail(c, SetAutoCommitOn(c))
           u == [t EXCEPT !.model = model]
           v == [t EXCEPT !.model = s.model]
<1>1. s \in State /\ s.model \in TxModels
  BY DEF Known, State
<1>2. Known(n) /\ n.model = be.native
  <2>1. be.native \in TxModels \ {"none"}
    BY DEF NoAutocommit, TxModels
  <2>2. n \in State
    BY <1>1, <2>1 DEF State
  <2>. QED BY <1>1, <2>1, <2>2 DEF Known, State
<1>3. Known(Succeed(s)) /\ Succeed(s).auto = s.auto /\ Succeed(s).ok
  BY <1>1, DbType, AnswerEffect, SameKnown DEF Same, SameControl
<1> HIDE DEF n
<1>4. Known(c) /\ c.model = be.native
  BY <1>2, CommitKnown
<1> HIDE DEF c
<1>5. /\ Known(SetAutoCommitOn(c))
      /\ SetAutoCommitOn(c).ok => SetAutoCommitOn(c).auto
  BY <1>4, OnKnown
<1>6. Known(t) /\ (t.ok => t.auto) /\ (~t.ok => s.model # "none")
  BY <1>3, <1>4, <1>5 DEF Bail, Known
<1> HIDE DEF t
<1>7. t.ok => Known(u)
  <2> SUFFICES ASSUME t.ok PROVE Known(u)
    OBVIOUS
  <2>1. u \in State
    BY <1>6 DEF Known, State
  <2>. QED BY <1>6, <2>1 DEF Known, State
<1>8. ~t.ok => Known(v)
  <2> SUFFICES ASSUME ~t.ok PROVE Known(v)
    OBVIOUS
  <2>1. v \in State
    BY <1>1, <1>6 DEF Known, State
  <2>. QED BY <1>6, <2>1 DEF Known, State
<1> HIDE DEF u, v
<1>9. t.ok => Known(SetAutoCommitOff(u))
  BY <1>7, OffKnown
<1>10. SetTransactionModel(s, model)
        \in {Succeed(s)} \union
            (IF t.ok THEN {SetAutoCommitOff(u), u} ELSE {v})
  BY DEF SetTransactionModel, n, c, t, u, v
<1>. QED BY <1>3, <1>7, <1>8, <1>9, <1>10

LEMMA QueryKnown ==
    ASSUME NEW s, Known(s), NEW r \in State, QueryEffect(s, r), s.auto \/ r.needs
    PROVE  Known(r)
BY DEF Known, QueryEffect, Open

LEMMA PlainQueryKnown ==
    ASSUME NEW s, Known(s)
    PROVE  /\ Query(s) \in State /\ QueryEffect(s, Query(s))
           /\ s.auto \/ Query(s).needs
           /\ \A b \in BOOLEAN : LET r == [Query(s) EXCEPT !.temp = b]
                                 IN /\ r \in State /\ QueryEffect(s, r)
                                    /\ s.auto \/ r.needs
<1>1. s \in State /\ Query(s) \in State /\ DbExecute(s) \in State
  BY OperationType, DbType DEF Known
<1>2. QueryEffect(s, DbExecute(s))
  BY <1>1, DbExecuteEffect
<1>3. /\ QueryEffect(s, Query(s))
      /\ s.model # "none" => Query(s).needs
  BY <1>1, <1>2, QueryKeepsEffect DEF Query, QueryEffect
<1>4. s.auto \/ Query(s).needs
  BY <1>3 DEF Known
<1>5. ASSUME NEW b \in BOOLEAN
      PROVE  LET r == [Query(s) EXCEPT !.temp = b]
             IN r \in State /\ QueryEffect(s, r) /\ (s.auto \/ r.needs)
  <2>1. [Query(s) EXCEPT !.temp = b] \in State
    BY <1>1 DEF State
  <2>2. /\ QueryEffect(s, [Query(s) EXCEPT !.temp = b])
        /\ [Query(s) EXCEPT !.temp = b].needs = Query(s).needs
    BY <1>1, <1>3 DEF State, QueryEffect
  <2>. QED BY <1>4, <2>1, <2>2
<1>. QED BY <1>1, <1>3, <1>4, <1>5

LEMMA EndSessionKnown ==
    ASSUME dep \in Deployment, initial \in Initial, NoAutocommit,
           NEW s, Known(s), s.fails = {}, s.fate = "none"
    PROVE  LET r == EndOfSession(s)
           IN /\ Known(r) /\ r.fails = {} /\ ~r.dirty
              /\ s.dirty => r.fate = AtEnd
<1> DEFINE e == EndWork(s)
           d == DropTempTables(e)
           x == SetTransactionModel(d, initial.model)
           r == EndOfSession(s)
<1>0. s \in State
  BY DEF Known
<1>1. /\ Known(e) /\ e.fails = {} /\ ~e.dirty
      /\ s.dirty => e.fate = AtEnd
  <2>1. CASE ~Owes(s)
    <3>1. ~s.dirty
      BY <2>1 DEF Owes, Known
    <3>. QED BY <2>1, <3>1 DEF EndWork
  <2>2. CASE Owes(s) /\ dep.endcommit
    <3>1. e = Commit(s)
      BY <2>2 DEF EndWork
    <3>. QED
      BY <1>0, <2>2, <3>1, CommitKnown, NoNewWorkByOperations DEF NoNewWork, AtEnd
  <2>3. CASE Owes(s) /\ ~dep.endcommit
    <3>1. e = Rollback(s)
      BY <2>3 DEF EndWork
    <3>. QED
      BY <1>0, <2>3, <3>1, RollbackKnown, NoNewWorkByOperations DEF NoNewWork, AtEnd
  <2>. QED BY <2>1, <2>2, <2>3
<1> HIDE DEF e
<1>2. /\ Known(d) /\ d.fails = {} /\ ~d.dirty
      /\ e.fate # "none" => d.fate = e.fate
  <2>1. CASE ~e.temp
    BY <1>1, <2>1 DEF DropTempTables
  <2>2. CASE e.temp
    <3> DEFINE q == [Query(e) EXCEPT !.temp = FALSE]
    <3>1. d = Commit(q)
      BY <2>2 DEF DropTempTables
    <3>2. q \in State /\ QueryEffect(e, q) /\ (e.auto \/ q.needs)
      BY <1>1, PlainQueryKnown
    <3> HIDE DEF q
    <3>3. Known(q) /\ q.fails = {} /\ q.fate = e.fate
      BY <1>1, <3>2, QueryKnown DEF QueryEffect
    <3>4. NoNewWork(q, d)
      BY <3>1, <3>2, NoNewWorkByOperations
    <3>. QED BY <3>1, <3>3, <3>4, CommitKnown DEF NoNewWork
  <2>. QED BY <2>1, <2>2
<1> HIDE DEF d
<1>3. Known(x) /\ NoNewWork(d, x)
  BY <1>2, SwitchKnown, NoNewWorkBySwitch DEF Initial, Known
<1> HIDE DEF x
<1>4. r = IF initial.auto THEN SetAutoCommitOn(x) ELSE SetAutoCommitOff(x)
  BY DEF EndOfSession, Reset, SetAutoCommit, e, d, x
<1> HIDE DEF r
<1>5. Known(r) /\ NoNewWork(x, r)
  BY <1>3, <1>4, OnKnown, OffKnown, NoNewWorkByOperations DEF Known
<1>6. r.fails = {} /\ ~r.dirty /\ (e.fate # "none" => r.fate = e.fate)
  BY <1>2, <1>3, <1>5 DEF NoNewWork
<1>. QED BY <1>1, <1>5, <1>6 DEF AtEnd, r

LEMMA LogInKnown ==
    ASSUME dep \in Deployment, NoAutocommit, be.autostart, NEW s \in State
    PROVE  /\ Known(LogIn(s)) /\ ~LogIn(s).dirty
           /\ LogIn(s).fails = s.fails
<1>1. PICK v \in State :
          /\ LogIn(s) = SetAutoCommit(v, initial.auto)
          /\ v.model = s.model /\ v.eot = s.eot /\ v.fails = s.fails
          /\ v.auto = be.autostart /\ v.intx = ~be.autostart
          /\ v.dbauto = be.autostart /\ ~v.dbtx /\ ~v.dirty
          /\ v.fate = IF s.dirty THEN "rolledback" ELSE s.fate
  BY LogInEffect
<1>2. Known(v)
  BY <1>1 DEF Known
<1>3. LogIn(s) = IF initial.auto THEN SetAutoCommitOn(v) ELSE SetAutoCommitOff(v)
  BY <1>1 DEF SetAutoCommit
<1>4. Known(LogIn(s)) /\ NoNewWork(v, LogIn(s))
  BY <1>2, <1>3, OnKnown, OffKnown, NoNewWorkByOperations
<1>. QED BY <1>1, <1>4 DEF NoNewWork

\* Between requests no call on the database is about to fail, and between sessions
\* no work is left.
EndInv ==
    EndsWell(dep) => Known(st) /\ st.fails = {} /\ (phase = "idle" => ~st.dirty)

LEMMA StepEnds ==
    ASSUME dep \in Deployment, TypeOK, EndsWell(dep),
           Known(st), st.fails = {}, phase = "idle" => ~st.dirty, Next
    PROVE  /\ Known(st') /\ st'.fails = {} /\ (phase' = "idle" => ~st'.dirty)
           /\ phase = "session" /\ phase' = "idle" /\ st.dirty => st'.fate = AtEnd
<1> DEFINE asked == Asked({})
           Goal == /\ Known(st') /\ st'.fails = {} /\ (phase' = "idle" => ~st'.dirty)
                   /\ phase = "session" /\ phase' = "idle" /\ st.dirty
                        => st'.fate = AtEnd
<1>0. /\ NoAutocommit /\ be.autostart /\ initial \in Initial /\ st \in State
      /\ dep.models \subseteq TxModels
  BY DEF EndsWell, NoAutocommit, be, TypeOK, Initial, Deployment
<1>1. ASSUME NEW F \in SUBSET DbCalls
      PROVE  /\ Known(Asked(F)) /\ Asked(F).fails = F /\ Asked(F).fate = "none"
             /\ Asked(F).dirty = st.dirty
  <2>1. Asked(F) \in State
    BY <1>0 DEF Asked, State
  <2>. QED BY <1>0, <2>1 DEF Known, Asked, State
<1>2. ASSUME NEW name, NEW F, NEW r, Known(r), Request(name, F, r)
      PROVE  Goal
  <2>1. /\ [r EXCEPT !.fails = {}] \in State
        /\ [r EXCEPT !.fails = {}].fails = {}
        /\ Known([r EXCEPT !.fails = {}])
    BY <1>2 DEF Known, State
  <2>. QED BY <1>2, <2>1 DEF Request
<1>3. Known(asked) /\ asked.fails = {} /\ asked.fate = "none" /\ asked.dirty = st.dirty
  BY <1>1
<1>4. [st EXCEPT !.fate = "none"] = asked
  BY <1>0 DEF Asked, State
<1> HIDE DEF asked, Goal
<1> SUFFICES Goal
  BY DEF Goal
<1>5. CASE ClientBegin
  <2>1. PICK F \in Failing : Request("begin", F, Begin(Asked(F)))
    BY <1>5 DEF ClientBegin
  <2>2. Known(Asked(F))
    BY <1>1 DEF Failing
  <2>. QED BY <1>2, <2>1, <2>2, <1>0, BeginKnown
<1>6. CASE ClientCommit
  <2>1. PICK F \in Failing : Request("commit", F, Commit(Asked(F)))
    BY <1>6 DEF ClientCommit
  <2>2. Known(Asked(F))
    BY <1>1 DEF Failing
  <2>. QED BY <1>2, <2>1, <2>2, <1>0, CommitKnown
<1>7. CASE ClientRollback
  <2>1. PICK F \in Failing : Request("rollback", F, Rollback(Asked(F)))
    BY <1>7 DEF ClientRollback
  <2>2. Known(Asked(F))
    BY <1>1 DEF Failing
  <2>. QED BY <1>2, <2>1, <2>2, <1>0, RollbackKnown
<1>8. CASE AutoCommitOn
  <2>1. PICK F \in Failing : Request("on", F, SetAutoCommitOn(Asked(F)))
    BY <1>8 DEF AutoCommitOn
  <2>2. Known(Asked(F))
    BY <1>1 DEF Failing
  <2>. QED BY <1>2, <2>1, <2>2, <1>0, OnKnown
<1>9. CASE AutoCommitOff
  <2>1. PICK F \in Failing : Request("off", F, SetAutoCommitOff(Asked(F)))
    BY <1>9 DEF AutoCommitOff
  <2>2. Known(Asked(F))
    BY <1>1 DEF Failing
  <2>. QED BY <1>2, <2>1, <2>2, <1>0, OffKnown
<1>10. ASSUME NEW m \in dep.models, Switch(m) PROVE Goal
  <2>1. PICK F \in Failing : Request("switch", F, SetTransactionModel(Asked(F), m))
    BY <1>10 DEF Switch
  <2>2. Known(Asked(F)) /\ m \in TxModels
    BY <1>0, <1>1 DEF Failing
  <2>. QED BY <1>0, <1>2, <2>1, <2>2, SwitchKnown
<1>11. /\ Query(asked) \in State /\ QueryEffect(asked, Query(asked))
       /\ asked.auto \/ Query(asked).needs
       /\ \A b \in BOOLEAN : LET r == [Query(asked) EXCEPT !.temp = b]
                             IN /\ r \in State /\ QueryEffect(asked, r)
                                /\ asked.auto \/ r.needs
  BY <1>3, PlainQueryKnown
<1>12. Known(Query(asked)) /\ Known([Query(asked) EXCEPT !.temp = TRUE])
  BY <1>3, <1>11, QueryKnown
<1>13. CASE Execute
  BY <1>2, <1>12, <1>13 DEF Execute, asked
<1>14. CASE CreateTemp
  BY <1>2, <1>12, <1>14 DEF CreateTemp, asked
<1>15. CASE SelectForUpdate
  <2>1. asked.auto = st.auto
    BY <1>0 DEF asked, Asked, State
  <2>2. st.auto => Known(DbExecute(asked))
    BY <1>3, <2>1, DbExecuteEffect, DbType, QueryKnown DEF Known
  <2>3. \/ st.auto /\ Request("query", {}, DbExecute(asked))
        \/ Request("query", {}, Query(asked))
    BY <1>15 DEF SelectForUpdate, asked
  <2>. QED BY <1>2, <1>12, <2>2, <2>3
<1>16. ~RollbackToSavepoint /\ ~HiddenBegin /\ ~SettingsOn /\ ~SettingsOff
  BY DEF EndsWell, RollbackToSavepoint, HiddenBegin, SettingsOn, SettingsOff
<1>17. CASE BeginSession
  <2> DEFINE r == [st EXCEPT !.needs = FALSE, !.ok = TRUE, !.fate = "none"]
  <2>1. /\ r \in State /\ r.model = st.model /\ r.auto = st.auto /\ r.intx = st.intx
        /\ r.dbauto = st.dbauto /\ r.dbtx = st.dbtx /\ r.dirty = st.dirty
        /\ r.fails = st.fails
    BY <1>0 DEF State
  <2>2. st' = r /\ phase' = "session" /\ ~st.dirty
    BY <1>17 DEF BeginSession
  <2> HIDE DEF r
  <2>3. Known(r)
    BY <2>1, <2>2 DEF Known
  <2>. QED BY <2>1, <2>2, <2>3 DEF Goal
<1>18. CASE EndSession
  <2>1. st' = EndOfSession(asked)
    BY <1>4, <1>18 DEF EndSession
  <2>. QED BY <1>0, <1>3, <2>1, EndSessionKnown DEF Goal
<1>19. CASE Reconnect
  <2>1. st' = LogIn(asked) /\ phase' = phase /\ phase = "session" /\ asked \in State
    BY <1>3, <1>4, <1>19 DEF Reconnect, Known
  <2>. QED BY <1>0, <1>3, <2>1, LogInKnown DEF Goal
<1>. QED
  BY <1>5, <1>6, <1>7, <1>8, <1>9, <1>10, <1>13, <1>14, <1>15, <1>16, <1>17, <1>18,
     <1>19 DEF Next

LEMMA EndInvariant == Spec => []EndInv
<1>1. Init => EndInv
  <2> SUFFICES ASSUME Init, EndsWell(dep)
               PROVE  Known(st) /\ st.fails = {} /\ ~st.dirty
    BY DEF EndInv
  <2>1. /\ dep \in Deployment /\ NoAutocommit /\ be.autostart
        /\ initial.model \in TxModels
    BY TransactionsAssumption DEF Init, EndsWell, NoAutocommit, be, Deployment
  <2>2. Constructed \in State /\ Constructed.fails = {}
    BY <2>1 DEF Constructed, State, DbCalls
  <2>. QED BY <2>1, <2>2, LogInKnown DEF Init
<1>2. TypeOK /\ EndInv /\ [Next]_vars => EndInv'
  <2> SUFFICES ASSUME TypeOK, EndInv, [Next]_vars PROVE EndInv'
    OBVIOUS
  <2>1. dep \in Deployment /\ dep' = dep
    BY TransactionsAssumption
    DEF TypeOK, vars, Next, BeginSession, EndSession, Reconnect, ClientBegin,
        ClientCommit, ClientRollback, AutoCommitOn, AutoCommitOff, Switch, Execute,
        CreateTemp, SelectForUpdate, RollbackToSavepoint, HiddenBegin, SettingsOn,
        SettingsOff, Request
  <2>2. EndsWell(dep)' <=> EndsWell(dep)
    BY <2>1 DEF EndsWell
  <2>3. CASE Next
    BY <2>1, <2>2, <2>3, StepEnds DEF EndInv, Known
  <2>4. CASE UNCHANGED vars
    BY <2>2, <2>4 DEF vars, EndInv, Known
  <2>. QED BY <2>3, <2>4
<1>. QED BY <1>1, <1>2, TransactionsTypeCorrect, PTL DEF Spec

LEMMA EndSessionFollows ==
    ASSUME dep \in Deployment, Configured, Between(st), EndSession
    PROVE  st.dirty => st'.fate = AtEnd
<1> DEFINE asked == Asked({})
<1>1. st \in State /\ st.fails = {}
  BY DEF Between, Tracks
<1>2. ASSUME NEW F \in SUBSET DbCalls, F # {} => dep.failures > 0
      PROVE  /\ Tracks(Asked(F)) /\ Asked(F).fails = F /\ Asked(F).fate = "none"
             /\ Asked(F).dirty = st.dirty
  BY <1>2, AskedTracks DEF Asked
<1>3. Tracks(asked) /\ asked.fails = {} /\ asked.fate = "none" /\ asked.dirty = st.dirty
  BY <1>2
<1>4. [st EXCEPT !.fate = "none"] = asked
  BY <1>1 DEF State, Asked
<1> HIDE DEF asked
<1>5. st' = EndOfSession(asked)
  BY <1>4 DEF EndSession
<1>. QED BY <1>3, <1>5, EndSessionTracks

\* No session leaves uncommitted work or locks to the next one, neither where the
\* controller keeps up with the database nor where failures make it lose track.
THEOREM NoWorkIsLeftBehind ==
    ASSUME \A d \in Deployments : Follows(d) \/ EndsWell(d)
    PROVE  Spec => []NoWorkLeaks
<1>1. TypeOK /\ FollowInv /\ EndInv => NoWorkLeaks
  BY DEF TypeOK, FollowInv, EndInv, NoWorkLeaks, Settled
<1>. QED BY <1>1, FollowInvariant, EndInvariant, TransactionsTypeCorrect, PTL

\* The endofsession parameter decides what becomes of the work in a transaction that
\* is open when the session ends; dropping the temporary tables and going back to the
\* initial model and autocommit, which commit, come too late to decide otherwise.
THEOREM EndOfSessionDecidesTheWork ==
    ASSUME \A d \in Deployments : Follows(d) \/ EndsWell(d)
    PROVE  Spec => EndOfSessionHonoured
<1> DEFINE Honoured == phase = "session" /\ phase' = "idle" /\ st.dirty
                         => st'.fate = IF dep.endcommit THEN "committed" ELSE "rolledback"
<1>1. TypeOK /\ FollowInv /\ EndInv /\ [Next]_vars => [Honoured]_vars
  <2> SUFFICES ASSUME TypeOK, FollowInv, EndInv, Next,
                      phase = "session", phase' = "idle", st.dirty
               PROVE  st'.fate = AtEnd
    BY DEF AtEnd
  <2>1. dep \in Deployment /\ dep \in Deployments
    BY TransactionsAssumption DEF TypeOK
  <2>2. CASE EndsWell(dep)
    BY <2>1, <2>2, StepEnds DEF EndInv
  <2>3. CASE Follows(dep)
    <3>1. EndSession
      BY DEF Next, BeginSession, Reconnect, ClientBegin, ClientCommit, ClientRollback,
             AutoCommitOn, AutoCommitOff, Switch, Execute, CreateTemp, SelectForUpdate,
             RollbackToSavepoint, HiddenBegin, SettingsOn, SettingsOff, Request
    <3>. QED BY <2>1, <2>3, <3>1, EndSessionFollows DEF FollowInv
  <2>. QED BY <2>1, <2>2, <2>3
<1>. QED
  BY <1>1, FollowInvariant, EndInvariant, TransactionsTypeCorrect, PTL
  DEF Spec, EndOfSessionHonoured

=============================================================================
