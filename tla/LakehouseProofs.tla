---------------------------- MODULE LakehouseProofs ----------------------------
(***************************************************************************)
(* What the lakehouse and the pipeline jobs guarantee of runs, layers and  *)
(* jobs for any number of batches, keys, callers and requests, whatever    *)
(* fails and whenever the worker stops.  A request checks, creates its     *)
(* run, writes and completes in steps of their own, so the invariant says  *)
(* what a request between two of its steps may still rely on.              *)
(***************************************************************************)
EXTENDS Lakehouse, FiniteSetTheorems, WellFoundedInduction, TLAPS

Kinds     == {"INGEST", "SILVER", "GOLD"}
Ops       == Kinds \cup {"PUBLISH"}
Points    == {"idle", "check", "create", "read", "write", "complete"}
JobStates == {None, "PENDING", "RUNNING", "SUCCEEDED", "FAILED"}
RunRow    == [kind : {None, "INGEST", "SILVER", "GOLD"}, of : {None} \cup Batches \cup RunIds,
              status : {None, "RUNNING", "COMPLETED", "FAILED"}]
TableRow  == [batch : Batches \cup {0}, run : RunIds \cup {None}]
CallType  == [op : Ops \cup {None}, pc : Points, job : Batches \cup {None}, by : {None, "loop", "admin"},
              src : Batches \cup RunIds \cup {None}, run : RunIds \cup {None}, rows : SUBSET Keys, force : BOOLEAN]

\* A run is of a batch, or of a run of the layer before that has completed.
Linked(r) ==
    /\ runs[r].kind = "INGEST" => runs[r].of \in Batches
    /\ runs[r].kind = "SILVER" => runs[r].of \in RunIds /\ Ready("INGEST", runs[r].of)
    /\ runs[r].kind = "GOLD"   => runs[r].of \in RunIds /\ Ready("SILVER", runs[r].of)

RowsOK ==
    /\ runs \in [RunIds -> RunRow] /\ bronze \subseteq RunIds
    /\ silver \in [Keys -> TableRow] /\ gold \in [Keys -> TableRow]
    /\ job \in [Batches -> JobStates] /\ extra \in 0..MaxExtra /\ disturbed \in BOOLEAN
    /\ \A r \in RunIds : Linked(r)

\* Where a request can be, and what it has read and checked by then.
Shape(d) ==
    /\ d.op = None <=> d.pc = "idle"
    /\ d.op = None => d.job = None /\ d.by = None
    /\ d.job = None <=> d.by = None
    /\ d.op = "INGEST" => d.src \in Batches /\ d.job \in {None, d.src} /\ d.pc # "read"
    /\ d.op \in {"SILVER", "GOLD", "PUBLISH"} => d.src \in RunIds
    /\ d.op = "SILVER" => d.pc # "read"
    /\ d.op = "PUBLISH" => d.pc = "check" /\ d.job # None
    /\ d.run # None <=> d.pc \in {"read", "write", "complete"}

Holds(d) ==
    /\ d.run # None => runs[d.run].kind = d.op /\ runs[d.run].of = d.src /\ runs[d.run].status = "RUNNING"
    /\ d.op = "SILVER" /\ (d.pc # "check" \/ d.job # None) => Ready("INGEST", d.src)
    /\ d.op = "GOLD" /\ (d.pc # "check" \/ d.job # None) => Ready("SILVER", d.src)
    /\ d.op = "PUBLISH" => Ready("GOLD", d.src)
    /\ d.op \in {"SILVER", "GOLD", "PUBLISH"} /\ d.job # None => BatchOf(d.src) = d.job

CallsOK ==
    /\ call \in [Callers -> CallType]
    /\ \A c \in Callers : Shape(call[c]) /\ Holds(call[c])
    /\ \A c, d \in Callers : call[c].run # None /\ call[c].run = call[d].run => c = d

JobInv ==
    /\ \A c \in Callers : call[c].job # None => job[call[c].job] = "RUNNING"
    /\ OneWorkerPerJob /\ SucceededJobHasItsChain

\* How many runs a request may still create, and the credit they are drawn on: three for each
\* job taken up and for each request somebody else made.
Left(d) == CASE d.op = "INGEST" /\ d.pc \in {"check", "create"} -> IF d.job = None THEN 1 ELSE 3
             [] d.op = "INGEST" /\ d.pc \in {"write", "complete"} -> IF d.job = None THEN 0 ELSE 2
             [] d.op = "SILVER" /\ d.pc \in {"check", "create"} -> IF d.job = None THEN 1 ELSE 2
             [] d.op = "SILVER" /\ d.pc \in {"write", "complete"} -> IF d.job = None THEN 0 ELSE 1
             [] d.op = "GOLD" /\ d.pc \in {"check", "create"} -> 1
             [] OTHER -> 0
ToCreate == {p \in Callers \X (1..3) : p[2] <= Left(call[p[1]])}
Taken    == {b \in Batches : job[b] \notin {None, "PENDING"}}
CountInv ==
    /\ IsFiniteSet(ToCreate)
    /\ \E n \in 0..MaxRuns : Used = 1..n /\ n + Cardinality(ToCreate) <= 3 * (Cardinality(Taken) + extra)

Past(c) == call[c].op = "INGEST" /\ call[c].pc \in {"create", "write", "complete"}
BronzeInv ==
    /\ \A r \in RunIds : Ready("INGEST", r) => r \in bronze
    /\ \A c \in Callers : At(c, "INGEST", "complete") => call[c].run \in bronze
    /\ \A r \in bronze : /\ runs[r].kind = "INGEST"
                         /\ \/ runs[r].status = "COMPLETED" \/ runs[r].of \in interrupted
                            \/ \E c \in Callers : At(c, "INGEST", "complete") /\ call[c].run = r
    /\ \A c, d \in Callers : c # d /\ Past(c) /\ Past(d) /\ call[c].src = call[d].src => call[c].src \in raced
    /\ \A c \in Callers : Past(c) /\ call[c].src \notin raced => \A r \in RunIds : Ready("INGEST", r) => runs[r].of # call[c].src
    /\ BronzeHoldsABatchOnce

Shown(k) == gold[k].run # None /\ (k \in overtaken \/ gold[k].batch = silver[k].batch)
LayersOK ==
    \A k \in Keys :
        /\ silver[k].run = None => silver[k].batch = 0 /\ gold[k].run = None
        /\ silver[k].run # None => runs[silver[k].run].kind = "SILVER" /\ silver[k].batch = BatchOf(silver[k].run)
        /\ gold[k].run = None => gold[k].batch = 0
        /\ gold[k].run # None => runs[gold[k].run].kind = "GOLD"
Written(q) == \A k \in KeysOf[BatchOf(q)] : silver[k].run # None
Caught(s) == \A k \in Keys : silver[k].run = s => Shown(k)
LayerInv ==
    /\ LayersOK
    /\ \A r \in RunIds : /\ Ready("SILVER", r) => Written(runs[r].of)
                         /\ Ready("GOLD", r) => Caught(runs[r].of)
    /\ \A c \in Callers :
         /\ At(c, "SILVER", "complete") => Written(call[c].src)
         /\ At(c, "GOLD", "write") => /\ \A k \in call[c].rows : silver[k].run # None
                                      /\ \A k \in Keys : silver[k].run = call[c].src => k \in call[c].rows
         /\ At(c, "GOLD", "complete") => Caught(call[c].src)

QueueInv ==
    /\ \A a, b \in Batches : job[b] # None /\ a < b => job[a] # None
    /\ ~disturbed =>
         /\ \A c, d \in Callers : call[c].op # None /\ call[d].op # None => c = d
         /\ \A c \in Callers : call[c].op # None => call[c].by = "loop" /\ \A a \in Taken : a <= call[c].job
         /\ \A a \in Taken, b \in Batches \ Taken : a < b
         /\ \A k \in Keys : silver[k].run # None => silver[k].batch \in Taken

LakeInv == RowsOK /\ CallsOK /\ JobInv /\ CountInv /\ BronzeInv /\ LayerInv /\ QueueInv

-----------------------------------------------------------------------------
(* Constants, and the sets a choice is made from.                          *)

LEMMA Facts ==
    /\ MaxRuns \in Nat /\ RunIds \subseteq Nat \ {0} /\ Batches \subseteq Nat
    /\ None \notin Kinds /\ None \notin Ops /\ None \notin RunIds /\ None \notin Batches /\ None \notin {"loop", "admin"}
    /\ None \notin {"PENDING", "RUNNING", "SUCCEEDED", "FAILED", "COMPLETED"} /\ KeysOf \in [Batches -> SUBSET Keys]
    /\ MaxExtra \in Nat
<1>1. Cardinality(Batches) \in Nat
  BY BatchesHaveKeys, FS_CardinalityType
<1>2. MaxRuns \in Nat /\ RunIds \subseteq Nat \ {0}
  BY <1>1, BatchesHaveKeys DEF MaxRuns, RunIds
<1> QED
  BY <1>2, BatchesHaveKeys, NoneIsNothing DEF Kinds, Ops

LEMMA LeastExists ==
    ASSUME NEW S, S \subseteq Nat, S # {}
    PROVE  \E x \in S : \A y \in S : x <= y
<1>1. PICK x \in S : \A y \in S : <<y, x>> \notin OpToRel(<, Nat)
  BY WFMin, NatLessThanWellFounded
<1>2. \A y \in S : ~(y < x)
  BY <1>1 DEF OpToRel
<1> QED
  BY <1>2

LEMMA NewestIsOne ==
    ASSUME NEW S, S \subseteq RunIds, S # {}
    PROVE  Newest(S) \in S
<1> DEFINE T == {MaxRuns - r : r \in S}
<1>0. MaxRuns \in Nat /\ \A r \in S : r \in Int /\ MaxRuns - r \in Nat
  BY Facts DEF RunIds
<1>1. T \subseteq Nat /\ T # {}
  BY <1>0
<1>2. PICK x \in T : \A y \in T : x <= y
  <2> HIDE DEF T
  <2> QED
    BY <1>1, LeastExists
<1>3. PICK r \in S : x = MaxRuns - r
  OBVIOUS
<1>4. \A q \in S : q <= r
  <2> SUFFICES ASSUME NEW q \in S PROVE q <= r
    OBVIOUS
  <2>1. MaxRuns - q \in T
    OBVIOUS
  <2> HIDE DEF T
  <2>2. x <= MaxRuns - q
    BY <1>2, <2>1
  <2> QED
    BY <1>0, <1>3, <2>2
<1> QED
  BY <1>4 DEF Newest

LEMMA NextPendingIsOne ==
    ASSUME \E b \in Batches : job[b] = "PENDING"
    PROVE  NextPending \in Batches /\ job[NextPending] = "PENDING" /\ \A a \in Batches : job[a] = "PENDING" => NextPending <= a
<1>1. PICK b \in {a \in Batches : job[a] = "PENDING"} : \A a \in {a \in Batches : job[a] = "PENDING"} : b <= a
  <2>1. {a \in Batches : job[a] = "PENDING"} \subseteq Nat
    BY Facts
  <2> QED
    BY <2>1, LeastExists
<1> QED
  BY <1>1 DEF NextPending

LEMMA IdleCall ==
    /\ Idle \in CallType /\ Shape(Idle) /\ Idle.op = None /\ Idle.pc = "idle" /\ Idle.job = None /\ Idle.by = None
    /\ Idle.run = None /\ Left(Idle) = 0
BY Facts DEF Idle, CallType, Points, Ops, Kinds, Shape, Left

\* A job's request.
JobCall(b, who) == [Idle EXCEPT !.op = "INGEST", !.pc = "check", !.job = b, !.by = who, !.src = b]
LEMMA BeginJob ==
    ASSUME NEW b \in Batches, NEW who \in {"loop", "admin"}, NEW d, d = JobCall(b, who)
    PROVE  /\ d \in CallType /\ d.op = "INGEST" /\ d.pc = "check" /\ d.job = b /\ d.by = who /\ d.src = b /\ d.run = None
           /\ Shape(d)
<1>1. d \in CallType /\ d.op = "INGEST" /\ d.pc = "check" /\ d.job = b /\ d.by = who /\ d.src = b /\ d.run = None
  BY DEF JobCall, Idle, CallType, Points, Ops, Kinds
<1> QED
  BY <1>1, Facts DEF Shape, Kinds, Ops

\* A request that comes straight to the lakehouse.
DirectCall(op, src, force) == [Idle EXCEPT !.op = op, !.pc = "check", !.src = src, !.force = force]
LEMMA BeginRequest ==
    ASSUME NEW op \in Kinds, NEW src, op = "INGEST" => src \in Batches, op # "INGEST" => src \in RunIds,
           NEW force \in BOOLEAN, NEW d, d = DirectCall(op, src, force)
    PROVE  /\ d \in CallType /\ d.op = op /\ d.pc = "check" /\ d.job = None /\ d.by = None /\ d.src = src /\ d.run = None
           /\ Shape(d)
<1>1. d \in CallType /\ d.op = op /\ d.pc = "check" /\ d.job = None /\ d.by = None /\ d.src = src /\ d.run = None
  BY DEF DirectCall, Idle, CallType, Points, Ops, Kinds
<1> QED
  BY <1>1, Facts DEF Shape, Kinds

-----------------------------------------------------------------------------
(* A step of one caller.                                                   *)

\* Caller c goes on with d.
Goes(c, d) == call' \in [Callers -> CallType] /\ call'[c] = d /\ \A x \in Callers \ {c} : call'[x] = call[x]

LEMMA Turns ==
    ASSUME CallsOK, NEW c \in Callers, NEW d \in CallType, call' = [call EXCEPT ![c] = d]
    PROVE  Goes(c, d)
BY DEF Goes, CallsOK

LEMMA EndsGoes ==
    ASSUME CallsOK, NEW c \in Callers, Ends(c)
    PROVE  Goes(c, Idle)
BY IdleCall, Turns DEF Ends

LEMMA GotoGoes ==
    ASSUME CallsOK, NEW c \in Callers, NEW p \in Points, Goto(c, p)
    PROVE  \E d \in CallType : /\ Goes(c, d) /\ d.pc = p /\ d.op = call[c].op /\ d.job = call[c].job /\ d.by = call[c].by
                               /\ d.src = call[c].src /\ d.run = call[c].run /\ d.rows = call[c].rows
<1> PICK d : d = [call[c] EXCEPT !.pc = p]
  OBVIOUS
<1>1. call[c] \in CallType
  BY DEF CallsOK
<1>2. /\ d \in CallType /\ d.pc = p /\ d.op = call[c].op /\ d.job = call[c].job /\ d.by = call[c].by
      /\ d.src = call[c].src /\ d.run = call[c].run /\ d.rows = call[c].rows
  BY <1>1 DEF CallType
<1>3. call' = [call EXCEPT ![c] = d]
  BY DEF Goto
<1> QED
  BY <1>2, <1>3, Turns

\* A request that was answered: its caller asks for the next stage, or is done.
LEMMA AnswerGoes ==
    ASSUME CallsOK, NEW c \in Callers, NEW r \in RunIds, call[c].op \in Kinds, Answer(c, r)
    PROVE  \/ call[c].job = None /\ Goes(c, Idle)
           \/ /\ call[c].job # None
              /\ \E d \in CallType : /\ Goes(c, d) /\ d.pc = "check" /\ d.op = NextOp[call[c].op] /\ d.job = call[c].job
                                     /\ d.by = call[c].by /\ d.src = r /\ d.run = None
<1>1. CASE call[c].job = None
  BY <1>1, EndsGoes DEF Answer
<1>2. CASE call[c].job # None
  <2> PICK d : d = [call[c] EXCEPT !.op = NextOp[call[c].op], !.pc = "check", !.src = r, !.run = None, !.rows = {}]
    OBVIOUS
  <2>1. call[c] \in CallType /\ NextOp[call[c].op] \in Ops
    BY DEF CallsOK, Kinds, Ops, NextOp
  <2>2. /\ d \in CallType /\ d.pc = "check" /\ d.op = NextOp[call[c].op] /\ d.job = call[c].job
        /\ d.by = call[c].by /\ d.src = r /\ d.run = None
    BY <2>1 DEF CallType, Points
  <2>3. call' = [call EXCEPT ![c] = d]
    BY <1>2 DEF Answer
  <2> QED
    BY <1>2, <2>2, <2>3, Turns
<1> QED
  BY <1>1, <1>2

-----------------------------------------------------------------------------
(* Runs keep their kind and source, and stay completed.                    *)

Grown ==
    /\ runs' \in [RunIds -> RunRow]
    /\ \A r \in RunIds : runs[r].kind # None =>
         /\ runs'[r].kind = runs[r].kind /\ runs'[r].of = runs[r].of
         /\ runs[r].status = "COMPLETED" => runs'[r].status = "COMPLETED"

LEMMA ReadyStays ==
    ASSUME Grown, NEW r \in RunIds, NEW kind \in Kinds, Ready(kind, r)
    PROVE  Ready(kind, r)' /\ runs'[r].of = runs[r].of
BY Facts DEF Grown, Ready

LEMMA LinkedStays ==
    ASSUME RowsOK, Grown, NEW r \in RunIds, runs[r].kind # None
    PROVE  Linked(r)'
<1>1. Linked(r) /\ runs'[r].kind = runs[r].kind /\ runs'[r].of = runs[r].of
  BY DEF RowsOK, Grown
<1> QED
  BY <1>1, ReadyStays DEF Linked, Kinds

LEMMA BatchIs ==
    ASSUME RowsOK, NEW r \in RunIds
    PROVE  /\ runs[r].kind = "INGEST" => BatchOf(r) = runs[r].of
           /\ runs[r].kind = "SILVER" => BatchOf(r) = BatchOf(runs[r].of)
           /\ runs[r].kind = "GOLD" => BatchOf(r) = BatchOf(runs[r].of)
           /\ runs[r].kind \in Kinds => BatchOf(r) \in Batches
<1>1. Linked(r) /\ \A q \in RunIds : Linked(q)
  BY DEF RowsOK
<1>2. CASE runs[r].kind = "INGEST"
  BY <1>1, <1>2 DEF BatchOf, Linked
<1>3. CASE runs[r].kind = "SILVER"
  <2>1. runs[r].of \in RunIds /\ runs[runs[r].of].kind = "INGEST" /\ runs[runs[r].of].of \in Batches
    BY <1>1, <1>3 DEF Linked, Ready
  <2>2. BatchOf(r) = runs[runs[r].of].of
    BY <1>3 DEF BatchOf
  <2>3. BatchOf(runs[r].of) = runs[runs[r].of].of
    BY <2>1 DEF BatchOf
  <2> QED
    BY <1>3, <2>1, <2>2, <2>3
<1>4. CASE runs[r].kind = "GOLD"
  <2>1. runs[r].of \in RunIds /\ runs[runs[r].of].kind = "SILVER"
    BY <1>1, <1>4 DEF Linked, Ready
  <2>2. /\ runs[runs[r].of].of \in RunIds /\ runs[runs[runs[r].of].of].kind = "INGEST"
        /\ runs[runs[runs[r].of].of].of \in Batches
    BY <1>1, <2>1 DEF Linked, Ready
  <2>3. BatchOf(r) = runs[runs[runs[r].of].of].of
    BY <1>4 DEF BatchOf
  <2>4. BatchOf(runs[r].of) = runs[runs[runs[r].of].of].of
    BY <2>1 DEF BatchOf
  <2> QED
    BY <1>4, <2>2, <2>3, <2>4
<1> QED
  BY <1>2, <1>3, <1>4 DEF Kinds

LEMMA BatchStays ==
    ASSUME RowsOK, Grown, NEW r \in RunIds, runs[r].kind \in Kinds
    PROVE  BatchOf(r)' = BatchOf(r)
<1>1. \A q \in RunIds : Linked(q)
  BY DEF RowsOK
<1>2. \A q \in RunIds : runs[q].kind \in Kinds => runs'[q].kind = runs[q].kind /\ runs'[q].of = runs[q].of
  BY Facts DEF Grown
<1>3. CASE runs[r].kind = "INGEST"
  BY <1>2, <1>3 DEF BatchOf, Kinds
<1>4. CASE runs[r].kind = "SILVER"
  <2>1. runs[r].of \in RunIds /\ runs[runs[r].of].kind = "INGEST"
    BY <1>1, <1>4 DEF Linked, Ready
  <2> QED
    BY <1>2, <1>4, <2>1 DEF BatchOf, Kinds
<1>5. CASE runs[r].kind = "GOLD"
  <2>1. runs[r].of \in RunIds /\ runs[runs[r].of].kind = "SILVER"
    BY <1>1, <1>5 DEF Linked, Ready
  <2>2. runs[runs[r].of].of \in RunIds /\ runs[runs[runs[r].of].of].kind = "INGEST"
    BY <1>1, <2>1 DEF Linked, Ready
  <2> QED
    BY <1>2, <1>5, <2>1, <2>2 DEF BatchOf, Kinds
<1> QED
  BY <1>3, <1>4, <1>5 DEF Kinds

\* What holds of one caller holds of every one that did not take the step.
LEMMA CallsKept ==
    ASSUME RowsOK, CallsOK, Grown, NEW c \in Callers, NEW d, Goes(c, d), Shape(d), Holds(d)',
           \A x \in Callers \ {c} : call[x].run # None => runs'[call[x].run] = runs[call[x].run],
           d.run # None => \A x \in Callers \ {c} : call[x].run # d.run
    PROVE  CallsOK'
<1>1. ASSUME NEW x \in Callers PROVE Shape(call'[x]) /\ Holds(call[x])'
  <2>1. CASE x = c
    <3>1. call'[x] = d
      BY <2>1 DEF Goes
    <3> QED
      BY <3>1 DEF Holds
  <2>2. CASE x # c
    <3>1. PICK e : e = call[x] /\ e = call'[x]
      BY <2>2 DEF Goes
    <3>2. Shape(e) /\ Holds(e) /\ e \in CallType
      BY <3>1 DEF CallsOK
    <3>3. e.run # None => runs'[e.run] = runs[e.run]
      BY <2>2, <3>1
    <3>4. ASSUME NEW kind \in Kinds, e.op \in {"SILVER", "GOLD", "PUBLISH"}, Ready(kind, e.src)
          PROVE  Ready(kind, e.src)' /\ BatchOf(e.src)' = BatchOf(e.src)
      <4>1. e.src \in RunIds /\ runs[e.src].kind \in Kinds
        BY <3>2, <3>4 DEF Shape, Ready
      <4> QED
        BY <3>4, <4>1, ReadyStays, BatchStays
    <3>5. Holds(e)'
      BY <3>2, <3>3, <3>4 DEF Holds, Kinds
    <3> QED
      BY <3>1, <3>2, <3>5 DEF Holds
  <2> QED
    BY <2>1, <2>2
<1>2. ASSUME NEW x \in Callers, NEW y \in Callers, call'[x].run # None, call'[x].run = call'[y].run PROVE x = y
  BY <1>2 DEF Goes, CallsOK
<1>3. call' \in [Callers -> CallType]
  BY DEF Goes
<1>4. CallType' = CallType /\ \A e : Shape(e)' <=> Shape(e)
  BY DEF CallType, Ops, Kinds, Points, RunIds, MaxRuns, Shape
<1> QED
  BY <1>1, <1>2, <1>3, <1>4 DEF CallsOK

\* Nobody else works on the run of this caller.
LEMMA OthersRuns ==
    ASSUME CallsOK, NEW c \in Callers, call[c].run # None
    PROVE  \A x \in Callers \ {c} : call[x].run # call[c].run
BY DEF CallsOK

\* Jobs, when the step does not touch them or ends the caller's own.
LEMMA JobKept ==
    ASSUME RowsOK, JobInv, Grown, job' = job, NEW c \in Callers, NEW d, Goes(c, d), d.job \in {None, call[c].job}
    PROVE  JobInv'
<1>1. \A x \in Callers : call'[x].job \in {None, call[x].job}
  BY DEF Goes
<1>2. \A x \in Callers : call'[x].job # None => job'[call'[x].job] = "RUNNING"
  BY <1>1 DEF JobInv
<1>3. OneWorkerPerJob'
  BY <1>1 DEF JobInv, OneWorkerPerJob
<1>4. SucceededJobHasItsChain'
  <2> SUFFICES ASSUME NEW b \in Batches, job[b] = "SUCCEEDED"
               PROVE  \E g \in Used' : runs'[g].kind = "GOLD" /\ runs'[g].status = "COMPLETED" /\ BatchOf(g)' = b
    BY DEF SucceededJobHasItsChain
  <2>1. PICK g \in Used : runs[g].kind = "GOLD" /\ runs[g].status = "COMPLETED" /\ BatchOf(g) = b
    BY DEF JobInv, SucceededJobHasItsChain
  <2>2. g \in RunIds /\ runs'[g].kind = "GOLD" /\ runs'[g].status = "COMPLETED" /\ BatchOf(g)' = b
    BY <2>1, Facts, BatchStays DEF Used, Grown, Kinds
  <2>3. g \in Used'
    BY <2>2, Facts DEF Used, Kinds
  <2> QED
    BY <2>2, <2>3
<1> QED
  BY <1>2, <1>3, <1>4 DEF JobInv

LEMMA JobEnds ==
    ASSUME RowsOK, CallsOK, JobInv, Grown, NEW c \in Callers, Goes(c, Idle), NEW status \in {"SUCCEEDED", "FAILED"},
           SetJob(call[c].job, status),
           status = "SUCCEEDED" /\ call[c].job # None => \E g \in RunIds : Ready("GOLD", g)' /\ BatchOf(g)' = call[c].job
    PROVE  JobInv'
<1> PICK j : j = call[c].job
  OBVIOUS
<1>1. CASE j = None
  <2>1. job' = job
    BY <1>1 DEF SetJob
  <2> QED
    BY <2>1, IdleCall, JobKept
<1>2. CASE j # None
  <2>1. j \in Batches /\ job' = [job EXCEPT ![j] = status] /\ job \in [Batches -> JobStates]
    BY <1>2 DEF SetJob, CallsOK, CallType, RowsOK
  <2>2. job'[j] = status /\ \A b \in Batches \ {j} : job'[b] = job[b]
    BY <2>1
  <2>3. \A x \in Callers \ {c} : call'[x] = call[x] /\ (call[x].job # None => call[x].job # j)
    BY <1>2 DEF Goes, JobInv, OneWorkerPerJob
  <2>4. call'[c].job = None
    BY IdleCall DEF Goes
  <2>5. ASSUME NEW x \in Callers, call'[x].job # None PROVE job'[call'[x].job] = "RUNNING"
    <3>1. x # c /\ call'[x] = call[x] /\ call[x].job # j /\ call[x].job \in Batches
      BY <2>3, <2>4, <2>5 DEF CallsOK, CallType
    <3> QED
      BY <2>2, <2>5, <3>1 DEF JobInv
  <2>6. OneWorkerPerJob'
    BY <2>3, <2>4 DEF JobInv, OneWorkerPerJob
  <2>7. SucceededJobHasItsChain'
    <3> SUFFICES ASSUME NEW b \in Batches, job'[b] = "SUCCEEDED"
                 PROVE  \E g \in Used' : runs'[g].kind = "GOLD" /\ runs'[g].status = "COMPLETED" /\ BatchOf(g)' = b
      BY DEF SucceededJobHasItsChain
    <3>1. CASE b = j
      <4>1. PICK g \in RunIds : Ready("GOLD", g)' /\ BatchOf(g)' = j
        BY <1>2, <2>2, <3>1
      <4> QED
        BY <3>1, <4>1, Facts DEF Ready, Used, Kinds
    <3>2. CASE b # j
      <4>1. PICK g \in Used : runs[g].kind = "GOLD" /\ runs[g].status = "COMPLETED" /\ BatchOf(g) = b
        BY <2>2, <3>2 DEF JobInv, SucceededJobHasItsChain
      <4>2. g \in RunIds /\ runs'[g].kind = "GOLD" /\ runs'[g].status = "COMPLETED" /\ BatchOf(g)' = b
        BY <4>1, Facts, BatchStays DEF Used, Grown, Kinds
      <4> QED
        BY <4>2, Facts DEF Used, Kinds
    <3> QED
      BY <3>1, <3>2
  <2> QED
    BY <2>5, <2>6, <2>7 DEF JobInv
<1> QED
  BY <1>1, <1>2

-----------------------------------------------------------------------------
(* How many runs there are.                                                *)

LEMMA LeftType == \A d : Left(d) \in 0..3
BY DEF Left

LEMMA TakenType ==
    /\ IsFiniteSet(Taken) /\ Cardinality(Taken) \in Nat /\ Cardinality(Taken) <= Cardinality(Batches)
    /\ Cardinality(Batches) \in Nat
BY BatchesHaveKeys, FS_CardinalityType, FS_Subset DEF Taken

LEMMA CountKept ==
    ASSUME CountInv, Used' = Used, Taken' = Taken, extra' = extra,
           \A x \in Callers : Left(call'[x]) <= Left(call[x])
    PROVE  CountInv'
<1>1. ToCreate' \in SUBSET ToCreate
  <2> SUFFICES ASSUME NEW x \in Callers, NEW k \in 1..3, k <= Left(call'[x]) PROVE k <= Left(call[x])
    BY DEF ToCreate
  <2> QED
    BY LeftType
<1>2. IsFiniteSet(ToCreate)' /\ Cardinality(ToCreate') <= Cardinality(ToCreate)
  BY <1>1, FS_Subset DEF CountInv
<1>3. Cardinality(ToCreate) \in Nat /\ Cardinality(ToCreate') \in Nat
  BY <1>2, FS_CardinalityType DEF CountInv
<1>4. PICK n \in 0..MaxRuns : Used = 1..n /\ n + Cardinality(ToCreate) <= 3 * (Cardinality(Taken) + extra)
  BY DEF CountInv
<1>5. n + Cardinality(ToCreate') <= n + Cardinality(ToCreate)
  BY <1>2, <1>3
<1>6. n + Cardinality(ToCreate') <= 3 * (Cardinality(Taken') + extra')
  <2> PICK x : x = 3 * (Cardinality(Taken) + extra)
    OBVIOUS
  <2> QED
    BY <1>2, <1>3, <1>4
<1> QED
  BY <1>2, <1>4, <1>6 DEF CountInv

LEMMA OneMore ==
    ASSUME NEW S, IsFiniteSet(S), NEW x
    PROVE  /\ IsFiniteSet(S \cup {x}) /\ Cardinality(S \cup {x}) \in Nat
           /\ Cardinality(S) \in Nat /\ Cardinality(S \cup {x}) <= Cardinality(S) + 1
<1>1. IsFiniteSet(S \cup {x}) /\ Cardinality(S \cup {x}) = IF x \in S THEN Cardinality(S) ELSE Cardinality(S) + 1
  BY FS_AddElement
<1>2. Cardinality(S) \in Nat
  BY FS_CardinalityType
<1> QED
  BY <1>1, <1>2

\* A request that begins is paid for by the job that is taken up or by the administrator's extra.
LEMMA CountBegins ==
    ASSUME CountInv, RowsOK, NEW c \in Callers, \A x \in Callers \ {c} : call'[x] = call[x],
           Used' = Used, extra' \in Nat, Cardinality(Taken) + extra + 1 <= Cardinality(Taken') + extra'
    PROVE  CountInv'
<1> DEFINE T1 == ToCreate \cup {<<c, 1>>}
           T2 == T1 \cup {<<c, 2>>}
           T3 == T2 \cup {<<c, 3>>}
<1>1. IsFiniteSet(ToCreate) /\ Cardinality(ToCreate) \in Nat
  BY FS_CardinalityType DEF CountInv
<1>2. IsFiniteSet(T1) /\ Cardinality(T1) <= Cardinality(ToCreate) + 1 /\ Cardinality(T1) \in Nat
  BY <1>1, OneMore
<1>3. IsFiniteSet(T2) /\ Cardinality(T2) <= Cardinality(T1) + 1 /\ Cardinality(T2) \in Nat
  <2> HIDE DEF T1
  <2> QED
    BY <1>2, OneMore
<1>4. IsFiniteSet(T3) /\ Cardinality(T3) <= Cardinality(T2) + 1 /\ Cardinality(T3) \in Nat
  <2> HIDE DEF T1, T2
  <2> QED
    BY <1>3, OneMore
<1>5. ToCreate' \in SUBSET T3
  <2> SUFFICES ASSUME NEW x \in Callers, NEW k \in 1..3, k <= Left(call'[x]) PROVE <<x, k>> \in T3
    BY DEF ToCreate
  <2>1. CASE x = c
    BY <2>1
  <2>2. CASE x # c
    BY <2>2 DEF ToCreate
  <2> QED
    BY <2>1, <2>2
<1>6. IsFiniteSet(ToCreate') /\ Cardinality(ToCreate') <= Cardinality(T3) /\ Cardinality(ToCreate') \in Nat
  <2> HIDE DEF T1, T2, T3
  <2> QED
    BY <1>4, <1>5, FS_Subset, FS_CardinalityType
<1>7. Cardinality(ToCreate') <= Cardinality(ToCreate) + 3
  <2> HIDE DEF T1, T2, T3
  <2> QED
    BY <1>1, <1>2, <1>3, <1>4, <1>6
<1>8. PICK n \in 0..MaxRuns : Used = 1..n /\ n + Cardinality(ToCreate) <= 3 * (Cardinality(Taken) + extra)
  BY DEF CountInv
<1>9. n + Cardinality(ToCreate') <= 3 * (Cardinality(Taken') + extra')
  <2>1. Cardinality(Taken) \in Nat /\ Cardinality(Taken') \in Nat /\ extra \in Nat
    BY TakenType, FS_CardinalityType, FS_Subset, BatchesHaveKeys DEF Taken, RowsOK
  <2>2. PICK a, b : a = Cardinality(Taken) + extra /\ b = Cardinality(Taken') + extra'
    OBVIOUS
  <2>3. a \in Nat /\ b \in Nat /\ a + 1 <= b /\ n + Cardinality(ToCreate) <= 3 * a /\ n \in Nat
    BY <1>8, <2>1, <2>2
  <2>4. n + Cardinality(ToCreate') <= 3 * b
    <3> HIDE DEF T1, T2, T3
    <3> QED
      BY <1>1, <1>6, <1>7, <2>3
  <2> QED
    BY <2>2, <2>4
<1> QED
  BY <1>6, <1>8, <1>9 DEF CountInv

\* There is room for the run a request may still create.
LEMMA RoomForARun ==
    ASSUME CountInv, RowsOK, NEW c \in Callers, Left(call[c]) # 0
    PROVE  /\ NewRun \in RunIds /\ NewRun \notin Used /\ Used = 1..(NewRun - 1)
           /\ NewRun - 1 + Cardinality(ToCreate) <= 3 * (Cardinality(Taken) + extra)
<1>1. PICK n \in 0..MaxRuns : Used = 1..n /\ n + Cardinality(ToCreate) <= 3 * (Cardinality(Taken) + extra)
  BY DEF CountInv
<1>2. n \in Nat /\ MaxRuns \in Nat
  BY <1>1, Facts
<1>3. NewRun = n + 1
  <2>1. Cardinality(1..n) = n
    BY <1>2, FS_Interval
  <2> QED
    BY <1>1, <1>2, <2>1 DEF NewRun
<1>4. Cardinality(ToCreate) \in Nat /\ Cardinality(ToCreate) # 0
  <2>1. <<c, Left(call[c])>> \in ToCreate
    BY LeftType DEF ToCreate
  <2>2. ToCreate # {} /\ IsFiniteSet(ToCreate)
    BY <2>1 DEF CountInv
  <2> QED
    BY <2>2, FS_CardinalityType, FS_EmptySet
<1>5. n + 1 <= MaxRuns
  <2>1. Cardinality(Taken) \in Nat /\ Cardinality(Taken) <= Cardinality(Batches) /\ Cardinality(Batches) \in Nat
    BY TakenType
  <2>2. extra \in Nat /\ extra <= MaxExtra /\ MaxExtra \in Nat
    BY Facts DEF RowsOK
  <2>3. PICK a, b : a = Cardinality(Taken) + extra /\ b = Cardinality(Batches) + MaxExtra
    OBVIOUS
  <2>4. a \in Nat /\ b \in Nat /\ a <= b
    BY <2>1, <2>2, <2>3
  <2>5. n + 1 <= 3 * b
    BY <1>1, <1>2, <1>4, <2>3, <2>4
  <2> QED
    BY <2>3, <2>5 DEF MaxRuns
<1> QED
  BY <1>1, <1>2, <1>3, <1>5 DEF RunIds

LEMMA CountCreates ==
    ASSUME CountInv, RowsOK, NEW c \in Callers, \A x \in Callers \ {c} : call'[x] = call[x],
           Left(call'[c]) < Left(call[c]), Used' = Used \cup {NewRun}, Taken' = Taken, extra' = extra
    PROVE  CountInv'
<1> DEFINE p == <<c, Left(call[c])>>
<1>1. p \in ToCreate /\ IsFiniteSet(ToCreate) /\ Cardinality(ToCreate) \in Nat
  BY LeftType, FS_CardinalityType DEF ToCreate, CountInv
<1>2. ToCreate' \in SUBSET (ToCreate \ {p})
  <2> SUFFICES ASSUME NEW x \in Callers, NEW k \in 1..3, k <= Left(call'[x])
               PROVE  k <= Left(call[x]) /\ (x = c => k # Left(call[c]))
    BY DEF ToCreate
  <2> QED
    BY LeftType
<1>3. IsFiniteSet(ToCreate \ {p}) /\ Cardinality(ToCreate \ {p}) = Cardinality(ToCreate) - 1
  BY <1>1, FS_RemoveElement
<1>4. IsFiniteSet(ToCreate') /\ Cardinality(ToCreate') <= Cardinality(ToCreate) - 1 /\ Cardinality(ToCreate') \in Nat
  BY <1>2, <1>3, FS_Subset, FS_CardinalityType
<1>5. /\ NewRun \in RunIds /\ NewRun \notin Used /\ Used = 1..(NewRun - 1)
      /\ NewRun - 1 + Cardinality(ToCreate) <= 3 * (Cardinality(Taken) + extra)
  BY LeftType, RoomForARun
<1> PICK n : n = NewRun
  OBVIOUS
<1>6. n \in 0..MaxRuns /\ n \in Nat /\ n # 0
  BY <1>5, Facts DEF RunIds
<1>7. Used' = 1..n
  BY <1>5, <1>6
<1>8. n + Cardinality(ToCreate') <= 3 * (Cardinality(Taken') + extra')
  <2> PICK a : a = 3 * (Cardinality(Taken) + extra)
    OBVIOUS
  <2>1. a \in Nat
    BY TakenType DEF RowsOK
  <2> HIDE DEF p
  <2> QED
    BY <1>1, <1>4, <1>5, <1>6, <2>1
<1> QED
  BY <1>4, <1>6, <1>7, <1>8 DEF CountInv

-----------------------------------------------------------------------------
(* Bronze, when nothing is appended and no ingestion completes.            *)

LEMMA BronzeKept ==
    ASSUME BronzeInv, RowsOK, CallsOK, Grown, NEW c \in Callers, NEW d, Goes(c, d), bronze' = bronze,
           interrupted \subseteq interrupted', raced \subseteq raced',
           \A r \in RunIds : Ready("INGEST", r)' =>
               Ready("INGEST", r) \/ (r = call[c].run /\ At(c, "INGEST", "complete") /\ ~Past(c)'),
           Past(c)' => Past(c) /\ d.src = call[c].src,
           At(c, "INGEST", "complete")' => At(c, "INGEST", "complete") /\ d.run = call[c].run,
           At(c, "INGEST", "complete") => \/ At(c, "INGEST", "complete")' \/ runs[call[c].run].of \in interrupted'
                                          \/ runs'[call[c].run].status = "COMPLETED"
    PROVE  BronzeInv'
<1>1. \A x \in Callers \ {c} : call'[x] = call[x] /\ (Past(x)' <=> Past(x)) /\ \A p : At(x, "INGEST", p)' <=> At(x, "INGEST", p)
  BY DEF Goes, Past, At
<1>2. call'[c] = d
  BY DEF Goes
<1>3. \A r \in bronze : r \in RunIds /\ runs[r].kind = "INGEST" /\ runs'[r].kind = "INGEST" /\ runs'[r].of = runs[r].of
                        /\ (runs[r].status = "COMPLETED" => runs'[r].status = "COMPLETED")
  BY Facts DEF BronzeInv, RowsOK, Grown, Kinds
<1>4. ASSUME NEW r \in RunIds, Ready("INGEST", r)' PROVE r \in bronze' /\ runs'[r].of = runs[r].of
  <2>2. r \in bronze
    BY <1>4 DEF BronzeInv
  <2> QED
    BY <1>3, <2>2
<1>5. \A x \in Callers : At(x, "INGEST", "complete")' => call'[x].run \in bronze'
  BY <1>1, <1>2 DEF BronzeInv
<1>6. ASSUME NEW r \in bronze'
      PROVE  /\ runs'[r].kind = "INGEST"
             /\ \/ runs'[r].status = "COMPLETED" \/ runs'[r].of \in interrupted'
                \/ \E x \in Callers : At(x, "INGEST", "complete")' /\ call'[x].run = r
  <2>1. \/ runs[r].status = "COMPLETED" \/ runs[r].of \in interrupted
        \/ \E x \in Callers : At(x, "INGEST", "complete") /\ call[x].run = r
    BY DEF BronzeInv
  <2>2. ASSUME NEW x \in Callers, At(x, "INGEST", "complete"), call[x].run = r
        PROVE  \/ runs'[r].of \in interrupted' \/ runs'[r].status = "COMPLETED"
               \/ At(x, "INGEST", "complete")' /\ call'[x].run = r
    <3>1. CASE x = c
      BY <1>2, <1>3, <2>2, <3>1
    <3>2. CASE x # c
      BY <1>1, <2>2, <3>2
    <3> QED
      BY <3>1, <3>2
  <2> QED
    BY <1>3, <2>1, <2>2
<1>7. ASSUME NEW x \in Callers, NEW y \in Callers, x # y, Past(x)', Past(y)', call'[x].src = call'[y].src
      PROVE  call'[x].src \in raced'
  BY <1>1, <1>2, <1>7 DEF BronzeInv
<1>8. ASSUME NEW x \in Callers, Past(x)', call'[x].src \notin raced', NEW r \in RunIds, Ready("INGEST", r)'
      PROVE  runs'[r].of # call'[x].src
  <2>1. Past(x) /\ call'[x].src = call[x].src
    BY <1>1, <1>2, <1>8
  <2>2. runs[r].of # call[x].src
    <3>1. CASE Ready("INGEST", r)
      BY <1>8, <2>1, <3>1 DEF BronzeInv
    <3>2. CASE r = call[c].run /\ At(c, "INGEST", "complete") /\ ~Past(c)'
      <4>1. x # c /\ Past(c) /\ r # None
        BY <1>8, <3>2, Facts DEF Past, At
      <4>2. runs[r].of = call[c].src
        BY <3>2, <4>1 DEF CallsOK, Holds
      <4> QED
        BY <1>8, <2>1, <4>1, <4>2 DEF BronzeInv
    <3> QED
      BY <1>8, <3>1, <3>2
  <2> QED
    BY <1>4, <1>8, <2>1, <2>2
<1>9. BronzeHoldsABatchOnce'
  BY <1>3 DEF BronzeInv, BronzeHoldsABatchOnce
<1> QED
  BY <1>4, <1>5, <1>6, <1>7, <1>8, <1>9 DEF BronzeInv

-----------------------------------------------------------------------------
(* Silver and Gold, when neither is written and no run of theirs completes. *)

LEMMA LayersKept ==
    ASSUME LayersOK, RowsOK, Grown, silver' = silver, gold' = gold
    PROVE  LayersOK'
<1> SUFFICES ASSUME NEW k \in Keys
             PROVE  /\ silver[k].run = None => silver[k].batch = 0 /\ gold[k].run = None
                    /\ silver[k].run # None => runs'[silver[k].run].kind = "SILVER" /\ silver[k].batch = BatchOf(silver[k].run)'
                    /\ gold[k].run = None => gold[k].batch = 0
                    /\ gold[k].run # None => runs'[gold[k].run].kind = "GOLD"
  BY DEF LayersOK
<1>1. silver[k].run \in RunIds \cup {None} /\ gold[k].run \in RunIds \cup {None}
  BY DEF RowsOK, TableRow
<1>2. ASSUME silver[k].run # None
      PROVE  runs'[silver[k].run].kind = "SILVER" /\ silver[k].batch = BatchOf(silver[k].run)'
  <2>1. runs[silver[k].run].kind = "SILVER" /\ silver[k].batch = BatchOf(silver[k].run) /\ silver[k].run \in RunIds
    BY <1>1, <1>2 DEF LayersOK
  <2> QED
    BY <2>1, Facts, BatchStays DEF Grown, Kinds
<1>3. ASSUME gold[k].run # None PROVE runs'[gold[k].run].kind = "GOLD"
  BY <1>1, <1>3, Facts DEF LayersOK, Grown, Kinds
<1> QED
  BY <1>2, <1>3 DEF LayersOK

LEMMA LayerKept ==
    ASSUME LayerInv, RowsOK, CallsOK, Grown, NEW c \in Callers, NEW d, Goes(c, d),
           silver' = silver, gold' = gold, overtaken' = overtaken,
           \A r \in RunIds, kind \in {"SILVER", "GOLD"} : Ready(kind, r)' =>
               Ready(kind, r) \/ (r = call[c].run /\ At(c, kind, "complete")),
           At(c, "SILVER", "complete")' => At(c, "SILVER", "complete") /\ d.src = call[c].src,
           At(c, "GOLD", "complete")' => At(c, "GOLD", "complete") /\ d.src = call[c].src,
           At(c, "GOLD", "write")' => /\ \A k \in d.rows : silver[k].run # None
                                     /\ \A k \in Keys : silver[k].run = d.src => k \in d.rows
    PROVE  LayerInv'
<1>1. \A x \in Callers \ {c} : call'[x] = call[x] /\ \A op, p : At(x, op, p)' <=> At(x, op, p)
  BY DEF Goes, At
<1>2. call'[c] = d
  BY DEF Goes
<1>3. LayersOK'
  BY LayersKept DEF LayerInv
<1>4. ASSUME NEW q \in RunIds, runs[q].kind \in Kinds, Written(q) PROVE Written(q)'
  BY <1>4, BatchStays DEF Written
<1>5. \A s : Caught(s) => Caught(s)'
  BY DEF Caught, Shown
<1>5a. ASSUME NEW r \in RunIds, NEW kind \in {"SILVER", "GOLD"}, Ready(kind, r)'
      PROVE  runs[r].kind = kind /\ runs'[r].of = runs[r].of
  <2>1. CASE Ready(kind, r)
    BY <2>1, ReadyStays DEF Kinds, Ready
  <2>2. CASE r = call[c].run /\ At(c, kind, "complete")
    <3>1. runs[r].kind = kind
      BY <2>2, Facts DEF CallsOK, Holds, At
    <3> QED
      BY <3>1, Facts DEF Grown, Kinds
  <2> QED
    BY <1>5a, <2>1, <2>2
<1>6. ASSUME NEW r \in RunIds
      PROVE  /\ Ready("SILVER", r)' => Written(runs[r].of)'
             /\ Ready("GOLD", r)' => Caught(runs[r].of)'
  <2>1. ASSUME Ready("SILVER", r)' PROVE Written(runs[r].of)'
    <3>1. runs[r].kind = "SILVER" /\ runs'[r].of = runs[r].of
      BY <1>5a, <2>1
    <3>2. runs[r].of \in RunIds /\ runs[runs[r].of].kind \in Kinds /\ Written(runs[r].of)
      <4>1. runs[r].of \in RunIds /\ runs[runs[r].of].kind \in Kinds
        BY <3>1 DEF RowsOK, Linked, Ready, Kinds
      <4>2. CASE Ready("SILVER", r)
        BY <4>1, <4>2 DEF LayerInv
      <4>3. CASE r = call[c].run /\ At(c, "SILVER", "complete")
        BY <4>1, <4>3, Facts DEF LayerInv, CallsOK, Holds
      <4> QED
        BY <2>1, <4>2, <4>3
    <3>3. PICK q \in RunIds : q = runs[r].of
      BY <3>2
    <3>4. Written(q)'
      BY <1>4, <3>2, <3>3
    <3> QED
      BY <3>1, <3>3, <3>4 DEF Written
  <2>2. ASSUME Ready("GOLD", r)' PROVE Caught(runs[r].of)'
    <3>1. runs'[r].of = runs[r].of
      BY <1>5a, <2>2
    <3>2. PICK q : q = runs[r].of
      OBVIOUS
    <3>3. Caught(q)'
      <4>1. CASE Ready("GOLD", r)
        BY <1>5, <3>2, <4>1 DEF LayerInv
      <4>2. CASE r = call[c].run /\ At(c, "GOLD", "complete")
        <5>1. q = call[c].src
          BY <3>2, <4>2, Facts DEF CallsOK, Holds
        <5> QED
          BY <1>5, <4>2, <5>1 DEF LayerInv
      <4> QED
        BY <2>2, <4>1, <4>2
    <3> QED
      BY <3>1, <3>2, <3>3 DEF Caught
  <2> QED
    BY <2>1, <2>2
<1>7. ASSUME NEW x \in Callers
      PROVE  /\ At(x, "SILVER", "complete")' => At(x, "SILVER", "complete") /\ call'[x].src = call[x].src
             /\ At(x, "GOLD", "complete")' => At(x, "GOLD", "complete") /\ call'[x].src = call[x].src
             /\ At(x, "GOLD", "write")' => /\ \A k \in call'[x].rows : silver'[k].run # None
                                          /\ \A k \in Keys : silver'[k].run = call'[x].src => k \in call'[x].rows
  <2>1. CASE x = c
    BY <1>2, <2>1
  <2>2. CASE x # c
    BY <1>1, <2>2 DEF LayerInv
  <2> QED
    BY <2>1, <2>2
<1>8. ASSUME NEW x \in Callers
      PROVE  /\ At(x, "SILVER", "complete")' => Written(call[x].src)'
             /\ At(x, "GOLD", "write")' => /\ \A k \in call'[x].rows : silver'[k].run # None
                                          /\ \A k \in Keys : silver'[k].run = call'[x].src => k \in call'[x].rows
             /\ At(x, "GOLD", "complete")' => Caught(call[x].src)'
  <2>1. ASSUME At(x, "SILVER", "complete")' PROVE Written(call[x].src)'
    <3>1. At(x, "SILVER", "complete") /\ call'[x].src = call[x].src
      BY <1>7, <2>1
    <3>2. call[x].src \in RunIds /\ runs[call[x].src].kind \in Kinds /\ Written(call[x].src)
      BY <3>1 DEF LayerInv, CallsOK, Shape, Holds, At, Ready, Kinds
    <3>3. PICK q \in RunIds : q = call[x].src
      BY <3>2
    <3>4. Written(q)'
      BY <1>4, <3>2, <3>3
    <3> QED
      BY <3>1, <3>3, <3>4 DEF Written
  <2>2. ASSUME At(x, "GOLD", "complete")' PROVE Caught(call[x].src)'
    <3>1. At(x, "GOLD", "complete") /\ call'[x].src = call[x].src
      BY <1>7, <2>2
    <3>2. PICK q : q = call[x].src
      OBVIOUS
    <3>3. Caught(q)'
      BY <1>5, <3>1, <3>2 DEF LayerInv
    <3> QED
      BY <3>1, <3>2, <3>3 DEF Caught
  <2> QED
    BY <1>7, <2>1, <2>2 DEF LayerInv
<1> QED
  BY <1>3, <1>6, <1>8 DEF LayerInv

-----------------------------------------------------------------------------
(* Jobs and the queue.                                                     *)

\* No job enters or leaves the queue.
Queued == /\ job' \in [Batches -> JobStates] /\ Taken' = Taken
          /\ \A b \in Batches : job'[b] = None <=> job[b] = None

LEMMA SetJobQueued ==
    ASSUME RowsOK, CallsOK, JobInv, NEW c \in Callers, NEW status \in {"SUCCEEDED", "FAILED"}, SetJob(call[c].job, status)
    PROVE  Queued
<1> PICK j : j = call[c].job
  OBVIOUS
<1>1. job \in [Batches -> JobStates]
  BY DEF RowsOK
<1>2. CASE j = None
  BY <1>1, <1>2 DEF SetJob, Queued, Taken
<1>3. CASE j # None
  <2>1. j \in Batches /\ job[j] = "RUNNING"
    BY <1>3 DEF CallsOK, CallType, JobInv
  <2>2. job' = [job EXCEPT ![j] = status]
    BY <1>3 DEF SetJob
  <2> QED
    BY <1>1, <2>1, <2>2, Facts DEF Queued, Taken, JobStates
<1> QED
  BY <1>2, <1>3

LEMMA QueueKept ==
    ASSUME QueueInv, Queued, disturbed' = disturbed, silver' = silver, NEW c \in Callers, NEW d, Goes(c, d),
           d.op # None => call[c].op # None /\ d.by = call[c].by /\ d.job = call[c].job
    PROVE  QueueInv'
<1>1. \A a, b \in Batches : job'[b] # None /\ a < b => job'[a] # None
  BY DEF QueueInv, Queued
<1> SUFFICES ASSUME ~disturbed
             PROVE  /\ \A x, y \in Callers : call'[x].op # None /\ call'[y].op # None => x = y
                    /\ \A x \in Callers : call'[x].op # None => call'[x].by = "loop" /\ \A a \in Taken : a <= call'[x].job
                    /\ \A a \in Taken, b \in Batches \ Taken : a < b
                    /\ \A k \in Keys : silver[k].run # None => silver[k].batch \in Taken
  BY <1>1 DEF QueueInv, Queued
<1>2. \A x \in Callers : call'[x].op # None => call[x].op # None /\ call'[x].by = call[x].by /\ call'[x].job = call[x].job
  BY DEF Goes
<1> QED
  BY <1>2 DEF QueueInv

LEMMA QueueDisturbed ==
    ASSUME QueueInv, \A b \in Batches : job'[b] = None <=> job[b] = None, disturbed'
    PROVE  QueueInv'
BY DEF QueueInv

-----------------------------------------------------------------------------
(* Steps that create, complete and write nothing.                          *)

\* No run is created or completed.
Settles ==
    /\ Grown /\ \A r \in RunIds : runs[r].kind = None => runs'[r] = runs[r]
    /\ \A r \in RunIds, kind \in Kinds : Ready(kind, r)' => Ready(kind, r)

LEMMA SameSettles ==
    ASSUME RowsOK, runs' = runs
    PROVE  Settles
BY DEF Settles, Grown, RowsOK, Ready

LEMMA SettledRows ==
    ASSUME RowsOK, Settles
    PROVE  Used' = Used /\ \A r \in RunIds : Linked(r)'
<1>1. Used' = Used
  BY DEF Settles, Grown, Used
<1>2. ASSUME NEW r \in RunIds, runs[r].kind = None PROVE Linked(r)'
  BY <1>2, Facts DEF Settles, Linked, Kinds
<1>3. ASSUME NEW r \in RunIds, runs[r].kind # None PROVE Linked(r)'
  BY <1>3, LinkedStays DEF Settles
<1> QED
  BY <1>1, <1>2, <1>3

\* The layers, the extra and the mark of a disturbed queue stay as they are.
Still == UNCHANGED <<bronze, silver, gold, extra, overtaken, disturbed>>

\* What such a step keeps of the runs, the callers and the count, whatever it does to the layers.
LEMMA StepKeeps ==
    ASSUME LakeInv, NEW c \in Callers, NEW d, Goes(c, d), Shape(d), Holds(d)', Settles, Queued, JobInv',
           bronze' \subseteq RunIds, silver' \in [Keys -> TableRow], gold' \in [Keys -> TableRow], extra' = extra,
           disturbed' \in BOOLEAN,
           \A x \in Callers \ {c} : call[x].run # None => runs'[call[x].run] = runs[call[x].run],
           d.run # None => d.run = call[c].run, Left(d) <= Left(call[c]),
           BronzeInv', LayerInv', QueueInv'
    PROVE  LakeInv'
<1>1. Used' = Used /\ RowsOK'
  BY SettledRows
     DEF LakeInv, RowsOK, Settles, Grown, Queued, RunRow, TableRow, RunIds, MaxRuns, JobStates
<1>2. d.run # None => \A x \in Callers \ {c} : call[x].run # d.run
  BY OthersRuns DEF LakeInv
<1>3. CallsOK'
  BY <1>2, CallsKept DEF LakeInv, Settles
<1>4. CountInv'
  <2>1. \A x \in Callers : Left(call'[x]) <= Left(call[x])
    BY LeftType DEF Goes
  <2> QED
    BY <1>1, <2>1, CountKept DEF LakeInv, Queued
<1> QED
  BY <1>1, <1>3, <1>4 DEF LakeInv

LEMMA QuietKeeps ==
    ASSUME LakeInv, NEW c \in Callers, NEW d, Goes(c, d), Shape(d), Holds(d)', Settles, Still, Queued, JobInv',
           \A x \in Callers \ {c} : call[x].run # None => runs'[call[x].run] = runs[call[x].run],
           d.run # None => d.run = call[c].run,
           interrupted \subseteq interrupted', raced \subseteq raced',
           Past(c)' => Past(c) /\ d.src = call[c].src,
           d.pc \notin {"write", "complete"},
           At(c, "INGEST", "complete") => call[c].src \in interrupted',
           Left(d) <= Left(call[c]),
           d.op # None => call[c].op # None /\ d.by = call[c].by /\ d.job = call[c].job
    PROVE  LakeInv'
<1> USE DEF Still
<1>1. ~At(c, "INGEST", "complete")' /\ ~At(c, "SILVER", "complete")' /\ ~At(c, "GOLD", "complete")' /\ ~At(c, "GOLD", "write")'
  BY DEF Goes, At
<1>2. At(c, "INGEST", "complete") => runs[call[c].run].of \in interrupted'
  BY Facts DEF LakeInv, CallsOK, Shape, Holds, At, Ops, Kinds
<1>3. BronzeInv'
  BY <1>1, <1>2, BronzeKept DEF LakeInv, Settles, Kinds
<1>4. LayerInv'
  BY <1>1, LayerKept DEF LakeInv, Settles, Kinds
<1>5. QueueInv'
  BY QueueKept DEF LakeInv
<1> QED
  BY <1>3, <1>4, <1>5, StepKeeps DEF LakeInv, RowsOK

\* A request that ends, its run FAILED or left as it is.
FailsRun(c) == call[c].run # None /\ runs' = [runs EXCEPT ![call[c].run].status = "FAILED"]

LEMMA FailSettles ==
    ASSUME RowsOK, CallsOK, NEW c \in Callers, FailsRun(c)
    PROVE  Settles /\ \A x \in Callers \ {c} : call[x].run # None => runs'[call[x].run] = runs[call[x].run]
<1> PICK r : r = call[c].run
  OBVIOUS
<1>1. /\ r \in RunIds /\ runs[r].status = "RUNNING" /\ runs[r].kind # None
      /\ runs' = [runs EXCEPT ![r].status = "FAILED"] /\ runs \in [RunIds -> RunRow]
  <2>1. r \in RunIds /\ runs[r].status = "RUNNING" /\ runs[r].kind = call[c].op /\ call[c].op # None
    BY Facts DEF FailsRun, CallsOK, CallType, Shape, Holds
  <2> QED
    BY <2>1 DEF FailsRun, RowsOK
<1>2. /\ runs' \in [RunIds -> RunRow] /\ runs'[r].kind = runs[r].kind /\ runs'[r].of = runs[r].of /\ runs'[r].status = "FAILED"
      /\ \A q \in RunIds \ {r} : runs'[q] = runs[q]
  BY <1>1 DEF RunRow
<1>3. Settles
  BY <1>1, <1>2 DEF Settles, Grown, Ready
<1>4. ASSUME NEW x \in Callers \ {c}, call[x].run # None PROVE runs'[call[x].run] = runs[call[x].run]
  <2>1. call[x].run # r /\ call[x].run \in RunIds
    BY <1>4, OthersRuns DEF FailsRun, CallsOK, CallType
  <2> QED
    BY <1>2, <2>1
<1> QED
  BY <1>3, <1>4

LEMMA EndKeeps ==
    ASSUME LakeInv, NEW c \in Callers, Ends(c), runs' = runs \/ FailsRun(c), Still, NEW status \in {"SUCCEEDED", "FAILED"},
           job' = job \/ SetJob(call[c].job, status),
           status = "SUCCEEDED" => call[c].op = "PUBLISH",
           Early(c) \subseteq interrupted', raced \subseteq raced'
    PROVE  LakeInv'
<1>1. Goes(c, Idle)
  BY EndsGoes DEF LakeInv
<1>2. Settles /\ \A x \in Callers \ {c} : call[x].run # None => runs'[call[x].run] = runs[call[x].run]
  BY SameSettles, FailSettles DEF LakeInv
<1>3. Queued /\ JobInv'
  <2>1. CASE job' = job
    BY <1>1, <1>2, <2>1, IdleCall, JobKept DEF LakeInv, Queued, RowsOK, Taken, Settles
  <2>2. CASE SetJob(call[c].job, status)
    <3>1. ASSUME status = "SUCCEEDED", call[c].job # None
          PROVE  \E g \in RunIds : Ready("GOLD", g)' /\ BatchOf(g)' = call[c].job
      <4>1. call[c].src \in RunIds /\ Ready("GOLD", call[c].src) /\ BatchOf(call[c].src) = call[c].job
        BY <3>1 DEF LakeInv, CallsOK, Shape, Holds
      <4>2. PICK g \in RunIds : g = call[c].src /\ Ready("GOLD", g) /\ BatchOf(g) = call[c].job
        BY <4>1
      <4>3. runs[g].kind \in Kinds
        BY <4>2 DEF Ready, Kinds
      <4>4. Ready("GOLD", g)' /\ BatchOf(g)' = BatchOf(g)
        BY <1>2, <4>2, <4>3, ReadyStays, BatchStays DEF LakeInv, Settles, Kinds
      <4> QED
        BY <4>2, <4>4
    <3>2. JobInv'
      BY <1>1, <1>2, <2>2, <3>1, JobEnds DEF LakeInv, Settles
    <3> QED
      BY <2>2, <3>2, SetJobQueued DEF LakeInv
  <2> QED
    BY <2>1, <2>2
<1>4. Holds(Idle)' /\ Shape(Idle)
  BY IdleCall, Facts DEF Holds, Ops, Kinds
<1>5. interrupted \subseteq interrupted' /\ (At(c, "INGEST", "complete") => call[c].src \in interrupted')
  BY DEF Early
<1>6. ~Past(c)' /\ Left(Idle) <= Left(call[c])
  BY <1>1, IdleCall, LeftType, Facts DEF Past, Goes, Ops, Kinds
<1> QED
  BY <1>1, <1>2, <1>3, <1>4, <1>5, <1>6, IdleCall, QuietKeeps

-----------------------------------------------------------------------------
(* Requests that fail, and requests answered by an earlier run.            *)

LEMMA PublishKeeps ==
    ASSUME LakeInv, NEW c \in Callers, Publish(c)
    PROVE  LakeInv'
<1>1. call[c].op = "PUBLISH" /\ call[c].pc = "check" /\ UNCHANGED <<tables, extra, aux>> /\ Ends(c)
  BY DEF Publish, At, Failed
<1>2. Early(c) = interrupted
  BY <1>1 DEF Early, At
<1>3. PICK status \in {"SUCCEEDED", "FAILED"} : SetJob(call[c].job, status)
  BY DEF Publish, Failed
<1> QED
  BY <1>1, <1>2, <1>3, EndKeeps DEF tables, aux, Still

LEMMA FailKeeps ==
    ASSUME LakeInv, NEW c \in Callers, Fail(c)
    PROVE  LakeInv'
<1>1. FailsRun(c) /\ Ends(c) /\ SetJob(call[c].job, "FAILED")
  BY DEF Fail, FailsRun, Failed
<1> QED
  BY <1>1, EndKeeps DEF Fail, Still

LEMMA BreaksKeeps ==
    ASSUME LakeInv, NEW c \in Callers, Breaks(c)
    PROVE  LakeInv'
<1>1. runs' = runs /\ Ends(c) /\ SetJob(call[c].job, "FAILED")
  BY DEF Breaks, Break, tables, Failed
<1> QED
  BY <1>1, EndKeeps DEF Breaks, tables, Still

\* What a worker holds that asks for the next stage.
LEMMA NextCall ==
    ASSUME RowsOK, CallsOK, Grown, NEW c \in Callers, call[c].op \in Kinds, call[c].pc \in {"check", "complete"},
           call[c].job # None, NEW r \in RunIds, runs'[r].status = "COMPLETED", runs[r].kind = call[c].op, runs[r].of = call[c].src,
           NEW d \in CallType, d.pc = "check", d.op = NextOp[call[c].op], d.job = call[c].job, d.by = call[c].by,
           d.src = r, d.run = None
    PROVE  Shape(d) /\ Holds(d)' /\ Left(d) <= Left(call[c])
<1> PICK e : e = call[c]
  OBVIOUS
<1>1. e \in CallType /\ Shape(e) /\ Holds(e)
  BY DEF CallsOK
<1>2. d.op \in {"SILVER", "GOLD", "PUBLISH"} /\ d.op # None
  BY Facts DEF NextOp, Kinds, Ops
<1>3. Shape(d)
  BY <1>1, <1>2, Facts DEF Shape, Points
<1>4. BatchOf(r)' = d.job
  <2>1. BatchOf(r)' = BatchOf(r)
    BY BatchStays DEF Kinds
  <2>2. CASE e.op = "INGEST"
    <3>1. e.src = e.job
      BY <1>1, <2>2 DEF Shape
    <3> QED
      BY <2>1, <2>2, <3>1, BatchIs
  <2>3. CASE e.op \in {"SILVER", "GOLD"}
    <3>1. BatchOf(e.src) = e.job
      BY <1>1, <2>3 DEF Holds
    <3> QED
      BY <2>1, <2>3, <3>1, BatchIs
  <2> QED
    BY <2>2, <2>3 DEF Kinds
<1>5. Holds(d)'
  <2>1. runs'[r].kind = e.op
    BY <1>1, Facts DEF Grown, Kinds
  <2> QED
    BY <1>2, <1>4, <2>1 DEF Holds, NextOp, Kinds, Ready
<1>6. Left(d) <= Left(e)
  <2>1. CASE e.op = "INGEST"
    <3>1. Left(e) \in {2, 3} /\ Left(d) = 2
      BY <2>1, Facts DEF Left, NextOp
    <3> QED
      BY <3>1
  <2>2. CASE e.op = "SILVER"
    <3>1. Left(e) \in {1, 2} /\ Left(d) = 1
      BY <2>2, Facts DEF Left, NextOp
    <3> QED
      BY <3>1
  <2>3. CASE e.op = "GOLD"
    <3>1. Left(d) = 0
      BY <2>3, Facts DEF Left, NextOp
    <3> QED
      BY <3>1, LeftType
  <2> QED
    BY <2>1, <2>2, <2>3 DEF Kinds
<1> QED
  BY <1>3, <1>5, <1>6

LEMMA DuplicateKeeps ==
    ASSUME LakeInv, NEW c \in Callers, call[c].op \in Kinds, call[c].pc = "check", NEW r \in RunIds,
           Ready(call[c].op, r), runs[r].of = call[c].src, Answer(c, r), UNCHANGED <<tables, job, extra, overtaken, disturbed>>,
           interrupted' = interrupted, raced \subseteq raced'
    PROVE  LakeInv'
<1>0. Still /\ runs' = runs /\ Settles /\ Grown
  BY SameSettles DEF Still, tables, LakeInv, Settles
<1>1. CASE call[c].job = None
  <2>1. Ends(c)
    BY <1>1 DEF Answer
  <2>2. Early(c) = interrupted
    BY DEF Early, At
  <2> QED
    BY <1>0, <2>1, <2>2, EndKeeps
<1>2. CASE call[c].job # None
  <2>1. PICK d \in CallType : /\ Goes(c, d) /\ d.pc = "check" /\ d.op = NextOp[call[c].op] /\ d.job = call[c].job
                              /\ d.by = call[c].by /\ d.src = r /\ d.run = None
    BY <1>2, AnswerGoes DEF LakeInv
  <2>2. runs'[r].status = "COMPLETED" /\ runs[r].kind = call[c].op
    BY <1>0 DEF Ready
  <2>3. Shape(d) /\ Holds(d)' /\ Left(d) <= Left(call[c])
    BY <1>0, <1>2, <2>1, <2>2, NextCall DEF LakeInv
  <2>4. JobInv' /\ Queued
    BY <1>0, <2>1, JobKept DEF LakeInv, Queued, RowsOK, Taken
  <2>5. ~Past(c)' /\ ~At(c, "INGEST", "complete") /\ call[c].op # None
    BY <2>1, Facts DEF Past, Goes, At
  <2> QED
    BY <1>0, <2>1, <2>3, <2>4, <2>5, QuietKeeps
<1> QED
  BY <1>1, <1>2

\* A caller that goes on without a word to the tables: it holds what it held.
LEMMA SameShape ==
    ASSUME LakeInv, NEW c \in Callers, NEW p \in Points, Goto(c, p), call[c].op \in Kinds,
           runs' = runs, job' = job,
           call[c].run # None <=> p \in {"read", "write", "complete"}, p # "idle", p = "read" => call[c].op = "GOLD",
           call[c].op = "SILVER" => Ready("INGEST", call[c].src),
           call[c].op = "GOLD" => Ready("SILVER", call[c].src)
    PROVE  \E d \in CallType : /\ Goes(c, d) /\ d.pc = p /\ d.op = call[c].op /\ d.job = call[c].job /\ d.by = call[c].by
                               /\ d.src = call[c].src /\ d.run = call[c].run /\ d.rows = call[c].rows
                               /\ Shape(d) /\ Holds(d)' /\ Queued /\ JobInv' /\ Settles
<1>1. PICK d \in CallType : /\ Goes(c, d) /\ d.pc = p /\ d.op = call[c].op /\ d.job = call[c].job /\ d.by = call[c].by
                            /\ d.src = call[c].src /\ d.run = call[c].run /\ d.rows = call[c].rows
  BY GotoGoes DEF LakeInv
<1> PICK e : e = call[c]
  OBVIOUS
<1>2. e \in CallType /\ Shape(e) /\ Holds(e)
  BY DEF LakeInv, CallsOK
<1>3. Shape(d)
  BY <1>1, <1>2, Facts DEF Shape, Kinds
<1>4. Holds(d)
  BY <1>1, <1>2 DEF Holds, Kinds
<1>5. BatchOf(d.src)' = BatchOf(d.src)
  BY DEF BatchOf
<1>6. Holds(d)'
  BY <1>4, <1>5 DEF Holds, Ready
<1>7. Settles /\ JobInv' /\ Queued
  BY <1>1, SameSettles, JobKept DEF LakeInv, Settles, Queued, RowsOK, Taken
<1> QED
  BY <1>1, <1>3, <1>6, <1>7

LEMMA CheckPipelineKeeps ==
    ASSUME LakeInv, NEW c \in Callers, CheckPipeline(c)
    PROVE  LakeInv'
<1>1. call[c].op \in {"SILVER", "GOLD"} /\ call[c].pc = "check" /\ UNCHANGED <<tables, extra, aux>> /\ Early(c) = interrupted
  BY DEF CheckPipeline, Early, At
<1>2. CASE ~Ready(SourceKind[call[c].op], call[c].src)
  <2>1. Ends(c) /\ SetJob(call[c].job, "FAILED")
    BY <1>2 DEF CheckPipeline, Failed
  <2> QED
    BY <1>1, <2>1, EndKeeps DEF Still, tables, aux
<1>3. CASE Ready(SourceKind[call[c].op], call[c].src) /\ Duplicates(c) # {}
  <2>1. Duplicates(c) = Successful(call[c].op, call[c].src)
    BY <1>3 DEF Duplicates
  <2>2. PICK r : r = Newest(Duplicates(c))
    OBVIOUS
  <2>3. r \in Duplicates(c)
    BY <1>3, <2>1, <2>2, NewestIsOne DEF Successful, Used
  <2>4. r \in RunIds /\ runs[r] = [kind |-> call[c].op, of |-> call[c].src, status |-> "COMPLETED"]
    BY <2>1, <2>3 DEF Successful, Used
  <2>5. Ready(call[c].op, r) /\ runs[r].of = call[c].src
    BY <2>4 DEF Ready
  <2>6. job' = job /\ Answer(c, r)
    BY <1>3, <2>2 DEF CheckPipeline
  <2> QED
    BY <1>1, <2>4, <2>5, <2>6, DuplicateKeeps DEF tables, aux, Kinds
<1>4. CASE Ready(SourceKind[call[c].op], call[c].src) /\ Duplicates(c) = {}
  <2>1. job' = job /\ Goto(c, "create") /\ runs' = runs /\ call[c].op \in Kinds
    BY <1>1, <1>4 DEF CheckPipeline, tables, Kinds
  <2>2. call[c].run = None
    BY <1>1 DEF LakeInv, CallsOK, Shape
  <2>3. /\ call[c].op = "SILVER" => Ready("INGEST", call[c].src)
        /\ call[c].op = "GOLD" => Ready("SILVER", call[c].src)
    BY <1>4 DEF SourceKind
  <2>4. PICK d \in CallType : /\ Goes(c, d) /\ d.pc = "create" /\ d.op = call[c].op /\ d.job = call[c].job /\ d.by = call[c].by
                              /\ d.src = call[c].src /\ d.run = call[c].run /\ d.rows = call[c].rows
                              /\ Shape(d) /\ Holds(d)' /\ Queued /\ JobInv' /\ Settles
    <3>1. "create" \in Points
      BY DEF Points
    <3> QED
      BY <2>1, <2>2, <2>3, <3>1, SameShape
  <2>5. Left(d) <= Left(call[c])
    <3>1. Left(d) = Left(call[c])
      BY <1>1, <2>4 DEF Left
    <3> QED
      BY <3>1, LeftType
  <2>6. ~Past(c)' /\ ~At(c, "INGEST", "complete")
    BY <1>1, <2>4 DEF Past, Goes, At
  <2> QED
    BY <1>1, <2>1, <2>2, <2>4, <2>5, <2>6, QuietKeeps, Facts DEF Still, tables, aux
<1> QED
  BY <1>2, <1>3, <1>4

LEMMA CheckIngestionKeeps ==
    ASSUME LakeInv, NEW c \in Callers, CheckIngestion(c)
    PROVE  LakeInv'
<1>1. /\ call[c].op = "INGEST" /\ call[c].pc = "check" /\ UNCHANGED <<tables, job, extra, interrupted, orphaned, overtaken, disturbed>>
      /\ raced \subseteq raced' /\ call[c].op \in Kinds /\ ~At(c, "INGEST", "complete") /\ call[c].run = None
      /\ call[c].src \in Batches
  BY Facts DEF CheckIngestion, At, Kinds, LakeInv, CallsOK, Shape
<1>2. CASE Ingested(call[c].src) # {}
  <2>1. PICK r : r = Newest(Ingested(call[c].src))
    OBVIOUS
  <2>2. r \in Ingested(call[c].src)
    BY <1>2, <2>1, NewestIsOne DEF Ingested, Successful, Used
  <2>3. r \in RunIds /\ runs[r] = [kind |-> "INGEST", of |-> call[c].src, status |-> "COMPLETED"]
    BY <2>2 DEF Ingested, Successful, Used
  <2>4. Ready(call[c].op, r) /\ runs[r].of = call[c].src
    BY <1>1, <2>3 DEF Ready
  <2>5. Answer(c, r)
    BY <1>2, <2>1 DEF CheckIngestion
  <2> QED
    BY <1>1, <2>3, <2>4, <2>5, DuplicateKeeps
<1>3. CASE Ingested(call[c].src) = {}
  <2>1. Goto(c, "create") /\ runs' = runs /\ job' = job
    BY <1>1, <1>3 DEF CheckIngestion, tables
  <2>2. PICK d \in CallType : /\ Goes(c, d) /\ d.pc = "create" /\ d.op = call[c].op /\ d.job = call[c].job /\ d.by = call[c].by
                              /\ d.src = call[c].src /\ d.run = call[c].run /\ d.rows = call[c].rows
                              /\ Shape(d) /\ Holds(d)' /\ Queued /\ JobInv' /\ Settles
    <3>1. "create" \in Points
      BY DEF Points
    <3> QED
      BY <1>1, <2>1, <3>1, SameShape
  <2>3. Left(d) <= Left(call[c])
    <3>1. Left(d) = Left(call[c])
      BY <1>1, <2>2 DEF Left
    <3> QED
      BY <3>1, LeftType
  <2>4. call'[c] = d /\ \A x \in Callers \ {c} : call'[x] = call[x] /\ (Past(x)' <=> Past(x)) /\ \A p : At(x, "INGEST", p)' <=> At(x, "INGEST", p)
    BY <2>2 DEF Goes, Past, At
  <2>5. \A r \in RunIds : Ready("INGEST", r) => runs[r].of # call[c].src
    <3> SUFFICES ASSUME NEW r \in RunIds, Ready("INGEST", r), runs[r].of = call[c].src PROVE FALSE
      OBVIOUS
    <3>1. runs[r] = [kind |-> "INGEST", of |-> call[c].src, status |-> "COMPLETED"]
      <4>1. runs[r] \in RunRow
        BY DEF LakeInv, RowsOK
      <4> QED
        BY <4>1 DEF Ready, RunRow
    <3> QED
      BY <1>3, <3>1, Facts DEF Ingested, Successful, Used, Kinds
  <2>6. ASSUME NEW x \in Callers \ {c}, Past(x), call[x].src = call[c].src PROVE call[c].src \in raced'
    BY <2>6 DEF CheckIngestion, Past
  <2>7. BronzeInv'
    <3>1. bronze' = bronze /\ runs' = runs /\ interrupted' = interrupted
      BY <1>1 DEF tables
    <3>2. ASSUME NEW x \in Callers, NEW y \in Callers, x # y, Past(x)', Past(y)', call'[x].src = call'[y].src
          PROVE  call'[x].src \in raced'
      <4>1. CASE x = c
        BY <2>2, <2>4, <2>6, <3>2, <4>1
      <4>2. CASE y = c
        BY <2>2, <2>4, <2>6, <3>2, <4>2
      <4>3. CASE x # c /\ y # c
        BY <1>1, <2>4, <3>2, <4>3 DEF LakeInv, BronzeInv
      <4> QED
        BY <4>1, <4>2, <4>3
    <3>3. ASSUME NEW x \in Callers, Past(x)', call'[x].src \notin raced', NEW r \in RunIds, Ready("INGEST", r)
          PROVE  runs[r].of # call'[x].src
      <4>1. CASE x = c
        BY <2>2, <2>4, <2>5, <3>3, <4>1
      <4>2. CASE x # c
        BY <1>1, <2>4, <3>3, <4>2 DEF LakeInv, BronzeInv
      <4> QED
        BY <4>1, <4>2
    <3>4. BronzeHoldsABatchOnce'
      BY <1>1, <3>1 DEF LakeInv, BronzeInv, BronzeHoldsABatchOnce
    <3>5. ASSUME NEW r \in bronze
          PROVE  /\ runs[r].kind = "INGEST"
                 /\ \/ runs[r].status = "COMPLETED" \/ runs[r].of \in interrupted
                    \/ \E x \in Callers : At(x, "INGEST", "complete")' /\ call'[x].run = r
      <4>1. ASSUME NEW x \in Callers, At(x, "INGEST", "complete"), call[x].run = r
            PROVE  At(x, "INGEST", "complete")' /\ call'[x].run = r
        <5>1. x # c
          BY <1>1, <4>1
        <5> QED
          BY <2>4, <4>1, <5>1
      <4> QED
        BY <4>1 DEF LakeInv, BronzeInv
    <3>6. \A x \in Callers : At(x, "INGEST", "complete")' => call'[x].run \in bronze
      <4> SUFFICES ASSUME NEW x \in Callers, At(x, "INGEST", "complete")' PROVE call'[x].run \in bronze
        OBVIOUS
      <4>1. x # c
        BY <2>2, <2>4 DEF At
      <4> QED
        BY <2>4, <4>1 DEF LakeInv, BronzeInv
    <3>7. RunIds' = RunIds /\ \A r : Ready("INGEST", r)' <=> Ready("INGEST", r)
      BY <3>1 DEF RunIds, MaxRuns, Ready
    <3>8. \A r \in RunIds : Ready("INGEST", r) => r \in bronze
      BY DEF LakeInv, BronzeInv
    <3> QED
      BY <3>1, <3>2, <3>3, <3>4, <3>5, <3>6, <3>7, <3>8 DEF BronzeInv
  <2>8. LayerInv'
    <3>1. ~At(c, "SILVER", "complete")' /\ ~At(c, "GOLD", "complete")' /\ ~At(c, "GOLD", "write")'
      BY <2>2, <2>4 DEF At
    <3>2. \A r \in RunIds, kind \in {"SILVER", "GOLD"} : Ready(kind, r)' => Ready(kind, r)
      BY <2>1 DEF Ready
    <3> QED
      BY <1>1, <2>2, <3>1, <3>2, LayerKept DEF LakeInv, tables, Settles
  <2>9. QueueInv'
    BY <1>1, <2>2, QueueKept, Facts DEF LakeInv, tables
  <2> QED
    BY <1>1, <2>1, <2>2, <2>3, <2>7, <2>8, <2>9, StepKeeps DEF LakeInv, RowsOK, tables
<1> QED
  BY <1>2, <1>3

-----------------------------------------------------------------------------
(* Steps that write: Bronze.                                               *)

LEMMA WriteBronzeKeeps ==
    ASSUME LakeInv, NEW c \in Callers, WriteBronze(c)
    PROVE  LakeInv'
<1> PICK e : e = call[c]
  OBVIOUS
<1>1. /\ e.op = "INGEST" /\ e.pc = "write" /\ e \in CallType /\ Shape(e) /\ Holds(e) /\ e.op \in Kinds
      /\ UNCHANGED <<runs, silver, gold, job, extra, aux>> /\ bronze' = bronze \cup {e.run} /\ Goto(c, "complete")
  BY DEF WriteBronze, At, LakeInv, CallsOK, Kinds
<1>2. /\ e.run \in RunIds /\ runs[e.run].kind = "INGEST" /\ runs[e.run].of = e.src /\ e.run # None /\ Past(c)
  BY <1>1, Facts DEF Shape, Holds, CallType, Past
<1>3. PICK d \in CallType : /\ Goes(c, d) /\ d.pc = "complete" /\ d.op = e.op /\ d.job = e.job /\ d.by = e.by
                            /\ d.src = e.src /\ d.run = e.run /\ d.rows = e.rows
                            /\ Shape(d) /\ Holds(d)' /\ Queued /\ JobInv' /\ Settles
  <2>1. "complete" \in Points
    BY DEF Points
  <2> QED
    BY <1>1, <1>2, <2>1, SameShape
<1>4. Left(d) <= Left(e)
  <2>1. Left(d) = Left(e)
    BY <1>1, <1>3 DEF Left
  <2> QED
    BY <2>1, LeftType
<1>5. call'[c] = d /\ \A x \in Callers \ {c} : call'[x] = call[x] /\ \A p : At(x, "INGEST", p)' <=> At(x, "INGEST", p)
  BY <1>3 DEF Goes, At
<1>6. \A x \in Callers : (Past(x)' <=> Past(x)) /\ call'[x].src = call[x].src
  BY <1>1, <1>2, <1>3, <1>5 DEF Past
<1>7. ASSUME NEW r \in bronze, r # e.run, runs[r].of = e.src PROVE e.src \in interrupted \cup raced
  <2>1. CASE runs[r].status = "COMPLETED"
    <3>1. r \in RunIds /\ Ready("INGEST", r)
      BY <2>1 DEF LakeInv, BronzeInv, RowsOK, Ready
    <3> QED
      BY <1>2, <1>7, <3>1 DEF LakeInv, BronzeInv
  <2>2. ASSUME NEW x \in Callers, At(x, "INGEST", "complete"), call[x].run = r PROVE e.src \in raced
    <3>1. x # c /\ Past(x)
      BY <1>1, <2>2 DEF At, Past
    <3>2. call[x].run # None
      BY <2>2, Facts DEF LakeInv, BronzeInv, RowsOK
    <3>3. call[x].src = e.src
      BY <1>7, <2>2, <3>2 DEF LakeInv, CallsOK, Holds
    <3> QED
      BY <1>2, <3>1, <3>3 DEF LakeInv, BronzeInv
  <2> QED
    BY <1>7, <2>1, <2>2 DEF LakeInv, BronzeInv
<1>8. BronzeHoldsABatchOnce'
  <2> SUFFICES ASSUME NEW q \in bronze', NEW r \in bronze', q # r, runs[q].of = runs[r].of
               PROVE  runs[q].of \in interrupted \cup raced
    BY <1>1 DEF BronzeHoldsABatchOnce, aux
  <2>1. CASE q = e.run
    BY <1>1, <1>2, <1>7, <2>1
  <2>2. CASE r = e.run
    BY <1>1, <1>2, <1>7, <2>2
  <2>3. CASE q # e.run /\ r # e.run
    BY <1>1, <2>3 DEF LakeInv, BronzeInv, BronzeHoldsABatchOnce
  <2> QED
    BY <2>1, <2>2, <2>3
<1>9. BronzeInv'
  <2>1. \A r : Ready("INGEST", r)' <=> Ready("INGEST", r)
    BY <1>1 DEF Ready
  <2>2. \A x \in Callers : At(x, "INGEST", "complete")' => call'[x].run \in bronze'
    BY <1>1, <1>3, <1>5 DEF LakeInv, BronzeInv
  <2>3. ASSUME NEW r \in bronze'
        PROVE  /\ runs[r].kind = "INGEST"
               /\ \/ runs[r].status = "COMPLETED" \/ runs[r].of \in interrupted
                  \/ \E x \in Callers : At(x, "INGEST", "complete")' /\ call'[x].run = r
    <3>1. CASE r = e.run
      BY <1>1, <1>2, <1>3, <1>5, <3>1 DEF At
    <3>2. CASE r # e.run
      <4>1. ASSUME NEW x \in Callers, At(x, "INGEST", "complete"), call[x].run = r
            PROVE  At(x, "INGEST", "complete")' /\ call'[x].run = r
        <5>1. x # c
          BY <1>1, <4>1 DEF At
        <5> QED
          BY <1>5, <4>1, <5>1
      <4> QED
        BY <1>1, <3>2, <4>1 DEF LakeInv, BronzeInv
    <3> QED
      BY <3>1, <3>2
  <2>4. runs' = runs /\ interrupted' = interrupted /\ raced' = raced /\ RunIds' = RunIds
    BY <1>1 DEF aux, RunIds, MaxRuns
  <2>5. \A r \in RunIds : Ready("INGEST", r) => r \in bronze'
    BY <1>1 DEF LakeInv, BronzeInv
  <2>6. /\ \A x, y \in Callers : x # y /\ Past(x)' /\ Past(y)' /\ call'[x].src = call'[y].src => call'[x].src \in raced
        /\ \A x \in Callers : Past(x)' /\ call'[x].src \notin raced =>
             \A r \in RunIds : Ready("INGEST", r) => runs[r].of # call'[x].src
    BY <1>6 DEF LakeInv, BronzeInv
  <2> QED
    BY <1>8, <2>1, <2>2, <2>3, <2>4, <2>5, <2>6 DEF BronzeInv
<1>10. LayerInv'
  <2>1. ~At(c, "SILVER", "complete")' /\ ~At(c, "GOLD", "complete")' /\ ~At(c, "GOLD", "write")'
    BY <1>1, <1>3, <1>5 DEF At
  <2>2. \A r \in RunIds, kind \in {"SILVER", "GOLD"} : Ready(kind, r)' => Ready(kind, r)
    BY <1>1 DEF Ready
  <2> QED
    BY <1>1, <1>3, <2>1, <2>2, LayerKept DEF LakeInv, aux, Settles
<1>11. QueueInv'
  BY <1>1, <1>3, QueueKept DEF LakeInv, aux
<1> QED
  BY <1>1, <1>2, <1>3, <1>4, <1>9, <1>10, <1>11, StepKeeps DEF LakeInv, RowsOK, aux

LEMMA ReadSilverKeeps ==
    ASSUME LakeInv, NEW c \in Callers, ReadSilver(c)
    PROVE  LakeInv'
<1> PICK e : e = call[c]
  OBVIOUS
<1> PICK d : d = [e EXCEPT !.pc = "write", !.rows = {k \in Keys : silver[k].run = e.src}]
  OBVIOUS
<1>1. /\ e.op = "GOLD" /\ e.pc = "read" /\ e \in CallType /\ Shape(e) /\ Holds(e)
      /\ UNCHANGED <<tables, job, extra, aux>> /\ runs' = runs
  BY DEF ReadSilver, At, LakeInv, CallsOK, tables
<1>2. /\ d \in CallType /\ d.pc = "write" /\ d.op = e.op /\ d.job = e.job /\ d.by = e.by
      /\ d.src = e.src /\ d.run = e.run /\ d.rows = {k \in Keys : silver[k].run = e.src}
  BY <1>1 DEF CallType, Points
<1>3. Goes(c, d)
  <2>1. call' = [call EXCEPT ![c] = d]
    BY DEF ReadSilver
  <2> QED
    BY <1>2, <2>1, Turns DEF LakeInv
<1>4. Shape(d)
  BY <1>1, <1>2 DEF Shape
<1>5. Holds(d)'
  <2>1. Holds(d)
    BY <1>1, <1>2 DEF Holds
  <2>2. BatchOf(d.src)' = BatchOf(d.src)
    BY <1>1 DEF BatchOf
  <2> QED
    BY <1>1, <2>1, <2>2 DEF Holds, Ready
<1>6. Settles /\ JobInv' /\ Queued
  BY <1>1, <1>2, <1>3, SameSettles, JobKept DEF LakeInv, Settles, Queued, RowsOK, Taken
<1>7. Left(d) = Left(e)
  BY <1>1, <1>2 DEF Left
<1>8. ~Past(c)' /\ ~At(c, "INGEST", "complete") /\ call'[c] = d
  BY <1>1, <1>2, <1>3 DEF Past, Goes, At
<1>9. BronzeInv'
  <2>1. \A r \in RunIds : Ready("INGEST", r)' => Ready("INGEST", r)
    BY <1>1 DEF Ready
  <2> QED
    BY <1>1, <1>2, <1>3, <1>6, <1>8, <2>1, BronzeKept DEF LakeInv, tables, aux, Settles, At
<1>10. LayerInv'
  <2>1. ~At(c, "SILVER", "complete")' /\ ~At(c, "GOLD", "complete")'
    BY <1>2, <1>8 DEF At
  <2>2. \A r \in RunIds, kind \in {"SILVER", "GOLD"} : Ready(kind, r)' => Ready(kind, r)
    BY <1>1 DEF Ready
  <2>3. (\A k \in d.rows : silver[k].run # None) /\ (\A k \in Keys : silver[k].run = d.src => k \in d.rows)
    BY <1>1, <1>2, Facts DEF Shape
  <2> QED
    BY <1>1, <1>3, <1>6, <2>1, <2>2, <2>3, LayerKept DEF LakeInv, tables, aux, Settles
<1>11. QueueInv'
  BY <1>1, <1>2, <1>3, <1>6, QueueKept, Facts DEF LakeInv, tables, aux
<1>12. /\ bronze' \subseteq RunIds /\ silver' \in [Keys -> TableRow] /\ gold' \in [Keys -> TableRow] /\ extra' = extra
       /\ disturbed' \in BOOLEAN /\ \A x \in Callers \ {c} : call[x].run # None => runs'[call[x].run] = runs[call[x].run]
  BY <1>1 DEF LakeInv, RowsOK, tables, aux
<1>13. Left(d) <= Left(call[c]) /\ (d.run # None => d.run = call[c].run)
  BY <1>2, <1>7, LeftType
<1> HIDE DEF LakeInv
<1> QED
  BY <1>3, <1>4, <1>5, <1>6, <1>9, <1>10, <1>11, <1>12, <1>13, StepKeeps

-----------------------------------------------------------------------------
(* Steps that write: Silver and Gold.                                      *)

LEMMA WriteSilverKeeps ==
    ASSUME LakeInv, NEW c \in Callers, WriteSilver(c)
    PROVE  LakeInv'
<1> PICK e : e = call[c]
  OBVIOUS
<1>1. /\ e.op = "SILVER" /\ e.pc = "write" /\ e \in CallType /\ Shape(e) /\ Holds(e) /\ e.op \in Kinds
      /\ UNCHANGED <<runs, bronze, gold, job, extra, aux>> /\ Goto(c, "complete")
  BY DEF WriteSilver, At, LakeInv, CallsOK, Kinds
<1>2. /\ e.run \in RunIds /\ runs[e.run].kind = "SILVER" /\ runs[e.run].of = e.src /\ runs[e.run].status = "RUNNING"
      /\ e.run # None /\ e.src \in RunIds /\ Ready("INGEST", e.src)
  BY <1>1, Facts DEF Shape, Holds, CallType
<1>3. PICK d \in CallType : /\ Goes(c, d) /\ d.pc = "complete" /\ d.op = e.op /\ d.job = e.job /\ d.by = e.by
                            /\ d.src = e.src /\ d.run = e.run /\ d.rows = e.rows
                            /\ Shape(d) /\ Holds(d)' /\ Queued /\ JobInv' /\ Settles
  <2>1. "complete" \in Points
    BY DEF Points
  <2> QED
    BY <1>1, <1>2, <2>1, SameShape
<1>4. Left(d) <= Left(e)
  <2>1. Left(d) = Left(e)
    BY <1>1, <1>3 DEF Left
  <2> QED
    BY <2>1, LeftType
<1>5. call'[c] = d /\ \A x \in Callers \ {c} : call'[x] = call[x] /\ \A op, p : At(x, op, p)' <=> At(x, op, p)
  BY <1>3 DEF Goes, At
<1> PICK b : b = BatchOf(e.src)
  OBVIOUS
<1>6. b \in Batches /\ BatchOf(e.run) = b /\ KeysOf[b] \subseteq Keys
  BY <1>2, BatchIs, Facts DEF Ready, Kinds, LakeInv
<1>7. silver' = [k \in Keys |-> IF k \in KeysOf[b] THEN [batch |-> b, run |-> e.run] ELSE silver[k]]
  <2>1. e.src \in bronze
    BY <1>2 DEF LakeInv, BronzeInv
  <2> QED
    BY <2>1 DEF WriteSilver
<1>8. /\ \A k \in KeysOf[b] : silver'[k].batch = b /\ silver'[k].run = e.run
      /\ \A k \in Keys \ KeysOf[b] : silver'[k] = silver[k]
  BY <1>6, <1>7
<1>9. silver' \in [Keys -> TableRow]
  BY <1>2, <1>6, <1>7 DEF LakeInv, RowsOK, TableRow
<1>10. \A r : BatchOf(r)' = BatchOf(r)
  BY <1>1 DEF BatchOf
<1>11. \A q \in RunIds : runs[q].kind \in Kinds /\ Written(q) => Written(q)'
  <2> SUFFICES ASSUME NEW q \in RunIds, runs[q].kind \in Kinds, Written(q), NEW k \in KeysOf[BatchOf(q)]
               PROVE  silver'[k].run # None
    BY <1>10 DEF Written
  <2>1. BatchOf(q) \in Batches /\ k \in Keys /\ silver[k].run # None
    BY BatchIs, Facts DEF LakeInv, Written
  <2> QED
    BY <1>2, <1>8, <2>1
<1>12. ASSUME NEW s \in RunIds, Ready("SILVER", s)
       PROVE  /\ \A k \in Keys : silver'[k].run = s => silver[k].run = s /\ silver'[k] = silver[k]
              /\ Caught(s) => Caught(s)'
  <2>1. s # e.run
    BY <1>2, <1>12 DEF Ready
  <2>2. \A k \in Keys : silver'[k].run = s => silver[k].run = s /\ silver'[k] = silver[k]
    BY <1>8, <2>1
  <2>3. gold' = gold /\ overtaken' = overtaken
    BY <1>1 DEF aux
  <2> QED
    BY <2>2, <2>3 DEF Caught, Shown
<1>13. LayersOK'
  <2> SUFFICES ASSUME NEW k \in Keys
               PROVE  /\ silver'[k].run = None => silver'[k].batch = 0 /\ gold[k].run = None
                      /\ silver'[k].run # None => runs[silver'[k].run].kind = "SILVER" /\ silver'[k].batch = BatchOf(silver'[k].run)
                      /\ gold[k].run = None => gold[k].batch = 0
                      /\ gold[k].run # None => runs[gold[k].run].kind = "GOLD"
    BY <1>1, <1>10 DEF LayersOK
  <2>1. CASE k \in KeysOf[b]
    BY <1>2, <1>6, <1>8, <2>1 DEF LakeInv, LayerInv, LayersOK
  <2>2. CASE k \notin KeysOf[b]
    BY <1>8, <2>2 DEF LakeInv, LayerInv, LayersOK
  <2> QED
    BY <2>1, <2>2
<1>14. LayerInv'
  <2>1. ASSUME NEW r \in RunIds
        PROVE  /\ Ready("SILVER", r)' => Written(runs[r].of)'
               /\ Ready("GOLD", r)' => Caught(runs[r].of)'
    <3>1. ASSUME Ready("SILVER", r)' PROVE Written(runs[r].of)'
      <4>1. Ready("SILVER", r) /\ runs' = runs
        BY <1>1, <3>1 DEF Ready
      <4>2. PICK q : q = runs[r].of
        OBVIOUS
      <4>3. q \in RunIds /\ runs[q].kind \in Kinds /\ Written(q)
        BY <4>1, <4>2 DEF LakeInv, LayerInv, RowsOK, Linked, Ready, Kinds
      <4>4. Written(q)'
        BY <1>11, <4>3
      <4> QED
        BY <4>1, <4>2, <4>4 DEF Written
    <3>2. ASSUME Ready("GOLD", r)' PROVE Caught(runs[r].of)'
      <4>1. Ready("GOLD", r) /\ runs' = runs
        BY <1>1, <3>2 DEF Ready
      <4>2. PICK q : q = runs[r].of
        OBVIOUS
      <4>3. q \in RunIds /\ Ready("SILVER", q) /\ Caught(q)
        BY <4>1, <4>2 DEF LakeInv, LayerInv, RowsOK, Linked, Ready
      <4>4. Caught(q)'
        BY <1>12, <4>3
      <4> QED
        BY <4>1, <4>2, <4>4 DEF Caught
    <3> QED
      BY <3>1, <3>2
  <2>2. ASSUME NEW x \in Callers
        PROVE  /\ At(x, "SILVER", "complete")' => Written(call[x].src)'
               /\ At(x, "GOLD", "write")' => /\ \A k \in call'[x].rows : silver'[k].run # None
                                            /\ \A k \in Keys : silver'[k].run = call'[x].src => k \in call'[x].rows
               /\ At(x, "GOLD", "complete")' => Caught(call[x].src)'
    <3>1. CASE x = c
      <4>1. ~At(x, "GOLD", "write")' /\ ~At(x, "GOLD", "complete")'
        BY <1>1, <1>3, <1>5, <3>1 DEF At
      <4>2. Written(e.src)'
        BY <1>2, <1>8, <1>10 DEF Written
      <4>3. call'[x].src = e.src
        BY <1>3, <1>5, <3>1
      <4> QED
        BY <4>1, <4>2, <4>3 DEF Written
    <3>2. CASE x # c
      <4> PICK g : g = call[x] /\ g = call'[x]
        BY <1>5, <3>2
      <4>1. g \in CallType /\ Shape(g) /\ Holds(g)
        BY DEF LakeInv, CallsOK
      <4>2. ASSUME At(x, "SILVER", "complete")' PROVE Written(g.src)'
        <5>1. At(x, "SILVER", "complete") /\ g.op = "SILVER" /\ g.pc = "complete"
          BY <1>5, <3>2, <4>2 DEF At
        <5>2. g.src \in RunIds /\ runs[g.src].kind \in Kinds /\ Written(g.src)
          BY <4>1, <5>1 DEF LakeInv, LayerInv, Shape, Holds, Ready, Kinds
        <5> QED
          BY <1>11, <5>2
      <4>3. ASSUME At(x, "GOLD", "write")'
            PROVE  /\ \A k \in g.rows : silver'[k].run # None
                   /\ \A k \in Keys : silver'[k].run = g.src => k \in g.rows
        <5>1. At(x, "GOLD", "write") /\ g.op = "GOLD" /\ g.pc = "write"
          BY <1>5, <3>2, <4>3 DEF At
        <5>2. g.src \in RunIds /\ Ready("SILVER", g.src) /\ g.rows \subseteq Keys
          BY <4>1, <5>1 DEF Shape, Holds, CallType
        <5>3. /\ \A k \in g.rows : silver[k].run # None
              /\ \A k \in Keys : silver[k].run = g.src => k \in g.rows
          BY <5>1 DEF LakeInv, LayerInv
        <5> QED
          BY <1>2, <1>8, <1>12, <5>2, <5>3
      <4>4. ASSUME At(x, "GOLD", "complete")' PROVE Caught(g.src)'
        <5>1. At(x, "GOLD", "complete") /\ g.op = "GOLD" /\ g.pc = "complete"
          BY <1>5, <3>2, <4>4 DEF At
        <5>2. g.src \in RunIds /\ Ready("SILVER", g.src) /\ Caught(g.src)
          BY <4>1, <5>1 DEF LakeInv, LayerInv, Shape, Holds
        <5> QED
          BY <1>12, <5>2
      <4> QED
        BY <4>2, <4>3, <4>4 DEF Written, Caught
    <3> QED
      BY <3>1, <3>2
  <2> QED
    BY <1>13, <2>1, <2>2 DEF LayerInv
<1>15. BronzeInv'
  <2>1. \A r \in RunIds : Ready("INGEST", r)' => Ready("INGEST", r)
    BY <1>1 DEF Ready
  <2>2. ~Past(c)' /\ ~At(c, "INGEST", "complete")' /\ ~At(c, "INGEST", "complete")
    BY <1>1, <1>3, <1>5 DEF Past, At
  <2> QED
    BY <1>1, <1>3, <2>1, <2>2, BronzeKept DEF LakeInv, aux, Settles
<1>16. QueueInv'
  <2>1. Taken' = Taken /\ disturbed' = disturbed /\ job' = job
    BY <1>1 DEF Taken, aux
  <2>2. \A x \in Callers : call'[x].op = call[x].op /\ call'[x].by = call[x].by /\ call'[x].job = call[x].job
    BY <1>3, <1>5
  <2>3. ASSUME ~disturbed PROVE b \in Taken
    <3>1. e.job # None
      BY <1>1, <2>3, Facts DEF LakeInv, QueueInv, Shape
    <3>2. b = e.job /\ job[b] = "RUNNING"
      BY <1>1, <3>1 DEF LakeInv, JobInv, Holds
    <3> QED
      BY <1>6, <3>2, Facts DEF Taken
  <2>4. ASSUME ~disturbed, NEW k \in Keys, silver'[k].run # None PROVE silver'[k].batch \in Taken
    <3>1. CASE k \in KeysOf[b]
      BY <1>8, <2>3, <2>4, <3>1
    <3>2. CASE k \notin KeysOf[b]
      BY <1>8, <2>4, <3>2 DEF LakeInv, QueueInv
    <3> QED
      BY <3>1, <3>2
  <2> QED
    BY <2>1, <2>2, <2>4 DEF LakeInv, QueueInv
<1>17. /\ bronze' \subseteq RunIds /\ gold' \in [Keys -> TableRow] /\ extra' = extra
       /\ disturbed' \in BOOLEAN /\ \A x \in Callers \ {c} : call[x].run # None => runs'[call[x].run] = runs[call[x].run]
  BY <1>1 DEF LakeInv, RowsOK, aux
<1> HIDE DEF LakeInv
<1> QED
  BY <1>3, <1>4, <1>9, <1>14, <1>15, <1>16, <1>17, StepKeeps

LEMMA WriteGoldKeeps ==
    ASSUME LakeInv, NEW c \in Callers, WriteGold(c)
    PROVE  LakeInv'
<1> PICK e : e = call[c]
  OBVIOUS
<1>1. /\ e.op = "GOLD" /\ e.pc = "write" /\ e \in CallType /\ Shape(e) /\ Holds(e) /\ e.op \in Kinds
      /\ UNCHANGED <<runs, bronze, silver, job, extra, interrupted, raced, orphaned, disturbed>> /\ Goto(c, "complete")
  BY DEF WriteGold, At, LakeInv, CallsOK, Kinds
<1>2. /\ e.run \in RunIds /\ runs[e.run].kind = "GOLD" /\ runs[e.run].of = e.src /\ e.run # None /\ e.rows \subseteq Keys
      /\ e.src \in RunIds /\ Ready("SILVER", e.src)
  BY <1>1, Facts DEF Shape, Holds, CallType
<1>3. PICK d \in CallType : /\ Goes(c, d) /\ d.pc = "complete" /\ d.op = e.op /\ d.job = e.job /\ d.by = e.by
                            /\ d.src = e.src /\ d.run = e.run /\ d.rows = e.rows
                            /\ Shape(d) /\ Holds(d)' /\ Queued /\ JobInv' /\ Settles
  <2>1. "complete" \in Points
    BY DEF Points
  <2> QED
    BY <1>1, <1>2, <2>1, SameShape
<1>4. Left(d) <= Left(e)
  <2>1. Left(d) = Left(e)
    BY <1>1, <1>3 DEF Left
  <2> QED
    BY <2>1, LeftType
<1>5. call'[c] = d /\ \A x \in Callers \ {c} : call'[x] = call[x] /\ \A op, p : At(x, op, p)' <=> At(x, op, p)
  BY <1>3 DEF Goes, At
<1> PICK b : b = BatchOf(e.src)
  OBVIOUS
<1>6. b \in Batches
  BY <1>2, BatchIs DEF Ready, Kinds, LakeInv
<1>7. /\ \A k \in e.rows : gold'[k].batch = b /\ gold'[k].run = e.run
      /\ \A k \in Keys \ e.rows : gold'[k] = gold[k]
      /\ gold' \in [Keys -> TableRow]
  <2>1. gold' = [k \in Keys |-> IF k \in e.rows THEN [batch |-> b, run |-> e.run] ELSE gold[k]]
    BY DEF WriteGold
  <2> QED
    BY <1>2, <1>6, <2>1 DEF LakeInv, RowsOK, TableRow
<1>8. /\ \A k \in e.rows : silver[k].run # None
      /\ \A k \in Keys : silver[k].run = e.src => k \in e.rows
  BY <1>1 DEF LakeInv, LayerInv, At
<1>9. ASSUME NEW k \in e.rows PROVE Shown(k)'
  <2>1. CASE silver[k].run # e.src
    <3>1. k \in overtaken'
      BY <2>1 DEF WriteGold
    <3> QED
      BY <1>2, <1>7, <3>1 DEF Shown
  <2>2. CASE silver[k].run = e.src
    <3>1. silver[k].batch = b
      BY <1>2, <1>8, <2>2 DEF LakeInv, LayerInv, LayersOK
    <3> QED
      BY <1>1, <1>2, <1>7, <3>1 DEF Shown
  <2> QED
    BY <2>1, <2>2
<1>10. ASSUME NEW k \in Keys, Shown(k) PROVE Shown(k)'
  <2>1. CASE k \notin e.rows
    <3>1. k \in overtaken => k \in overtaken'
      BY <2>1 DEF WriteGold
    <3> QED
      BY <1>1, <1>7, <1>10, <2>1, <3>1 DEF Shown
  <2> QED
    BY <1>9, <2>1
<1>11. \A s : Caught(s) => Caught(s)'
  BY <1>1, <1>10 DEF Caught
<1>12. Caught(e.src)'
  BY <1>1, <1>8, <1>9 DEF Caught
<1>13. \A r : BatchOf(r)' = BatchOf(r)
  BY <1>1 DEF BatchOf
<1>14. LayersOK'
  <2> SUFFICES ASSUME NEW k \in Keys
               PROVE  /\ silver[k].run = None => silver[k].batch = 0 /\ gold'[k].run = None
                      /\ silver[k].run # None => runs[silver[k].run].kind = "SILVER" /\ silver[k].batch = BatchOf(silver[k].run)
                      /\ gold'[k].run = None => gold'[k].batch = 0
                      /\ gold'[k].run # None => runs[gold'[k].run].kind = "GOLD"
    BY <1>1, <1>13 DEF LayersOK
  <2>1. CASE k \in e.rows
    BY <1>2, <1>7, <1>8, <2>1 DEF LakeInv, LayerInv, LayersOK
  <2>2. CASE k \notin e.rows
    BY <1>7, <2>2 DEF LakeInv, LayerInv, LayersOK
  <2> QED
    BY <2>1, <2>2
<1>15. LayerInv'
  <2>0. runs' = runs /\ silver' = silver /\ \A q : Written(q)' <=> Written(q)
    BY <1>1, <1>13 DEF Written
  <2>1. ASSUME NEW r \in RunIds
        PROVE  /\ Ready("SILVER", r)' => Written(runs[r].of)'
               /\ Ready("GOLD", r)' => Caught(runs[r].of)'
    <3>1. PICK q : q = runs[r].of /\ q = runs'[r].of
      BY <2>0
    <3>2. /\ Ready("SILVER", r)' => Written(q)'
          /\ Ready("GOLD", r)' => Caught(q)'
      BY <1>11, <2>0, <3>1 DEF LakeInv, LayerInv, Ready
    <3> QED
      BY <3>1, <3>2 DEF Written, Caught
  <2>2. ASSUME NEW x \in Callers
        PROVE  /\ At(x, "SILVER", "complete")' => Written(call[x].src)'
               /\ At(x, "GOLD", "write")' => /\ \A k \in call'[x].rows : silver'[k].run # None
                                            /\ \A k \in Keys : silver'[k].run = call'[x].src => k \in call'[x].rows
               /\ At(x, "GOLD", "complete")' => Caught(call[x].src)'
    <3>1. CASE x = c
      <4>1. ~At(x, "GOLD", "write")' /\ ~At(x, "SILVER", "complete")'
        BY <1>1, <1>3, <1>5, <3>1 DEF At
      <4>2. call'[x].src = e.src
        BY <1>3, <1>5, <3>1
      <4> QED
        BY <1>12, <4>1, <4>2 DEF Caught
    <3>2. CASE x # c
      <4> PICK g : g = call[x] /\ g = call'[x]
        BY <1>5, <3>2
      <4>1. /\ At(x, "SILVER", "complete") => Written(g.src)
            /\ At(x, "GOLD", "write") => /\ \A k \in g.rows : silver[k].run # None
                                        /\ \A k \in Keys : silver[k].run = g.src => k \in g.rows
            /\ At(x, "GOLD", "complete") => Caught(g.src)
        BY DEF LakeInv, LayerInv
      <4>2. \A op, p : At(x, op, p)' <=> At(x, op, p)
        BY <1>5, <3>2
      <4>3. (Written(g.src) => Written(g.src)') /\ (Caught(g.src) => Caught(g.src)')
        BY <1>11, <2>0
      <4> QED
        BY <2>0, <4>1, <4>2, <4>3 DEF Written, Caught
    <3> QED
      BY <3>1, <3>2
  <2> QED
    BY <1>14, <2>1, <2>2 DEF LayerInv
<1>16. BronzeInv'
  <2>1. \A r \in RunIds : Ready("INGEST", r)' => Ready("INGEST", r)
    BY <1>1 DEF Ready
  <2>2. ~Past(c)' /\ ~At(c, "INGEST", "complete")' /\ ~At(c, "INGEST", "complete")
    BY <1>1, <1>3, <1>5 DEF Past, At
  <2> QED
    BY <1>1, <1>3, <2>1, <2>2, BronzeKept DEF LakeInv, Settles
<1>17. QueueInv'
  BY <1>1, <1>3, QueueKept DEF LakeInv
<1>18. /\ bronze' \subseteq RunIds /\ silver' \in [Keys -> TableRow] /\ extra' = extra
       /\ disturbed' \in BOOLEAN /\ \A x \in Callers \ {c} : call[x].run # None => runs'[call[x].run] = runs[call[x].run]
  BY <1>1 DEF LakeInv, RowsOK
<1> HIDE DEF LakeInv
<1> QED
  BY <1>3, <1>4, <1>7, <1>15, <1>16, <1>17, <1>18, StepKeeps

-----------------------------------------------------------------------------
(* Steps that create a run or complete one.                                *)

LEMMA CreateKeeps ==
    ASSUME LakeInv, NEW c \in Callers, call[c].op \in Kinds, call[c].pc = "create", Create(c, call[c].op)
    PROVE  LakeInv'
<1> PICK e : e = call[c]
  OBVIOUS
<1> PICK n : n = NewRun
  OBVIOUS
<1> PICK p \in Points : p = IF e.op = "GOLD" THEN "read" ELSE "write"
  BY DEF Points
<1> PICK d : d = [e EXCEPT !.pc = p, !.run = n]
  OBVIOUS
<1>1. /\ e.op \in Kinds /\ e.pc = "create" /\ e \in CallType /\ Shape(e) /\ Holds(e) /\ e.op # None
      /\ UNCHANGED <<bronze, silver, gold, job, extra, aux>>
      /\ runs' = [runs EXCEPT ![n] = [kind |-> e.op, of |-> e.src, status |-> "RUNNING"]]
      /\ call' = [call EXCEPT ![c] = d]
  <2>1. call' = [call EXCEPT ![c] = d]
    BY DEF Create
  <2> QED
    BY <2>1, Facts DEF Create, LakeInv, CallsOK
<1>2. Left(e) # 0
  BY <1>1 DEF Left, Kinds
<1>3. n \in RunIds /\ n \notin Used /\ runs[n].kind = None
  <2>1. n \in RunIds /\ n \notin Used
    BY <1>2, RoomForARun DEF LakeInv
  <2> QED
    BY <2>1 DEF Used
<1>4. e.src \in Batches \cup RunIds
  BY <1>1 DEF Shape, Kinds
<1>5. /\ runs'[n] = [kind |-> e.op, of |-> e.src, status |-> "RUNNING"]
      /\ \A r \in RunIds \ {n} : runs'[r] = runs[r]
      /\ runs' \in [RunIds -> RunRow]
  BY <1>1, <1>3, <1>4 DEF LakeInv, RowsOK, RunRow, Kinds
<1>6. Grown
  BY <1>3, <1>5 DEF Grown
<1>7. \A r \in RunIds, kind \in Kinds : Ready(kind, r)' => Ready(kind, r)
  BY <1>5 DEF Ready
<1>8. /\ d \in CallType /\ d.op = e.op /\ d.job = e.job /\ d.by = e.by /\ d.src = e.src /\ d.run = n
      /\ d.pc = IF e.op = "GOLD" THEN "read" ELSE "write"
  <2>1. /\ d \in CallType /\ d.op = e.op /\ d.job = e.job /\ d.by = e.by /\ d.src = e.src /\ d.run = n /\ d.pc = p
    BY <1>1, <1>3 DEF CallType
  <2> QED
    BY <2>1
<1>9. Goes(c, d) /\ call'[c] = d
  BY <1>1, <1>8, Turns DEF LakeInv, Goes
<1>10. Shape(d)
  BY <1>1, <1>3, <1>8, Facts DEF Shape, Kinds
<1>11. /\ e.op = "SILVER" => e.src \in RunIds /\ Ready("INGEST", e.src) /\ Ready("INGEST", e.src)'
       /\ e.op = "GOLD" => e.src \in RunIds /\ Ready("SILVER", e.src) /\ Ready("SILVER", e.src)'
  <2>1. ASSUME e.op = "SILVER" PROVE e.src \in RunIds /\ Ready("INGEST", e.src) /\ Ready("INGEST", e.src)'
    <3>1. e.src \in RunIds /\ Ready("INGEST", e.src)
      BY <1>1, <2>1 DEF Shape, Holds
    <3> QED
      BY <1>6, <3>1, ReadyStays DEF Kinds
  <2>2. ASSUME e.op = "GOLD" PROVE e.src \in RunIds /\ Ready("SILVER", e.src) /\ Ready("SILVER", e.src)'
    <3>1. e.src \in RunIds /\ Ready("SILVER", e.src)
      BY <1>1, <2>2 DEF Shape, Holds
    <3> QED
      BY <1>6, <3>1, ReadyStays DEF Kinds
  <2> QED
    BY <2>1, <2>2
<1>12. Holds(d)'
  <2>1. e.op \in {"SILVER", "GOLD"} => BatchOf(e.src)' = BatchOf(e.src)
    BY <1>6, <1>11, BatchStays DEF LakeInv, Ready, Kinds
  <2>2. runs'[d.run].kind = d.op /\ runs'[d.run].of = d.src /\ runs'[d.run].status = "RUNNING"
    BY <1>5, <1>8
  <2>3. d.op # "PUBLISH"
    BY <1>1, <1>8 DEF Kinds
  <2>4. d.op \in {"SILVER", "GOLD", "PUBLISH"} /\ d.job # None => BatchOf(d.src)' = d.job
    BY <1>1, <1>8, <2>1, <2>3 DEF Holds
  <2> QED
    BY <1>8, <1>11, <2>2, <2>3, <2>4 DEF Holds
<1>13. \A x \in Callers \ {c} : call[x].run # None => call[x].run # n /\ runs'[call[x].run] = runs[call[x].run]
  <2> SUFFICES ASSUME NEW x \in Callers, call[x].run # None PROVE call[x].run # n /\ runs'[call[x].run] = runs[call[x].run]
    OBVIOUS
  <2>1. call[x].run \in RunIds /\ runs[call[x].run].kind = call[x].op /\ call[x].op # None
    BY Facts DEF LakeInv, CallsOK, CallType, Holds, Shape
  <2>2. call[x].run # n
    BY <1>3, <2>1
  <2> QED
    BY <1>5, <2>1, <2>2
<1>14. Used' = Used \cup {n}
  <2>1. RunIds' = RunIds /\ e.op # None
    BY <1>1 DEF RunIds, MaxRuns
  <2> QED
    BY <1>3, <1>5, <2>1 DEF Used
<1>15. RowsOK'
  <2>1. Linked(n)'
    BY <1>1, <1>4, <1>5, <1>11, Facts DEF Linked, Ready, Shape
  <2>2. ASSUME NEW r \in RunIds \ {n} PROVE Linked(r)'
    <3>1. CASE runs[r].kind = None
      BY <1>5, <3>1, Facts DEF Linked, Kinds
    <3>2. CASE runs[r].kind # None
      BY <1>6, <3>2, LinkedStays DEF LakeInv
    <3> QED
      BY <3>1, <3>2
  <2>3. \A r \in RunIds : Linked(r)'
    BY <2>1, <2>2
  <2> QED
    BY <1>1, <1>5, <2>3 DEF LakeInv, RowsOK, RunRow, TableRow, RunIds, MaxRuns, JobStates, aux
<1>16. CallsOK'
  BY <1>6, <1>8, <1>9, <1>10, <1>12, <1>13, CallsKept DEF LakeInv
<1>17. JobInv'
  BY <1>1, <1>6, <1>8, <1>9, JobKept DEF LakeInv
<1>18. CountInv'
  <2>1. Left(d) < Left(e)
    <3>1. CASE e.op = "INGEST"
      <4>1. Left(e) = (IF e.job = None THEN 1 ELSE 3) /\ Left(d) = (IF e.job = None THEN 0 ELSE 2)
        BY <1>1, <1>8, <3>1 DEF Left
      <4> QED
        BY <4>1
    <3>2. CASE e.op = "SILVER"
      <4>1. Left(e) = (IF e.job = None THEN 1 ELSE 2) /\ Left(d) = (IF e.job = None THEN 0 ELSE 1)
        BY <1>1, <1>8, <3>2 DEF Left
      <4> QED
        BY <4>1
    <3>3. CASE e.op = "GOLD"
      <4>1. Left(e) = 1 /\ Left(d) = 0
        BY <1>1, <1>8, <3>3 DEF Left
      <4> QED
        BY <4>1
    <3> QED
      BY <1>1, <3>1, <3>2, <3>3 DEF Kinds
  <2>2. Taken' = Taken /\ extra' = extra /\ \A x \in Callers \ {c} : call'[x] = call[x]
    BY <1>1, <1>9 DEF Taken, Goes
  <2>3. Left(call'[c]) < Left(call[c])
    BY <1>9, <2>1
  <2> QED
    BY <1>14, <2>2, <2>3, CountCreates DEF LakeInv
<1>19. BronzeInv'
  <2>1. ~At(c, "INGEST", "complete")' /\ ~At(c, "INGEST", "complete")
    BY <1>1, <1>8, <1>9 DEF At
  <2>2. Past(c)' => Past(c) /\ d.src = call[c].src
    BY <1>1, <1>8, <1>9 DEF Past
  <2>3. bronze' = bronze /\ interrupted \subseteq interrupted' /\ raced \subseteq raced'
    BY <1>1 DEF aux
  <2> QED
    BY <1>6, <1>7, <1>9, <2>1, <2>2, <2>3, BronzeKept DEF LakeInv, Kinds
<1>20. LayerInv'
  <2>1. ~At(c, "SILVER", "complete")' /\ ~At(c, "GOLD", "complete")' /\ ~At(c, "GOLD", "write")'
    BY <1>8, <1>9 DEF At
  <2>2. silver' = silver /\ gold' = gold /\ overtaken' = overtaken
    BY <1>1 DEF aux
  <2> QED
    BY <1>6, <1>7, <1>9, <2>1, <2>2, LayerKept DEF LakeInv, Kinds
<1>21. QueueInv'
  <2>1. Queued /\ disturbed' = disturbed
    BY <1>1 DEF LakeInv, Queued, RowsOK, Taken, aux
  <2> QED
    BY <1>1, <1>8, <1>9, <2>1, QueueKept DEF LakeInv
<1> QED
  BY <1>15, <1>16, <1>17, <1>18, <1>19, <1>20, <1>21 DEF LakeInv

LEMMA CompleteKeeps ==
    ASSUME LakeInv, NEW c \in Callers, Complete(c)
    PROVE  LakeInv'
<1> PICK e : e = call[c]
  OBVIOUS
<1> PICK n : n = e.run
  OBVIOUS
<1>1. /\ e.pc = "complete" /\ e \in CallType /\ Shape(e) /\ Holds(e)
      /\ runs' = [runs EXCEPT ![n].status = "COMPLETED"] /\ Answer(c, n)
      /\ UNCHANGED <<bronze, silver, gold, job, extra, aux>>
  BY DEF Complete, LakeInv, CallsOK
<1>2. n # None /\ n \in RunIds /\ runs[n].kind = e.op /\ runs[n].of = e.src /\ runs[n].status = "RUNNING" /\ e.op \in Kinds /\ e.op # None
  <2>1. e.op # None /\ e.op # "PUBLISH" /\ n # None
    BY <1>1 DEF Shape
  <2> QED
    BY <1>1, <2>1 DEF Shape, Holds, CallType, Ops
<1>3. /\ runs' \in [RunIds -> RunRow] /\ runs'[n].kind = e.op /\ runs'[n].of = e.src /\ runs'[n].status = "COMPLETED"
      /\ \A r \in RunIds \ {n} : runs'[r] = runs[r]
  BY <1>1, <1>2 DEF LakeInv, RowsOK, RunRow
<1>4. Grown
  BY <1>2, <1>3 DEF Grown
<1>5. PICK d \in CallType : /\ Goes(c, d) /\ Shape(d) /\ Holds(d)' /\ Left(d) <= Left(e) /\ d.run = None
                            /\ d.pc \notin {"create", "read", "write", "complete"} /\ d.job \in {None, e.job}
                            /\ (d.op # None => e.op # None /\ d.by = e.by /\ d.job = e.job)
  <2>1. CASE e.job = None
    <3>1. Goes(c, Idle)
      BY <1>1, <2>1, EndsGoes DEF LakeInv, Answer
    <3>2. Holds(Idle)'
      BY IdleCall, Facts DEF Holds, Ops, Kinds
    <3> QED
      BY <3>1, <3>2, IdleCall, LeftType
  <2>2. CASE e.job # None
    <3>1. PICK d \in CallType : /\ Goes(c, d) /\ d.pc = "check" /\ d.op = NextOp[e.op] /\ d.job = e.job
                                /\ d.by = e.by /\ d.src = n /\ d.run = None
      BY <1>1, <1>2, <2>2, AnswerGoes DEF LakeInv
    <3>2. Shape(d) /\ Holds(d)' /\ Left(d) <= Left(e)
      BY <1>1, <1>2, <1>3, <1>4, <2>2, <3>1, NextCall DEF LakeInv
    <3> QED
      BY <1>2, <3>1, <3>2
  <2> QED
    BY <2>1, <2>2
<1>6. call'[c] = d /\ ~Past(c)' /\ \A op : ~At(c, op, "complete")' /\ ~At(c, op, "write")'
  BY <1>5 DEF Goes, Past, At
<1>7. \A x \in Callers \ {c} : call[x].run # None => runs'[call[x].run] = runs[call[x].run]
  BY <1>2, <1>3, OthersRuns DEF LakeInv, CallsOK, CallType
<1>8. \A r \in RunIds, kind \in Kinds : Ready(kind, r)' => Ready(kind, r) \/ (r = n /\ At(c, kind, "complete"))
  BY <1>1, <1>3 DEF Ready, At
<1>9. RowsOK' /\ Used' = Used
  <2>1. ASSUME NEW r \in RunIds PROVE Linked(r)'
    <3>1. CASE runs[r].kind = None
      BY <1>2, <1>3, <3>1, Facts DEF Linked, Kinds
    <3>2. CASE runs[r].kind # None
      BY <1>4, <3>2, LinkedStays DEF LakeInv
    <3> QED
      BY <3>1, <3>2
  <2>2. Used' = Used
    <3>1. RunIds' = RunIds /\ \A r \in RunIds : runs'[r].kind = runs[r].kind
      BY <1>2, <1>3 DEF RunIds, MaxRuns
    <3> QED
      BY <3>1 DEF Used
  <2> QED
    BY <1>1, <1>3, <2>1, <2>2 DEF LakeInv, RowsOK, RunRow, TableRow, RunIds, MaxRuns, JobStates, aux
<1>10. CallsOK'
  BY <1>4, <1>5, <1>7, CallsKept DEF LakeInv
<1>11. JobInv'
  BY <1>1, <1>4, <1>5, JobKept DEF LakeInv
<1>12. CountInv'
  <2>1. Taken' = Taken /\ extra' = extra
    BY <1>1 DEF Taken
  <2>2. \A x \in Callers : Left(call'[x]) <= Left(call[x])
    BY <1>5, LeftType DEF Goes
  <2> QED
    BY <1>9, <2>1, <2>2, CountKept DEF LakeInv
<1>13. BronzeInv'
  <2>1. bronze' = bronze /\ interrupted \subseteq interrupted' /\ raced \subseteq raced'
    BY <1>1 DEF aux
  <2> QED
    BY <1>3, <1>4, <1>5, <1>6, <1>8, <2>1, BronzeKept DEF LakeInv, Kinds
<1>14. LayerInv'
  <2>1. silver' = silver /\ gold' = gold /\ overtaken' = overtaken
    BY <1>1 DEF aux
  <2> QED
    BY <1>4, <1>5, <1>6, <1>8, <2>1, LayerKept DEF LakeInv, Kinds
<1>15. QueueInv'
  <2>1. Queued /\ disturbed' = disturbed
    BY <1>1 DEF LakeInv, Queued, RowsOK, Taken, aux
  <2> QED
    BY <1>1, <1>5, <2>1, QueueKept DEF LakeInv
<1> QED
  BY <1>9, <1>10, <1>11, <1>12, <1>13, <1>14, <1>15 DEF LakeInv

\* Every step of a request.
LEMMA StepOfARequest ==
    ASSUME LakeInv, NEW c \in Callers, Step(c)
    PROVE  LakeInv'
<1>1. ASSUME CreateIngestion(c) PROVE LakeInv'
  BY <1>1, CreateKeeps DEF CreateIngestion, At, Kinds
<1>2. ASSUME CreatePipelineRun(c) PROVE LakeInv'
  BY <1>2, CreateKeeps DEF CreatePipelineRun, Kinds
<1> QED
  BY <1>1, <1>2, CheckIngestionKeeps, WriteBronzeKeeps, CheckPipelineKeeps, WriteSilverKeeps,
     ReadSilverKeeps,
     WriteGoldKeeps, CompleteKeeps, PublishKeeps DEF Step, Ingestion, BronzeToSilver, SilverToGold

-----------------------------------------------------------------------------
(* Requests that begin.                                                    *)

LEMMA BeginKeeps ==
    ASSUME LakeInv, NEW c \in Callers, call[c] = Idle, NEW d \in CallType, call' = [call EXCEPT ![c] = d],
           d.op \in Kinds, d.pc = "check", d.run = None, Shape(d), d.op # "INGEST" => d.job = None,
           UNCHANGED <<tables, interrupted, raced, overtaken>>, extra' \in 0..MaxExtra, disturbed' \in BOOLEAN,
           job' \in [Batches -> JobStates],
           Cardinality(Taken) + extra + 1 <= Cardinality(Taken') + extra',
           JobInv', QueueInv'
    PROVE  LakeInv'
<1>1. Goes(c, d) /\ call'[c] = d
  BY Turns DEF LakeInv, Goes
<1>2. runs' = runs /\ bronze' = bronze /\ silver' = silver /\ gold' = gold /\ Grown /\ Settles
  BY SameSettles DEF tables, LakeInv, Settles
<1>3. Used' = Used /\ RowsOK'
  BY <1>2, SettledRows DEF LakeInv, RowsOK, RunRow, TableRow, RunIds, MaxRuns, JobStates
<1>4. Holds(d)'
  BY Facts DEF Holds, Kinds
<1>5. CallsOK'
  BY <1>1, <1>2, <1>4, CallsKept DEF LakeInv
<1>6. CountInv'
  <2>1. extra' \in Nat /\ \A x \in Callers \ {c} : call'[x] = call[x]
    BY <1>1, Facts DEF Goes
  <2> QED
    BY <1>3, <2>1, CountBegins DEF LakeInv
<1>7. ~Past(c)' /\ (\A op : ~At(c, op, "complete")' /\ ~At(c, op, "write")') /\ ~At(c, "INGEST", "complete")
  BY <1>1, IdleCall DEF Past, At
<1>8. \A r \in RunIds, kind \in Kinds : Ready(kind, r)' => Ready(kind, r)
  BY <1>2 DEF Ready
<1>9. BronzeInv'
  BY <1>1, <1>2, <1>7, <1>8, BronzeKept DEF LakeInv, Kinds
<1>10. LayerInv'
  BY <1>1, <1>2, <1>7, <1>8, LayerKept DEF LakeInv, Kinds
<1> QED
  BY <1>3, <1>5, <1>6, <1>9, <1>10 DEF LakeInv

\* A job that nobody runs is taken up.
LEMMA JobTaken ==
    ASSUME LakeInv, NEW c \in Callers, NEW d, Goes(c, d), NEW b \in Batches, d.job = b, job[b] # "RUNNING",
           job' = [job EXCEPT ![b] = "RUNNING"], runs' = runs
    PROVE  JobInv' /\ job' \in [Batches -> JobStates] /\ Taken' = Taken \cup {b}
<1>1. /\ job' \in [Batches -> JobStates] /\ job'[b] = "RUNNING" /\ \A a \in Batches \ {b} : job'[a] = job[a]
  BY DEF LakeInv, RowsOK, JobStates
<1>2. Taken' = Taken \cup {b}
  BY <1>1, Facts DEF Taken
<1>3. call'[c] = d /\ \A x \in Callers \ {c} : call'[x] = call[x] /\ (call[x].job # None => call[x].job # b /\ call[x].job \in Batches)
  BY DEF Goes, LakeInv, JobInv, CallsOK, CallType
<1>4. \A x \in Callers : call'[x].job # None => job'[call'[x].job] = "RUNNING"
  BY <1>1, <1>3 DEF LakeInv, JobInv
<1>5. OneWorkerPerJob'
  BY <1>3 DEF LakeInv, JobInv, OneWorkerPerJob
<1>6. SucceededJobHasItsChain'
  <2> SUFFICES ASSUME NEW a \in Batches, job'[a] = "SUCCEEDED"
               PROVE  \E g \in Used' : runs'[g].kind = "GOLD" /\ runs'[g].status = "COMPLETED" /\ BatchOf(g)' = a
    BY DEF SucceededJobHasItsChain
  <2>1. job[a] = "SUCCEEDED"
    BY <1>1
  <2>2. PICK g \in Used : runs[g].kind = "GOLD" /\ runs[g].status = "COMPLETED" /\ BatchOf(g) = a
    BY <2>1 DEF LakeInv, JobInv, SucceededJobHasItsChain
  <2>3. Used' = Used /\ BatchOf(g)' = BatchOf(g)
    BY DEF Used, RunIds, MaxRuns, BatchOf
  <2> QED
    BY <2>2, <2>3
<1> QED
  BY <1>1, <1>2, <1>4, <1>5, <1>6 DEF JobInv

LEMMA ClaimKeeps ==
    ASSUME LakeInv, NEW c \in Callers, Claim(c)
    PROVE  LakeInv'
<1> PICK b : b = NextPending
  OBVIOUS
<1>1. b \in Batches /\ job[b] = "PENDING" /\ \A a \in Batches : job[a] = "PENDING" => b <= a
  BY NextPendingIsOne DEF Claim
<1> PICK d : d = JobCall(b, "loop")
  OBVIOUS
<1>2. d \in CallType /\ d.op = "INGEST" /\ d.pc = "check" /\ d.job = b /\ d.by = "loop" /\ d.src = b /\ d.run = None /\ Shape(d)
  BY <1>1, BeginJob
<1>3. /\ call[c] = Idle /\ call' = [call EXCEPT ![c] = d] /\ job' = [job EXCEPT ![b] = "RUNNING"]
      /\ UNCHANGED <<tables, extra, interrupted, raced, orphaned, overtaken>>
      /\ disturbed' = (disturbed \/ \E x \in Callers : call[x] # Idle)
  BY <1>1, Facts DEF Claim, Free, Runs, SetJob, JobCall
<1>4. Goes(c, d)
  BY <1>2, <1>3, Turns DEF LakeInv
<1>6. JobInv' /\ job' \in [Batches -> JobStates] /\ Taken' = Taken \cup {b} /\ b \notin Taken
  <2>1. runs' = runs /\ job[b] # "RUNNING" /\ b \notin Taken
    BY <1>1, <1>3 DEF tables, Taken
  <2> QED
    BY <1>1, <1>2, <1>3, <1>4, <2>1, JobTaken
<1>7. Cardinality(Taken) + extra + 1 <= Cardinality(Taken') + extra'
  <2>1. Cardinality(Taken') = Cardinality(Taken) + 1 /\ Cardinality(Taken) \in Nat
    BY <1>6, TakenType, FS_AddElement
  <2> QED
    BY <1>3, <2>1 DEF LakeInv, RowsOK
<1>8. QueueInv'
  <2>1. \A a \in Batches : job'[a] = None <=> job[a] = None
    BY <1>1, <1>3, Facts DEF LakeInv, RowsOK
  <2>2. \A a, q \in Batches : job'[q] # None /\ a < q => job'[a] # None
    BY <2>1 DEF LakeInv, QueueInv
  <2>3. ASSUME ~disturbed' PROVE ~disturbed /\ \A x \in Callers \ {c} : call'[x].op = None
    <3>1. \A x \in Callers \ {c} : call'[x] = Idle
      BY <1>3, <1>4, <2>3 DEF Goes
    <3> QED
      BY <1>3, <2>3, <3>1, IdleCall
  <2>4. ASSUME ~disturbed'
        PROVE  /\ \A a \in Taken' : a <= b
               /\ \A a \in Taken', q \in Batches \ Taken' : a < q
    <3>1. \A a \in Taken, q \in Batches \ Taken : a < q
      BY <2>3, <2>4 DEF LakeInv, QueueInv
    <3>2. ASSUME NEW q \in Batches \ Taken, q # b PROVE b < q
      <4>1. CASE job[q] = "PENDING"
        BY <1>1, <3>2, <4>1, Facts
      <4>2. CASE job[q] = None
        <5>1. ~(q < b)
          BY <1>1, <4>2, Facts DEF LakeInv, QueueInv
        <5> QED
          BY <1>1, <3>2, <5>1, Facts
      <4> QED
        BY <4>1, <4>2 DEF Taken
    <3>3. \A a \in Taken : a \in Nat /\ a < b
      BY <1>1, <1>6, <3>1, Facts DEF Taken
    <3> QED
      BY <1>1, <1>6, <3>1, <3>2, <3>3, Facts
  <2>5. ASSUME ~disturbed', NEW k \in Keys, silver'[k].run # None PROVE silver'[k].batch \in Taken'
    BY <1>3, <1>6, <2>3, <2>5 DEF LakeInv, QueueInv, tables
  <2>6. ASSUME ~disturbed', NEW x \in Callers, call'[x].op # None PROVE x = c /\ call'[x].by = "loop" /\ call'[x].job = b
    BY <1>2, <1>4, <2>3, <2>6 DEF Goes
  <2> QED
    BY <2>2, <2>4, <2>5, <2>6 DEF QueueInv
<1>9. d.op \in Kinds /\ extra' \in 0..MaxExtra /\ disturbed' \in BOOLEAN
  BY <1>2, <1>3 DEF Kinds, LakeInv, RowsOK
<1> HIDE DEF LakeInv
<1> QED
  BY <1>2, <1>3, <1>6, <1>7, <1>8, <1>9, BeginKeeps

\* What an administrator starts is paid for by extra.
LEMMA ExtraPays ==
    ASSUME LakeInv, extra < MaxExtra, extra' = extra + 1, Taken \subseteq Taken'
    PROVE  extra' \in 0..MaxExtra /\ Cardinality(Taken) + extra + 1 <= Cardinality(Taken') + extra'
<1>1. IsFiniteSet(Taken')
  BY BatchesHaveKeys, FS_Subset DEF Taken
<1>2. Cardinality(Taken) <= Cardinality(Taken') /\ Cardinality(Taken) \in Nat /\ Cardinality(Taken') \in Nat
  BY <1>1, FS_Subset, FS_CardinalityType, TakenType
<1> QED
  BY <1>2, Facts DEF LakeInv, RowsOK

LEMMA RunNowKeeps ==
    ASSUME LakeInv, NEW c \in Callers, NEW b \in Batches, RunNow(c, b)
    PROVE  LakeInv'
<1> PICK d : d = JobCall(b, "admin")
  OBVIOUS
<1>1. d \in CallType /\ d.op = "INGEST" /\ d.pc = "check" /\ d.job = b /\ d.by = "admin" /\ d.src = b /\ d.run = None /\ Shape(d)
  BY BeginJob
<1>2. /\ call[c] = Idle /\ call' = [call EXCEPT ![c] = d] /\ job' = [job EXCEPT ![b] = "RUNNING"]
      /\ UNCHANGED <<tables, interrupted, raced, orphaned, overtaken>> /\ disturbed' = TRUE
      /\ extra < MaxExtra /\ extra' = extra + 1 /\ job[b] \in {"PENDING", "FAILED", "SUCCEEDED"}
  BY Facts DEF RunNow, Free, Runs, SetJob, Claimable, JobCall
<1>3. Goes(c, d)
  BY <1>1, <1>2, Turns DEF LakeInv
<1>5. JobInv' /\ job' \in [Batches -> JobStates] /\ Taken' = Taken \cup {b}
  <2>1. runs' = runs /\ job[b] # "RUNNING"
    BY <1>2 DEF tables
  <2> QED
    BY <1>1, <1>2, <1>3, <2>1, JobTaken
<1>6. QueueInv'
  <2>1. \A a \in Batches : job'[a] = None <=> job[a] = None
    BY <1>2, Facts DEF LakeInv, RowsOK
  <2> QED
    BY <1>2, <2>1, QueueDisturbed DEF LakeInv
<1>7. extra' \in 0..MaxExtra /\ Cardinality(Taken) + extra + 1 <= Cardinality(Taken') + extra'
  BY <1>2, <1>5, ExtraPays
<1>8. d.op \in Kinds /\ disturbed' \in BOOLEAN
  BY <1>1, <1>2 DEF Kinds
<1> HIDE DEF LakeInv
<1> QED
  BY <1>1, <1>2, <1>5, <1>6, <1>7, <1>8, BeginKeeps

LEMMA TriggerKeeps ==
    ASSUME LakeInv, NEW c \in Callers, NEW op \in Kinds, NEW src, op = "INGEST" => src \in Batches,
           op # "INGEST" => src \in RunIds, NEW force \in BOOLEAN, Trigger(c, op, src, force)
    PROVE  LakeInv'
<1> PICK d : d = DirectCall(op, src, force)
  OBVIOUS
<1>1. d \in CallType /\ d.op = op /\ d.pc = "check" /\ d.job = None /\ d.by = None /\ d.src = src /\ d.run = None /\ Shape(d)
  BY BeginRequest
<1>2. /\ call[c] = Idle /\ call' = [call EXCEPT ![c] = d] /\ job' = job
      /\ UNCHANGED <<tables, interrupted, raced, orphaned, overtaken>> /\ disturbed' = TRUE
      /\ extra < MaxExtra /\ extra' = extra + 1
  BY DEF Trigger, Free, DirectCall
<1>3. Goes(c, d)
  BY <1>1, <1>2, Turns DEF LakeInv
<1>5. JobInv' /\ job' \in [Batches -> JobStates] /\ Taken' = Taken
  <2>1. Grown
    BY <1>2, SameSettles DEF tables, LakeInv, Settles
  <2> QED
    BY <1>1, <1>2, <1>3, <2>1, JobKept DEF LakeInv, RowsOK, Taken
<1>6. QueueInv'
  BY <1>2, QueueDisturbed DEF LakeInv
<1>7. extra' \in 0..MaxExtra /\ Cardinality(Taken) + extra + 1 <= Cardinality(Taken') + extra'
  BY <1>2, <1>5, ExtraPays
<1>8. disturbed' \in BOOLEAN
  BY <1>2
<1> HIDE DEF LakeInv
<1> QED
  BY <1>1, <1>2, <1>5, <1>6, <1>7, <1>8, BeginKeeps

-----------------------------------------------------------------------------
(* Steps of the queue, and the worker that stops.                          *)

\* Callers that hold the same of their runs and sources, wherever they stand in the lakehouse.
SameWork ==
    \A x \in Callers : /\ call'[x].op \in Kinds \/ call[x].op \in Kinds =>
                            /\ call'[x].op = call[x].op /\ call'[x].pc = call[x].pc /\ call'[x].src = call[x].src
                            /\ call'[x].run = call[x].run /\ call'[x].rows = call[x].rows

LEMMA SameLayers ==
    ASSUME LakeInv, SameWork, UNCHANGED <<tables, interrupted, raced, overtaken>>
    PROVE  BronzeInv' /\ LayerInv'
<1>1. \A x \in Callers, op \in Kinds : \A p : /\ At(x, op, p)' <=> At(x, op, p)
                                              /\ At(x, op, p) => call'[x].src = call[x].src /\ call'[x].run = call[x].run /\ call'[x].rows = call[x].rows
  BY DEF SameWork, At
<1>2. \A x \in Callers : (Past(x)' <=> Past(x)) /\ (Past(x) => call'[x].src = call[x].src)
  BY DEF SameWork, Past, Kinds
<1>3. /\ runs' = runs /\ bronze' = bronze /\ silver' = silver /\ gold' = gold /\ interrupted' = interrupted /\ raced' = raced
      /\ overtaken' = overtaken /\ RunIds' = RunIds
  BY DEF tables, RunIds, MaxRuns
<1>4. /\ \A r, kind : Ready(kind, r)' <=> Ready(kind, r)
      /\ \A r : BatchOf(r)' = BatchOf(r)
      /\ \A k : Shown(k)' <=> Shown(k)
  BY <1>3 DEF Ready, BatchOf, Shown
<1>5. \A q : (Written(q)' <=> Written(q)) /\ (Caught(q)' <=> Caught(q))
  BY <1>3, <1>4 DEF Written, Caught
<1>6. BronzeInv'
  <2>1. BronzeHoldsABatchOnce'
    BY <1>3 DEF LakeInv, BronzeInv, BronzeHoldsABatchOnce
  <2>2. ASSUME NEW r \in bronze
        PROVE  /\ runs[r].kind = "INGEST"
               /\ \/ runs[r].status = "COMPLETED" \/ runs[r].of \in interrupted
                  \/ \E x \in Callers : At(x, "INGEST", "complete")' /\ call'[x].run = r
    BY <1>1 DEF LakeInv, BronzeInv, Kinds
  <2>3. \A x \in Callers : At(x, "INGEST", "complete")' => call'[x].run \in bronze
    BY <1>1 DEF LakeInv, BronzeInv, Kinds
  <2>4. /\ \A x, y \in Callers : x # y /\ Past(x)' /\ Past(y)' /\ call'[x].src = call'[y].src => call'[x].src \in raced
        /\ \A x \in Callers : Past(x)' /\ call'[x].src \notin raced =>
             \A r \in RunIds : Ready("INGEST", r) => runs[r].of # call'[x].src
        /\ \A r \in RunIds : Ready("INGEST", r) => r \in bronze
    BY <1>2 DEF LakeInv, BronzeInv
  <2> QED
    BY <1>3, <1>4, <2>1, <2>2, <2>3, <2>4 DEF BronzeInv
<1>7. LayerInv'
  <2>1. LayersOK'
    BY <1>3, <1>4 DEF LakeInv, LayerInv, LayersOK
  <2>2. ASSUME NEW r \in RunIds
        PROVE  /\ Ready("SILVER", r)' => Written(runs[r].of)'
               /\ Ready("GOLD", r)' => Caught(runs[r].of)'
    <3> PICK q : q = runs[r].of /\ q = runs'[r].of
      BY <1>3
    <3>1. /\ Ready("SILVER", r)' => Written(q)'
          /\ Ready("GOLD", r)' => Caught(q)'
      BY <1>4, <1>5 DEF LakeInv, LayerInv
    <3> QED
      BY <3>1 DEF Written, Caught
  <2>3. ASSUME NEW x \in Callers
        PROVE  /\ At(x, "SILVER", "complete")' => Written(call[x].src)'
               /\ At(x, "GOLD", "write")' => /\ \A k \in call'[x].rows : silver[k].run # None
                                            /\ \A k \in Keys : silver[k].run = call'[x].src => k \in call'[x].rows
               /\ At(x, "GOLD", "complete")' => Caught(call[x].src)'
    <3> PICK q : q = call'[x].src
      OBVIOUS
    <3>1. /\ At(x, "SILVER", "complete")' => Written(q)'
          /\ At(x, "GOLD", "write")' => /\ \A k \in call'[x].rows : silver[k].run # None
                                       /\ \A k \in Keys : silver[k].run = q => k \in call'[x].rows
          /\ At(x, "GOLD", "complete")' => Caught(q)'
      BY <1>1, <1>5 DEF LakeInv, LayerInv, Kinds
    <3> QED
      BY <3>1 DEF Written, Caught
  <2> QED
    BY <1>3, <2>1, <2>2, <2>3 DEF LayerInv
<1> QED
  BY <1>6, <1>7

LEMMA SameRows ==
    ASSUME LakeInv, UNCHANGED <<tables, extra>>, job' \in [Batches -> JobStates], disturbed' \in BOOLEAN
    PROVE  RowsOK' /\ Used' = Used /\ \A r, kind : BatchOf(r)' = BatchOf(r) /\ (Ready(kind, r)' <=> Ready(kind, r))
<1>1. runs' = runs /\ Settles
  BY SameSettles DEF LakeInv, tables
<1>2. Used' = Used /\ RowsOK'
  BY <1>1, SettledRows DEF LakeInv, RowsOK, RunRow, TableRow, RunIds, MaxRuns, JobStates, tables
<1> QED
  BY <1>1, <1>2 DEF BatchOf, Ready

LEMMA WorkerStopsKeeps ==
    ASSUME LakeInv, WorkerStops
    PROVE  LakeInv'
<1>1. call' = [x \in Callers |-> IF call[x].job = None THEN call[x]
                                 ELSE IF call[x].op = "PUBLISH" THEN Idle
                                 ELSE [call[x] EXCEPT !.job = None, !.by = None]]
  BY DEF WorkerStops
<1>2. UNCHANGED <<tables, job, extra, interrupted, raced, overtaken>> /\ disturbed' = TRUE
  BY DEF WorkerStops
<1>3. ASSUME NEW x \in Callers
      PROVE  \/ call'[x] = call[x] /\ call[x].job = None
             \/ call'[x] = Idle /\ call[x].op = "PUBLISH"
             \/ \E d \in CallType : /\ call'[x] = d /\ d.op = call[x].op /\ d.pc = call[x].pc /\ d.src = call[x].src /\ d.run = call[x].run
                                   /\ d.rows = call[x].rows /\ d.job = None /\ d.by = None /\ call[x].op # "PUBLISH" /\ call[x].job # None
  <2>1. CASE call[x].job = None
    BY <1>1, <2>1
  <2>2. CASE call[x].job # None /\ call[x].op = "PUBLISH"
    BY <1>1, <2>2
  <2>3. CASE call[x].job # None /\ call[x].op # "PUBLISH"
    <3> PICK d : d = [call[x] EXCEPT !.job = None, !.by = None]
      OBVIOUS
    <3>1. call[x] \in CallType
      BY DEF LakeInv, CallsOK
    <3>2. /\ d \in CallType /\ d.op = call[x].op /\ d.pc = call[x].pc /\ d.src = call[x].src /\ d.run = call[x].run
          /\ d.rows = call[x].rows /\ d.job = None /\ d.by = None
      BY <3>1 DEF CallType
    <3>3. call'[x] = d
      BY <1>1, <2>3
    <3> QED
      BY <2>3, <3>2, <3>3
  <2> QED
    BY <2>1, <2>2, <2>3
<1>4. ASSUME NEW x \in Callers
      PROVE  /\ call'[x] \in CallType /\ Shape(call'[x]) /\ Holds(call[x])' /\ call'[x].job = None
             /\ Left(call'[x]) <= Left(call[x])
             /\ call'[x].run # None => call'[x].run = call[x].run
  <2> PICK e : e = call[x]
    OBVIOUS
  <2>1. e \in CallType /\ Shape(e) /\ Holds(e)
    BY DEF LakeInv, CallsOK
  <2>2. \A d : Holds(d)' <=> Holds(d)
    <3>1. runs' = runs
      BY <1>2 DEF tables
    <3> QED
      BY <3>1 DEF Holds, Ready, BatchOf
  <2>3. CASE call'[x] = e /\ e.job = None
    <3> PICK d : d = call'[x] /\ d = e
      BY <2>3
    <3>1. Holds(d)'
      BY <2>1, <2>2
    <3> QED
      BY <2>1, <2>3, <3>1, LeftType DEF Holds
  <2>4. CASE call'[x] = Idle
    <3>1. Holds(Idle)
      BY IdleCall, Facts DEF Holds, Ops, Kinds
    <3>2. Holds(Idle)'
      BY <2>2, <3>1
    <3> QED
      BY <2>4, <3>2, IdleCall, LeftType DEF Holds
  <2>5. ASSUME NEW d \in CallType, call'[x] = d, d.op = e.op, d.pc = e.pc, d.src = e.src, d.run = e.run,
               d.job = None, d.by = None, e.op # "PUBLISH"
        PROVE  Shape(d) /\ Holds(d)' /\ Left(d) <= Left(e)
    <3>1. Shape(d)
      BY <2>1, <2>5 DEF Shape
    <3>2. Holds(d)
      BY <2>1, <2>5 DEF Holds
    <3>3. Left(d) <= Left(e)
      BY <2>5 DEF Left
    <3> QED
      BY <2>2, <3>1, <3>2, <3>3
  <2> QED
    BY <1>3, <2>3, <2>4, <2>5 DEF Holds
<1>5. SameWork
  BY <1>3, IdleCall, Facts DEF SameWork, Kinds
<1>6. RowsOK' /\ Used' = Used /\ \A r, kind : BatchOf(r)' = BatchOf(r)
  BY <1>2, SameRows DEF LakeInv, RowsOK
<1>7. CallsOK'
  <2>1. \A x, y \in Callers : call'[x].run # None /\ call'[x].run = call'[y].run => x = y
    BY <1>4 DEF LakeInv, CallsOK
  <2>2. call' \in [Callers -> CallType]
    BY <1>1, <1>4
  <2>3. CallType' = CallType /\ \A e : Shape(e)' <=> Shape(e)
    BY DEF CallType, Ops, Kinds, Points, RunIds, MaxRuns, Shape
  <2> QED
    BY <1>4, <2>1, <2>2, <2>3 DEF CallsOK
<1>8. JobInv'
  <2>1. SucceededJobHasItsChain'
    BY <1>2, <1>6 DEF LakeInv, JobInv, SucceededJobHasItsChain, tables
  <2> QED
    BY <1>4, <2>1 DEF JobInv, OneWorkerPerJob
<1>9. CountInv'
  BY <1>2, <1>4, <1>6, CountKept DEF LakeInv, Taken
<1>10. BronzeInv' /\ LayerInv'
  BY <1>2, <1>5, SameLayers
<1>11. QueueInv'
  BY <1>2, QueueDisturbed DEF LakeInv
<1> QED
  BY <1>6, <1>7, <1>8, <1>9, <1>10, <1>11 DEF LakeInv

\* Callers and tables stay as they are: a job enters the queue, or nothing happens at all.
LEMMA QueuedKeeps ==
    ASSUME LakeInv, UNCHANGED <<tables, call, extra, aux>>, job' \in [Batches -> JobStates], Taken' = Taken,
           \A b \in Taken : job'[b] = job[b],
           \A a, b \in Batches : job'[b] # None /\ a < b => job'[a] # None
    PROVE  LakeInv'
<1>1. call' = call /\ runs' = runs /\ silver' = silver /\ extra' = extra /\ disturbed' = disturbed
  BY DEF tables, aux
<1>2. RowsOK' /\ Used' = Used /\ \A r, kind : BatchOf(r)' = BatchOf(r) /\ (Ready(kind, r)' <=> Ready(kind, r))
  BY SameRows DEF LakeInv, RowsOK, aux
<1>3. CallsOK'
  <2>1. CallType' = CallType /\ \A e : (Shape(e)' <=> Shape(e)) /\ (Holds(e)' <=> Holds(e))
    BY <1>1, <1>2 DEF CallType, Ops, Kinds, Points, RunIds, MaxRuns, Shape, Holds
  <2>2. ASSUME NEW x \in Callers PROVE Shape(call[x])' /\ Holds(call[x])'
    <3> PICK e : e = call[x] /\ e = call'[x]
      BY <1>1
    <3>1. Shape(e)' /\ Holds(e)'
      BY <2>1 DEF LakeInv, CallsOK
    <3> QED
      BY <3>1 DEF Shape, Holds
  <2> QED
    BY <1>1, <2>1, <2>2 DEF LakeInv, CallsOK
<1>4. JobInv'
  <2>1. \A x \in Callers : call[x].job # None => call[x].job \in Taken
    BY Facts DEF LakeInv, JobInv, CallsOK, CallType, Taken
  <2>2. \A b \in Batches : job'[b] = "SUCCEEDED" => job[b] = "SUCCEEDED"
    <3>1. \A b \in Batches \ Taken' : job'[b] \in {None, "PENDING"}
      BY DEF Taken
    <3> QED
      BY <3>1, Facts
  <2>3. SucceededJobHasItsChain'
    BY <1>1, <1>2, <2>2 DEF LakeInv, JobInv, SucceededJobHasItsChain
  <2> QED
    BY <1>1, <2>1, <2>3 DEF LakeInv, JobInv, OneWorkerPerJob
<1>5. CountInv'
  BY <1>1, <1>2, LeftType, CountKept DEF LakeInv
<1>6. BronzeInv' /\ LayerInv'
  BY <1>1, SameLayers DEF SameWork, aux
<1>7. QueueInv'
  BY <1>1 DEF LakeInv, QueueInv
<1> QED
  BY <1>2, <1>3, <1>4, <1>5, <1>6, <1>7 DEF LakeInv

LEMMA EnqueueKeeps ==
    ASSUME LakeInv, NEW b \in Batches, Enqueue(b)
    PROVE  LakeInv'
<1>1. /\ UNCHANGED <<tables, call, extra, aux>> /\ job[b] = None /\ \A a \in Batches : a < b => job[a] # None
      /\ job' = [job EXCEPT ![b] = "PENDING"] /\ job \in [Batches -> JobStates]
  BY Facts DEF Enqueue, SetJob, LakeInv, RowsOK
<1>2. job' \in [Batches -> JobStates] /\ job'[b] = "PENDING" /\ \A a \in Batches \ {b} : job'[a] = job[a]
  BY <1>1 DEF JobStates
<1>3. Taken' = Taken /\ b \notin Taken
  BY <1>1, <1>2 DEF Taken
<1>4. \A a \in Taken : job'[a] = job[a]
  BY <1>2, <1>3 DEF Taken
<1>5. ASSUME NEW a \in Batches, NEW q \in Batches, job'[q] # None, a < q PROVE job'[a] # None
  BY <1>1, <1>2, <1>5, Facts DEF LakeInv, QueueInv
<1> QED
  BY <1>1, <1>2, <1>3, <1>4, <1>5, QueuedKeeps

LEMMA StutterKeeps ==
    ASSUME LakeInv, UNCHANGED vars
    PROVE  LakeInv'
<1>1. UNCHANGED <<tables, call, extra, aux>> /\ job' = job
  BY DEF vars
<1> QED
  BY <1>1, QueuedKeeps DEF LakeInv, RowsOK, QueueInv, Taken

-----------------------------------------------------------------------------
(* The invariant.                                                          *)

LEMMA StartsSound == Init => LakeInv
<1> SUFFICES ASSUME Init PROVE LakeInv
  OBVIOUS
<1>1. /\ \A r \in RunIds : runs[r].kind = None /\ runs[r].of = None /\ runs[r].status = None
      /\ \A k \in Keys : silver[k].run = None /\ silver[k].batch = 0 /\ gold[k].run = None /\ gold[k].batch = 0
      /\ \A b \in Batches : job[b] = None
      /\ \A c \in Callers : call[c] = Idle
      /\ bronze = {} /\ extra = 0 /\ disturbed = FALSE
  BY DEF Init
<1>2. RowsOK
  <2>1. runs \in [RunIds -> RunRow] /\ silver \in [Keys -> TableRow] /\ gold \in [Keys -> TableRow] /\ job \in [Batches -> JobStates]
    BY DEF Init, RunRow, TableRow, JobStates
  <2>2. \A r \in RunIds : Linked(r)
    BY <1>1, Facts DEF Linked, Kinds
  <2> QED
    <3>1. bronze \subseteq RunIds /\ disturbed \in BOOLEAN
      BY <1>1
    <3>2. extra \in 0..MaxExtra
      BY <1>1, Facts
    <3> QED
      BY <2>1, <2>2, <3>1, <3>2 DEF RowsOK
<1>3. CallsOK
  <2>1. call \in [Callers -> CallType]
    BY IdleCall DEF Init
  <2>2. Holds(Idle)
    BY IdleCall, Facts DEF Holds, Ops, Kinds
  <2> QED
    BY <1>1, <2>1, <2>2, IdleCall DEF CallsOK
<1>4. JobInv
  BY <1>1, IdleCall, Facts DEF JobInv, OneWorkerPerJob, SucceededJobHasItsChain
<1>5. CountInv
  <2>1. ToCreate = {}
    BY <1>1, IdleCall DEF ToCreate
  <2>2. Used = 1..0
    BY <1>1 DEF Used
  <2>3. IsFiniteSet(ToCreate) /\ Cardinality(ToCreate) = 0
    BY <2>1, FS_EmptySet
  <2>4. 0 \in 0..MaxRuns /\ 0 + Cardinality(ToCreate) <= 3 * (Cardinality(Taken) + extra)
    BY <1>1, <2>3, Facts, TakenType
  <2> QED
    BY <2>2, <2>3, <2>4 DEF CountInv
<1>6. \A c \in Callers : ~Past(c) /\ \A op \in Kinds : \A p : ~At(c, op, p)
  BY <1>1, IdleCall, Facts DEF Past, At, Kinds
<1>7. \A r \in RunIds, kind \in Kinds : ~Ready(kind, r)
  BY <1>1, Facts DEF Ready
<1>8. BronzeInv
  BY <1>1, <1>6, <1>7 DEF BronzeInv, BronzeHoldsABatchOnce, Kinds
<1>9. LayerInv
  <2>1. LayersOK
    BY <1>1 DEF LayersOK
  <2> QED
    BY <1>6, <1>7, <2>1 DEF LayerInv, Kinds
<1>10. QueueInv
  BY <1>1, IdleCall, Facts DEF QueueInv, Taken
<1> QED
  BY <1>2, <1>3, <1>4, <1>5, <1>8, <1>9, <1>10 DEF LakeInv

LEMMA NextKeeps == LakeInv /\ [Next]_vars => LakeInv'
<1> SUFFICES ASSUME LakeInv, [Next]_vars PROVE LakeInv'
  OBVIOUS
<1>1. ASSUME NEW c \in Callers, NEW r \in Used, NEW force \in BOOLEAN, NEW op \in {"SILVER", "GOLD"}, Trigger(c, op, r, force)
      PROVE  LakeInv'
  BY <1>1, TriggerKeeps DEF Used, Kinds
<1>2. ASSUME NEW c \in Callers, NEW b \in Batches, Trigger(c, "INGEST", b, FALSE) PROVE LakeInv'
  BY <1>2, TriggerKeeps DEF Kinds
<1> QED
  BY <1>1, <1>2, EnqueueKeeps, ClaimKeeps, StepOfARequest, FailKeeps, BreaksKeeps, RunNowKeeps,
     WorkerStopsKeeps, StutterKeeps
     DEF Next

\* The types, and what a caller, a job, the count of runs, Bronze, the layers and the queue keep.
THEOREM LakehouseCorrect == Spec => []LakeInv
BY StartsSound, NextKeeps, PTL DEF Spec

-----------------------------------------------------------------------------
(* What the invariant says of the properties the code is judged by.        *)

\* Jobs, runs and layers are linked the way the stages hand them on: rows show runs of the layer
\* before them that completed, a batch stands in Bronze twice only after an ingestion that ended
\* early or raced another, a job has one worker, and a job that succeeded has its completed chain.
LEMMA LakeMeansRuns == LakeInv => RunsFollowRuns
<1> SUFFICES ASSUME LakeInv PROVE RunsFollowRuns
  OBVIOUS
<1>1. TypeOK
  <2>1. runs \in [RunIds -> [kind : {None, "INGEST", "SILVER", "GOLD"}, of : {None} \cup Batches \cup RunIds,
                            status : {None, "RUNNING", "COMPLETED", "FAILED"}]]
    BY DEF LakeInv, RowsOK, RunRow
  <2>2. \A table \in {silver, gold} : table \in [Keys -> [batch : Batches \cup {0}, run : RunIds \cup {None}]]
    BY DEF LakeInv, RowsOK, TableRow
  <2>3. \A c \in Callers : /\ call[c].job \in Batches \cup {None} /\ call[c].rows \subseteq Keys
                           /\ call[c].run # None => runs[call[c].run].kind = call[c].op
    BY DEF LakeInv, CallsOK, CallType, Holds
  <2> QED
    BY <2>1, <2>2, <2>3 DEF TypeOK, LakeInv, RowsOK, JobStates
<1>2. OnlyCompletedRunsAreFollowed
  <2>1. ASSUME NEW k \in Keys, silver[k].run # None PROVE runs[runs[silver[k].run].of].status = "COMPLETED"
    <3>1. silver[k].run \in RunIds /\ runs[silver[k].run].kind = "SILVER"
      BY <2>1 DEF LakeInv, RowsOK, TableRow, LayerInv, LayersOK
    <3> QED
      BY <3>1 DEF LakeInv, RowsOK, Linked, Ready
  <2>2. ASSUME NEW k \in Keys, gold[k].run # None PROVE runs[runs[gold[k].run].of].status = "COMPLETED"
    <3>1. gold[k].run \in RunIds /\ runs[gold[k].run].kind = "GOLD"
      BY <2>2 DEF LakeInv, RowsOK, TableRow, LayerInv, LayersOK
    <3> QED
      BY <3>1 DEF LakeInv, RowsOK, Linked, Ready
  <2> QED
    BY <2>1, <2>2 DEF OnlyCompletedRunsAreFollowed
<1> QED
  BY <1>1, <1>2 DEF RunsFollowRuns, LakeInv, BronzeInv, JobInv

\* The rows of the tables, the queue and the runs keep to the order the stages hand them on in.
THEOREM RunsStayFollowed == Spec => []RunsFollowRuns
BY LakehouseCorrect, LakeMeansRuns, PTL

LEMMA LakeMeansCaughtUp == LakeInv => CleanMeansCaughtUp
<1> SUFFICES ASSUME LakeInv, Clean, \A r \in Used : runs[r].status = "COMPLETED"
             PROVE  /\ \A k \in Keys : gold[k].batch = silver[k].batch \/ k \in overtaken
                    /\ \A q \in Used : runs[q].kind = "INGEST" => \A k \in KeysOf[runs[q].of] : gold[k].run # None
  BY DEF CleanMeansCaughtUp
<1>1. ASSUME NEW r \in RunIds, NEW kind \in Kinds, runs[r].kind = kind PROVE r \in Used /\ Ready(kind, r)
  BY <1>1, Facts DEF Used, Ready
<1>2. ASSUME NEW k \in Keys, silver[k].run # None PROVE Shown(k)
  <2> PICK s : s = silver[k].run
    OBVIOUS
  <2>1. s \in RunIds /\ Ready("SILVER", s) /\ s \in Used
    <3>1. s \in RunIds /\ runs[s].kind = "SILVER"
      BY <1>2 DEF LakeInv, RowsOK, TableRow, LayerInv, LayersOK
    <3> QED
      BY <1>1, <3>1 DEF Kinds
  <2>2. Followed("GOLD", s)
    BY <2>1 DEF Clean, FindSilverWithoutGold
  <2>3. PICK g \in Used : runs[g].kind = "GOLD" /\ runs[g].of = s
    BY <2>2 DEF Followed
  <2>4. g \in RunIds /\ Ready("GOLD", g)
    BY <1>1, <2>3 DEF Used, Kinds
  <2>5. Caught(s)
    BY <2>3, <2>4 DEF LakeInv, LayerInv
  <2> QED
    BY <2>5 DEF Caught
<1>3. ASSUME NEW k \in Keys PROVE gold[k].batch = silver[k].batch \/ k \in overtaken
  <2>1. CASE silver[k].run = None
    BY <2>1 DEF LakeInv, LayerInv, LayersOK
  <2>2. CASE silver[k].run # None
    BY <1>2, <2>2 DEF Shown
  <2> QED
    BY <2>1, <2>2
<1>4. ASSUME NEW q \in Used, runs[q].kind = "INGEST", NEW k \in KeysOf[runs[q].of] PROVE gold[k].run # None
  <2>1. q \in RunIds /\ Ready("INGEST", q)
    BY <1>1, <1>4 DEF Used, Kinds
  <2>2. Followed("SILVER", q)
    BY <2>1 DEF Clean, FindBronzeWithoutSilver
  <2>3. PICK s \in Used : runs[s].kind = "SILVER" /\ runs[s].of = q
    BY <2>2 DEF Followed
  <2>4. s \in RunIds /\ Ready("SILVER", s)
    BY <1>1, <2>3 DEF Used, Kinds
  <2>5. Written(q)
    BY <2>3, <2>4 DEF LakeInv, LayerInv
  <2>6. BatchOf(q) = runs[q].of /\ BatchOf(q) \in Batches
    BY <1>4, <2>1, BatchIs DEF LakeInv, Kinds
  <2>7. silver[k].run # None /\ k \in Keys
    BY <2>5, <2>6, Facts DEF Written
  <2> QED
    BY <1>2, <2>7 DEF Shown
<1> QED
  BY <1>3, <1>4

\* When nothing runs, no run failed and reconciliation has nothing to report, Gold shows what
\* Silver shows and every key of an ingested batch, but for rows a Gold run took from a Silver
\* run that had lost them: the check of the two reports is as good as a comparison of the tables.
THEOREM ReconciliationIsEnough == Spec => []CleanMeansCaughtUp
BY LakehouseCorrect, LakeMeansCaughtUp, PTL

LEMMA SilverMovesOn ==
    LakeInv /\ LakeInv' /\ [Next]_vars => disturbed' \/ \A k \in Keys : silver'[k].batch >= silver[k].batch
<1> SUFFICES ASSUME LakeInv, LakeInv', [Next]_vars, ~disturbed', NEW k \in Keys PROVE silver'[k].batch >= silver[k].batch
  OBVIOUS
<1>1. silver[k].batch \in Nat
  <2>1. silver[k] \in TableRow
    BY DEF LakeInv, RowsOK
  <2>2. PICK b \in Batches \cup {0} : b = silver[k].batch
    BY <2>1 DEF TableRow
  <2>3. Batches \subseteq Nat
    BY Facts
  <2>4. b \in Nat
    BY <2>3
  <2> QED
    BY <2>2, <2>4
<1>2. CASE silver' = silver
  BY <1>1, <1>2
<1>3. ASSUME NEW c \in Callers, WriteSilver(c) PROVE silver'[k].batch >= silver[k].batch
  <2> PICK e : e = call[c]
    OBVIOUS
  <2> PICK b : b = BatchOf(e.src)
    OBVIOUS
  <2>1. /\ e.op = "SILVER" /\ e.pc = "write" /\ disturbed' = disturbed
        /\ silver'[k] = IF e.src \in bronze /\ k \in KeysOf[b] THEN [batch |-> b, run |-> e.run] ELSE silver[k]
    BY <1>3 DEF WriteSilver, At, aux
  <2>2. e.job = b /\ b \in Nat /\ \A a \in Taken : a <= b
    <3>1. e \in CallType /\ e.job # None /\ \A a \in Taken : a <= e.job
      BY <2>1, Facts DEF LakeInv, CallsOK, Shape, QueueInv
    <3>2. e.job = b
      BY <2>1, <3>1 DEF LakeInv, CallsOK, Holds
    <3> QED
      BY <3>1, <3>2, Facts DEF CallType
  <2>3. silver[k].batch = 0 \/ silver[k].batch \in Taken
    BY <2>1 DEF LakeInv, LayerInv, LayersOK, QueueInv
  <2>4. silver[k].batch <= b
    BY <1>1, <2>2, <2>3
  <2> QED
    BY <1>1, <2>1, <2>2, <2>4
<1>4. silver' = silver \/ \E c \in Callers : WriteSilver(c)
  BY DEF Next, vars, tables, Enqueue, Claim, RunNow, Trigger, Step, Ingestion, BronzeToSilver,
     SilverToGold, CheckIngestion,
         CreateIngestion, Create, WriteBronze, CheckPipeline, CreatePipelineRun, ReadSilver, WriteGold, Complete, Publish,
         Fail, Breaks, WorkerStops
<1> QED
  BY <1>2, <1>3, <1>4

\* While only the poll loop runs jobs, no key of Silver goes back to an older batch.
THEOREM SilverKeepsTheOrder == Spec => SilverFollowsTheQueue
<1>1. LakeInv /\ LakeInv' /\ [Next]_vars => [disturbed' \/ \A k \in Keys : silver'[k].batch >= silver[k].batch]_vars
  BY SilverMovesOn
<1> QED
  BY <1>1, LakehouseCorrect, PTL DEF Spec, SilverFollowsTheQueue
==============================================================================
