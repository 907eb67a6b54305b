------------------------- MODULE NativeCallsProofs --------------------------
(***************************************************************************)
(* Proofs about NativeCalls.tla, for any requests, workers and addresses.  *)
(* What the library answers is nowhere looked into: only that a request    *)
(* has one answer.                                                         *)
(***************************************************************************)
EXTENDS NativeCalls, TLAPS

Reply(c) == Answer(Passed(call[c].req))

(* A caller's stage says what it holds: its request, from "written" on a   *)
(* block with the answer to it, from "copied" on that answer itself.       *)
CallInv(c) ==
  /\ Waiting(c) => call[c].req \in IF c = Main THEN Requests ELSE WorkerRequests
  /\ Waiting(c) => call[c].got = NULL
  /\ c = Main => call[c].at \in {"idle", "native", "written", "copied"}
  /\ call[c].at \in {"native", "written", "copied"} => ~Refused(call[c].req)
  /\ call[c].at \in {"written", "copied"} =>
       /\ call[c].addr \in Addrs
       /\ heap[call[c].addr] = [owner |-> c, text |-> Reply(c)]
  /\ call[c].at \in {"written", "copied"} \/ (call[c].at = "replied" /\ ~Refused(call[c].req)) =>
       Reply(c).out # Panic /\ ~IsVerdict(Reply(c).out)
  /\ call[c].at = "copied" => call[c].copy = Reply(c)
  /\ call[c].at = "replied" =>
       call[c].copy = IF Refused(call[c].req) THEN Exception ELSE Reply(c)

Inv == TypeOK /\ NothingLeft /\ \A c \in Callers : CallInv(c)

(* The result of a call is no exception.                                   *)
LEMMA AnswerIsNoException == \A r : Answer(r) # Exception
<1>1. \A r : DOMAIN Answer(r) = {"out", "fn", "of", "nums"}
  BY DEF Answer
<1>2. DOMAIN Exception = {"kind", "len"}
  BY DEF Exception, Outcome
<1>3. "out" \notin {"kind", "len"}
  OBVIOUS
<1> QED
  BY <1>1, <1>2, <1>3

LEMMA InitInv == Init => Inv
<1> SUFFICES ASSUME Init PROVE Inv
  OBVIOUS
<1>1. TypeOK
  BY NativeAssumption DEF Init, TypeOK, Idle, At, FreeBlock, CallStates, Gots, Callers
<1>2. NothingLeft
  BY NativeAssumption DEF Init, NothingLeft, FreeBlock
<1>3. ASSUME NEW c \in Callers PROVE CallInv(c)
  BY <1>3 DEF Init, CallInv, Idle, At, Waiting
<1> QED
  BY <1>1, <1>2, <1>3 DEF Inv
-----------------------------------------------------------------------------
(* A step changes the record of one caller and blocks of that caller only. *)

(* What another caller's invariant rests on is its record and its block.   *)
LEMMA OthersKeep ==
  ASSUME Inv, NEW c \in Callers, NEW d \in Callers \ {c},
         call'[d] = call[d],
         \A a \in Addrs : heap[a].owner = d => heap'[a] = heap[a]
  PROVE  CallInv(d)'
<1>1. CallInv(d)
  BY DEF Inv
<1>2. call[d].at \in {"written", "copied"} => heap'[call[d].addr] = heap[call[d].addr]
  BY <1>1 DEF CallInv
<1> QED
  BY <1>1, <1>2 DEF CallInv, Waiting, Reply

(* The requests, their answers and their results are those of the types.   *)
LEMMA Known ==
  ASSUME NEW r \in Asks
  PROVE  Answer(Passed(r)) \in Answers /\ \A x \in Results(r) : x \in Gots
BY DEF Answers, Gots

Record == [at : CallStates, req : Asks \cup {NULL}, addr : Addrs \cup {NULL},
           copy : Answers \cup {Exception, NULL}, got : Gots]

(* What is left to show of a step that changes the record of caller c.     *)
LEMMA OneMoves ==
  ASSUME Inv, NEW c \in Callers, NEW e \in Record,
         call' = [call EXCEPT ![c] = e],
         \A a \in Addrs : heap[a].owner \notin {c, NULL} => heap'[a] = heap[a],
         heap' \in [Addrs -> [owner : Callers \cup {Lost, NULL}, text : Answers \cup {NULL}]],
         stopped' \in Asks \cup {NULL}, made' \in 0 .. MaxCalls,
         NothingLeft', CallInv(c)'
  PROVE  Inv'
<1>1. TypeOK'
  BY DEF Inv, TypeOK, Record
<1>2. ASSUME NEW d \in Callers \ {c} PROVE CallInv(d)'
  <2>1. call'[d] = call[d]
    BY <1>2 DEF Inv, TypeOK
  <2>2. \A a \in Addrs : heap[a].owner = d => heap'[a] = heap[a]
    BY NativeAssumption DEF Callers
  <2> QED
    BY <2>1, <2>2, OthersKeep
<1> QED
  BY <1>1, <1>2 DEF Inv

(* The heap and the process are as they were.                              *)
LEMMA OnlyMoves ==
  ASSUME Inv, NEW c \in Callers, NEW e \in Record,
         call' = [call EXCEPT ![c] = e], UNCHANGED << heap, stopped >>, made' \in 0 .. MaxCalls,
         call[c].at \notin {"written", "copied"} \/ (e.at \in {"written", "copied"} /\ e.addr = call[c].addr),
         CallInv(c)'
  PROVE  Inv'
<1>1. NothingLeft'
  <2> SUFFICES ASSUME NEW a \in Addrs, heap[a].owner \in Callers
               PROVE  /\ call'[heap[a].owner].at \in {"written", "copied"}
                      /\ call'[heap[a].owner].addr = a
    BY DEF Inv, NothingLeft
  <2>1. call[heap[a].owner].at \in {"written", "copied"} /\ call[heap[a].owner].addr = a
    BY DEF Inv, NothingLeft
  <2>2. CASE heap[a].owner = c
    BY <2>1, <2>2 DEF Inv, TypeOK
  <2>3. CASE heap[a].owner # c
    BY <2>1, <2>3 DEF Inv, TypeOK
  <2> QED
    BY <2>2, <2>3
<1> QED
  BY <1>1, OneMoves DEF Inv, TypeOK
-----------------------------------------------------------------------------
LEMMA CallKeeps == Inv /\ Call => Inv'
<1> SUFFICES ASSUME Inv, Call PROVE Inv'
  OBVIOUS
<1>1. PICK r \in Requests :
        IF Refused(r) THEN Finish(Main, "idle", Throws)
        ELSE call' = [call EXCEPT ![Main] = At("native", r, NULL)]
  BY DEF Call
<1>2. /\ UNCHANGED << heap, stopped >> /\ made' \in 0 .. MaxCalls
      /\ call[Main].at = "idle" /\ Main \in Callers
  BY NativeAssumption DEF Call, Calls, MainIdle, Inv, TypeOK, Callers
<1>3. CASE Refused(r)
  <2> DEFINE e == [at |-> "idle", req |-> NULL, addr |-> NULL, copy |-> NULL, got |-> Throws]
  <2>1. call' = [call EXCEPT ![Main] = e]
    BY <1>1, <1>3 DEF Finish, At
  <2>2. Throws \in Results(r)
    BY <1>3, WorkerAssumption DEF Results
  <2>3. e \in Record
    BY <2>2 DEF Record, CallStates, Asks, Gots
  <2>4. call'[Main] = e
    BY <2>1, <1>2 DEF Inv, TypeOK
  <2>5. CallInv(Main)'
    BY <2>4 DEF CallInv, Waiting
  <2> QED
    BY <1>2, <2>1, <2>3, <2>5, OnlyMoves
<1>4. CASE ~Refused(r)
  <2> DEFINE e == [at |-> "native", req |-> r, addr |-> NULL, copy |-> NULL, got |-> NULL]
  <2>1. call' = [call EXCEPT ![Main] = e]
    BY <1>1, <1>4 DEF At
  <2>2. e \in Record
    BY DEF Record, CallStates, Asks, Gots
  <2>3. call'[Main] = e
    BY <2>1, <1>2 DEF Inv, TypeOK
  <2>4. CallInv(Main)'
    BY <2>3, <1>4 DEF CallInv, Waiting
  <2> QED
    BY <1>2, <2>1, <2>2, <2>4, OnlyMoves
<1> QED
  BY <1>3, <1>4

LEMMA SpawnKeeps == ASSUME Inv, NEW w \in Workers, Spawn(w) PROVE Inv'
<1>1. PICK r \in WorkerRequests :
        call' = [call EXCEPT ![w] = At("spawned", r, NULL)]
  BY DEF Spawn
<1> DEFINE e == [at |-> "spawned", req |-> r, addr |-> NULL, copy |-> NULL, got |-> NULL]
<1>2. /\ UNCHANGED << heap, stopped >> /\ made' \in 0 .. MaxCalls
      /\ call[w].at = "idle" /\ w \in Callers /\ w # Main
  BY NativeAssumption DEF Spawn, Calls, Inv, TypeOK, Callers
<1>3. call' = [call EXCEPT ![w] = e]
  BY <1>1 DEF At
<1>4. e \in Record
  BY DEF Record, CallStates, Asks, Gots
<1>5. call'[w] = e
  BY <1>2, <1>3 DEF Inv, TypeOK
<1>6. CallInv(w)'
  BY <1>2, <1>5 DEF CallInv, Waiting
<1> QED
  BY <1>2, <1>3, <1>4, <1>6, OnlyMoves

(* The steps of a worker that wait for, or answer, a message.              *)
LEMMA GreetKeeps == ASSUME Inv, NEW w \in Workers, Greet(w) PROVE Inv'
<1> DEFINE e == [call[w] EXCEPT !.at = "greeted"]
<1>1. /\ call[w].at = "spawned" /\ w \in Callers /\ w # Main
      /\ UNCHANGED << heap, stopped >> /\ made' \in 0 .. MaxCalls
  BY NativeAssumption DEF Greet, Inv, TypeOK, Callers
<1>2. call' = [call EXCEPT ![w] = e]
  BY DEF Greet, Move
<1>3. e \in Record /\ call'[w] = e
  BY <1>1, <1>2 DEF Inv, TypeOK, Record, CallStates
<1>4. e.at = "greeted" /\ e.req = call[w].req /\ e.got = call[w].got
  BY <1>1 DEF Inv, TypeOK
<1>5. CallInv(w)'
  BY <1>1, <1>3, <1>4 DEF Inv, CallInv, Waiting
<1> QED
  BY <1>1, <1>2, <1>3, <1>5, OnlyMoves

LEMMA AskKeeps == ASSUME Inv, NEW w \in Workers, Ask(w) PROVE Inv'
<1> DEFINE e == [call[w] EXCEPT !.at = "asked"]
<1>1. /\ call[w].at = "greeted" /\ w \in Callers /\ w # Main
      /\ UNCHANGED << heap, stopped >> /\ made' \in 0 .. MaxCalls
  BY NativeAssumption DEF Ask, Inv, TypeOK, Callers
<1>2. call' = [call EXCEPT ![w] = e]
  BY DEF Ask, Move
<1>3. e \in Record /\ call'[w] = e
  BY <1>1, <1>2 DEF Inv, TypeOK, Record, CallStates
<1>4. e.at = "asked" /\ e.req = call[w].req /\ e.got = call[w].got
  BY <1>1 DEF Inv, TypeOK
<1>5. CallInv(w)'
  BY <1>1, <1>3, <1>4 DEF Inv, CallInv, Waiting
<1> QED
  BY <1>1, <1>2, <1>3, <1>5, OnlyMoves

LEMMA BeginKeeps == ASSUME Inv, NEW w \in Workers, Begin(w) PROVE Inv'
<1>1. /\ call[w].at = "asked" /\ w \in Callers /\ w # Main
      /\ UNCHANGED << heap, stopped >> /\ made' \in 0 .. MaxCalls
  BY NativeAssumption DEF Begin, Inv, TypeOK, Callers
<1>2. CASE Refused(call[w].req)
  <2> DEFINE e == [call[w] EXCEPT !.at = "replied", !.copy = Exception]
  <2>1. call' = [call EXCEPT ![w] = e]
    <3>1. call' = [call EXCEPT ![w].at = "replied", ![w].copy = Exception]
      BY <1>2 DEF Begin, SendException
    <3>2. [call EXCEPT ![w].at = "replied", ![w].copy = Exception] = [call EXCEPT ![w] = e]
      BY <1>1 DEF Inv, TypeOK
    <3> QED
      BY <3>1, <3>2
  <2>2. e \in Record /\ call'[w] = e
    BY <1>1, <2>1 DEF Inv, TypeOK, Record, CallStates
  <2>3. e.at = "replied" /\ e.copy = Exception /\ e.req = call[w].req /\ e.got = call[w].got
    BY <1>1 DEF Inv, TypeOK
  <2>4. CallInv(w)'
    BY <1>1, <1>2, <2>2, <2>3 DEF Inv, CallInv, Waiting
  <2> QED
    BY <1>1, <2>1, <2>2, <2>4, OnlyMoves
<1>3. CASE ~Refused(call[w].req)
  <2> DEFINE e == [call[w] EXCEPT !.at = "native"]
  <2>1. call' = [call EXCEPT ![w] = e]
    BY <1>3 DEF Begin, Move
  <2>2. e \in Record /\ call'[w] = e
    BY <1>1, <2>1 DEF Inv, TypeOK, Record, CallStates
  <2>3. e.at = "native" /\ e.req = call[w].req /\ e.got = call[w].got
    BY <1>1 DEF Inv, TypeOK
  <2>4. CallInv(w)'
    BY <1>1, <1>3, <2>2, <2>3 DEF Inv, CallInv, Waiting
  <2> QED
    BY <1>1, <2>1, <2>2, <2>4, OnlyMoves
<1> QED
  BY <1>2, <1>3
-----------------------------------------------------------------------------
(* The word that is compared with 1 says true only if the bool does.       *)
LEMMA VerdictIsResult ==
  ASSUME NEW r, ~Refused(r), IsVerdict(Answer(Passed(r)).out),
         NEW b \in Verdicts(Answer(Passed(r)))
  PROVE  Value(Verdict(b)) \in Results(r)
<1> DEFINE out == Answer(Passed(r)).out
<1>1. out # Panic /\ Verdict(TRUE).kind = "true" /\ Verdict(FALSE).kind = "false"
  BY DEF IsVerdict, Verdict, Panic, Outcome
<1>2. Results(r) = {Value(Verdict(FALSE)), Value(out)}
  BY <1>1 DEF Results
<1>3. PICK upper \in Upper : b = IsTrue(upper + (IF out.kind = "true" THEN 1 ELSE 0))
  BY DEF Verdicts
<1>4. CASE out = Verdict(TRUE)
  <2>1. b \in BOOLEAN
    BY <1>3 DEF IsTrue
  <2> QED
    BY <1>2, <1>4, <2>1
<1>5. CASE out = Verdict(FALSE)
  <2>1. out.kind # "true"
    BY <1>1, <1>5
  <2>2. upper + 0 # 1
    <3>1. upper \in Nat /\ upper % 256 = 0
      BY UpperAssumption
    <3>2. 1 % 256 = 1
      OBVIOUS
    <3> QED
      BY <3>1, <3>2
  <2>3. b = FALSE
    BY <1>3, <2>1, <2>2 DEF IsTrue
  <2> QED
    BY <1>2, <2>3
<1> QED
  BY <1>4, <1>5 DEF IsVerdict

LEMMA ComputeKeeps == ASSUME Inv, NEW c \in Callers, Compute(c) PROVE Inv'
<1> DEFINE r == call[c].req
           answer == Answer(Passed(r))
<1>1. /\ call[c].at = "native" /\ made' = made
      /\ r \in Asks /\ ~Refused(r) /\ call[c].got = NULL
  BY DEF Compute, Inv, CallInv, Waiting, Asks
<1>2. made' \in 0 .. MaxCalls
  BY <1>1 DEF Inv, TypeOK
<1>3. CASE answer.out = Panic
  <2>1. stopped' = r /\ UNCHANGED << call, heap >>
    <3>1. ~IsVerdict(answer.out)
      BY <1>3 DEF IsVerdict, Verdict, Panic, Outcome
    <3> QED
      BY <1>3, <3>1 DEF Compute
  <2>2. TypeOK'
    BY <1>1, <1>2, <2>1 DEF Inv, TypeOK
  <2>3. NothingLeft' /\ \A d \in Callers : CallInv(d)'
    BY <2>1 DEF Inv, NothingLeft, CallInv, Waiting, Reply
  <2> QED
    BY <2>2, <2>3 DEF Inv
<1>4. CASE answer.out # Panic /\ IsVerdict(answer.out)
  <2>1. PICK b \in Verdicts(answer) : Finish(c, "idle", Value(Verdict(b)))
    BY <1>4 DEF Compute
  <2>2. UNCHANGED << heap, stopped >>
    BY <1>4 DEF Compute
  <2> DEFINE e == At("idle", NULL, Value(Verdict(b)))
  <2>3. call' = [call EXCEPT ![c] = e]
    BY <2>1 DEF Finish
  <2>4. Value(Verdict(b)) \in Gots
    BY <1>1, <1>4, VerdictIsResult DEF Gots
  <2>5. e \in Record /\ call'[c] = e
    BY <2>3, <2>4 DEF At, Record, CallStates, Inv, TypeOK
  <2>6. CallInv(c)'
    BY <2>5 DEF CallInv, Waiting, At
  <2> QED
    BY <1>1, <1>2, <2>2, <2>3, <2>5, <2>6, OnlyMoves
<1>5. CASE answer.out # Panic /\ ~IsVerdict(answer.out)
  <2>1. PICK a \in get_ptr :
          /\ heap' = [heap EXCEPT ![a] = [owner |-> c, text |-> answer]]
          /\ call' = [call EXCEPT ![c] = Holding("written", @.req, a, NULL)]
          /\ UNCHANGED stopped
    BY <1>5 DEF Compute
  <2> DEFINE e == Holding("written", r, a, NULL)
  <2>2. a \in Addrs /\ heap[a].owner = NULL
    BY DEF get_ptr, Free
  <2>3. call' = [call EXCEPT ![c] = e]
    BY <2>1
  <2>4. e.at = "written" /\ e.addr = a /\ e.req = r /\ e.got = NULL
    BY DEF Holding
  <2>5. e \in Record /\ call'[c] = e
    <3>1. e \in Record
      BY <1>1, <2>2 DEF Holding, Record, CallStates, Gots
    <3> QED
      BY <2>3, <3>1 DEF Inv, TypeOK
  <2>6. answer \in Answers
    BY <1>1, Known
  <2>7. /\ heap' \in [Addrs -> [owner : Callers \cup {Lost, NULL}, text : Answers \cup {NULL}]]
        /\ heap'[a] = [owner |-> c, text |-> answer]
        /\ \A b \in Addrs \ {a} : heap'[b] = heap[b]
    BY <2>1, <2>2, <2>6 DEF Inv, TypeOK
  <2>8. c \notin {Lost, NULL}
    BY NativeAssumption
  <2>9. CallInv(c)'
    <3>1. call'[c].at = "written" /\ call'[c].addr = a /\ call'[c].req = r /\ call'[c].got = NULL
      BY <2>4, <2>5
    <3>2. call'[c].req \in IF c = Main THEN Requests ELSE WorkerRequests
      BY <1>1, <3>1 DEF Inv, CallInv, Waiting
    <3>3. Reply(c)' = answer
      BY <3>1 DEF Reply
    <3> QED
      BY <1>1, <1>5, <2>2, <2>7, <3>1, <3>2, <3>3 DEF CallInv, Waiting
  <2>10. NothingLeft'
    <3> SUFFICES ASSUME NEW b \in Addrs
                 PROVE  /\ heap'[b].owner \in Callers =>
                              /\ call'[heap'[b].owner].at \in {"written", "copied"}
                              /\ call'[heap'[b].owner].addr = b
                        /\ heap'[b].owner = Lost => heap'[b].text.fn = "sr25519_keypair_from_seed"
      BY DEF NothingLeft
    <3>1. CASE b = a
      <4>1. call'[c].at = "written" /\ call'[c].addr = a
        BY <2>4, <2>5
      <4>2. heap'[b].owner = c
        BY <2>7, <3>1
      <4> QED
        BY <2>8, <3>1, <4>1, <4>2
    <3>2. CASE b # a
      <4>1. heap'[b] = heap[b]
        BY <2>7, <3>2
      <4>2. heap[b].owner # c
        BY <1>1 DEF Inv, NothingLeft
      <4>3. heap[b].owner \in Callers => call'[heap[b].owner] = call[heap[b].owner]
        BY <2>3, <4>2 DEF Inv, TypeOK
      <4> QED
        BY <4>1, <4>3 DEF Inv, NothingLeft
    <3> QED
      BY <3>1, <3>2
  <2>11. /\ \A b \in Addrs : heap[b].owner \notin {c, NULL} => heap'[b] = heap[b]
         /\ stopped' \in Asks \cup {NULL}
    BY <2>1, <2>2, <2>7 DEF Inv, TypeOK
  <2> QED
    BY <1>2, <2>3, <2>5, <2>7, <2>9, <2>10, <2>11, OneMoves
<1> QED
  BY <1>3, <1>4, <1>5

LEMMA CopyKeeps == ASSUME Inv, NEW c \in Callers, Copy(c) PROVE Inv'
<1> DEFINE r == call[c].req
           text == heap[call[c].addr].text
           e == Holding("copied", r, call[c].addr, text)
<1>1. /\ call[c].at = "written" /\ UNCHANGED << heap, stopped, made >>
      /\ r \in Asks /\ ~Refused(r) /\ call[c].got = NULL /\ call[c].addr \in Addrs
      /\ heap[call[c].addr] = [owner |-> c, text |-> Reply(c)]
  BY DEF Copy, Inv, CallInv, Waiting, Asks
<1>2. call' = [call EXCEPT ![c] = e] /\ text = Reply(c)
  BY <1>1 DEF Copy
<1>3. /\ e.at = "copied" /\ e.addr = call[c].addr /\ e.req = r /\ e.got = NULL
      /\ e.copy = Reply(c)
  BY <1>2 DEF Holding
<1>4. e \in Record /\ call'[c] = e
  <2>1. text \in Answers
    BY <1>1, <1>2, Known DEF Reply
  <2>2. e \in Record
    BY <1>1, <2>1 DEF Holding, Record, CallStates, Gots
  <2> QED
    BY <1>2, <2>2 DEF Inv, TypeOK
<1>5. CallInv(c)'
  <2>1. /\ call'[c].at = "copied" /\ call'[c].addr = call[c].addr /\ call'[c].req = r
        /\ call'[c].got = NULL /\ call'[c].copy = Reply(c)
    BY <1>1, <1>3, <1>4
  <2>2. Reply(c)' = Reply(c)
    BY <2>1 DEF Reply
  <2> QED
    BY <1>1, <2>1, <2>2 DEF Inv, CallInv, Waiting
<1>6. e.at = "copied" /\ e.addr = call[c].addr /\ made' \in 0 .. MaxCalls
  BY <1>1, <1>3 DEF Inv, TypeOK
<1> QED
  BY <1>1, <1>2, <1>4, <1>5, <1>6, OnlyMoves

(* The result of a caller in "copied" is among those of its request.       *)
LEMMA CopyIsResult ==
  ASSUME Inv, NEW c \in Callers, call[c].at = "copied" \/ (call[c].at = "replied" /\ ~Refused(call[c].req))
  PROVE  /\ call[c].req \in Asks /\ call[c].copy # Exception
         /\ ThrowReturn(call[c].copy) \in Results(call[c].req)
<1>1. /\ call[c].req \in Asks /\ ~Refused(call[c].req) /\ call[c].copy = Reply(c)
      /\ Reply(c).out # Panic /\ ~IsVerdict(Reply(c).out)
  BY DEF Inv, CallInv, Waiting, Asks
<1>2. Results(call[c].req) = {IF Reply(c).out = Error THEN Throws ELSE Value(Reply(c))}
  BY <1>1 DEF Results, Reply
<1> QED
  BY <1>1, <1>2, AnswerIsNoException DEF ThrowReturn, Reply

LEMMA ReturnKeeps == ASSUME Inv, NEW c \in Callers, Return(c) PROVE Inv'
<1> DEFINE b == call[c].addr
<1>1. /\ call[c].at = "copied" /\ UNCHANGED << stopped, made >> /\ b \in Addrs
      /\ heap' = [heap EXCEPT ![b] = AfterCall(heap[b])]
      /\ heap[b] = [owner |-> c, text |-> Reply(c)]
  BY DEF Return, Inv, CallInv
<1>2. /\ heap' \in [Addrs -> [owner : Callers \cup {Lost, NULL}, text : Answers \cup {NULL}]]
      /\ heap'[b].owner \in {NULL, Lost}
      /\ heap'[b].owner = Lost => heap'[b].text.fn = "sr25519_keypair_from_seed"
      /\ \A a \in Addrs \ {b} : heap'[a] = heap[a]
  <2>1. CASE heap[b].text.fn = "sr25519_keypair_from_seed"
    <3>1. AfterCall(heap[b]) = [owner |-> Lost, text |-> Reply(c)]
      BY <1>1, <2>1 DEF AfterCall
    <3> QED
      BY <1>1, <2>1, <3>1 DEF Inv, TypeOK
  <2>2. CASE heap[b].text.fn # "sr25519_keypair_from_seed"
    <3>1. AfterCall(heap[b]) = [owner |-> NULL, text |-> NULL]
      BY <2>2 DEF AfterCall, FreeBlock
    <3> QED
      BY <1>1, <3>1, NativeAssumption DEF Inv, TypeOK
  <2> QED
    BY <2>1, <2>2
<1>3. \A a \in Addrs : heap[a].owner \notin {c, NULL} => heap'[a] = heap[a]
  BY <1>1, <1>2
<1>4. \A a \in Addrs \ {b} : heap[a].owner # c
  BY DEF Inv, NothingLeft
<1>5. PICK e \in Record :
        /\ call' = [call EXCEPT ![c] = e]
        /\ IF c = Main THEN e.at = "idle" ELSE e = [call[c] EXCEPT !.at = "replied"]
  <2>1. CASE c = Main
    <3> DEFINE f == At("idle", NULL, ThrowReturn(call[c].copy))
    <3>1. call' = [call EXCEPT ![c] = f]
      BY <2>1 DEF Return, Finish
    <3>2. ThrowReturn(call[c].copy) \in Gots
      BY <1>1, CopyIsResult DEF Gots
    <3>3. f \in Record /\ f.at = "idle"
      BY <3>2 DEF At, Record, CallStates
    <3> QED
      BY <2>1, <3>1, <3>3
  <2>2. CASE c # Main
    <3> DEFINE f == [call[c] EXCEPT !.at = "replied"]
    <3>1. call' = [call EXCEPT ![c] = f]
      BY <2>2 DEF Return, Move
    <3>2. f \in Record
      BY DEF Inv, TypeOK, Record, CallStates
    <3> QED
      BY <2>2, <3>1, <3>2
  <2> QED
    BY <2>1, <2>2
<1>6. call'[c] = e
  BY <1>5 DEF Inv, TypeOK
<1>7. CallInv(c)'
  <2>1. CASE c = Main
    BY <1>5, <1>6, <2>1 DEF CallInv, Waiting
  <2>2. CASE c # Main
    <3>1. /\ call'[c].at = "replied" /\ call'[c].req = call[c].req
          /\ call'[c].got = call[c].got /\ call'[c].copy = call[c].copy
      BY <1>5, <1>6, <2>2 DEF Inv, TypeOK
    <3>2. Reply(c)' = Reply(c)
      BY <3>1 DEF Reply
    <3> QED
      BY <1>1, <2>2, <3>1, <3>2 DEF Inv, CallInv, Waiting
  <2> QED
    BY <2>1, <2>2
<1>8. NothingLeft'
  <2> SUFFICES ASSUME NEW a \in Addrs
               PROVE  /\ heap'[a].owner \in Callers =>
                            /\ call'[heap'[a].owner].at \in {"written", "copied"}
                            /\ call'[heap'[a].owner].addr = a
                      /\ heap'[a].owner = Lost => heap'[a].text.fn = "sr25519_keypair_from_seed"
    BY DEF NothingLeft
  <2>1. CASE a = b
    BY <1>2, <2>1, NativeAssumption
  <2>2. CASE a # b
    <3>1. heap'[a] = heap[a] /\ heap[a].owner # c
      BY <1>2, <1>4, <2>2
    <3>2. heap[a].owner \in Callers => call'[heap[a].owner] = call[heap[a].owner]
      BY <1>5, <3>1 DEF Inv, TypeOK
    <3> QED
      BY <3>1, <3>2 DEF Inv, NothingLeft
  <2> QED
    BY <2>1, <2>2
<1>9. stopped' \in Asks \cup {NULL} /\ made' \in 0 .. MaxCalls
  BY <1>1 DEF Inv, TypeOK
<1> QED
  BY <1>2, <1>3, <1>5, <1>7, <1>8, <1>9, OneMoves

LEMMA ReceiveKeeps == ASSUME Inv, NEW w \in Workers, Receive(w) PROVE Inv'
<1> DEFINE got == IF call[w].copy = Exception THEN Value(Exception) ELSE ThrowReturn(call[w].copy)
           e == At("done", NULL, got)
<1>1. /\ call[w].at = "replied" /\ w \in Callers /\ w # Main
      /\ UNCHANGED << heap, stopped >> /\ made' \in 0 .. MaxCalls
  BY NativeAssumption DEF Receive, Inv, TypeOK, Callers
<1>2. call' = [call EXCEPT ![w] = e]
  BY DEF Receive, Finish
<1>3. got \in Results(call[w].req) /\ call[w].req \in Asks
  <2>1. CASE Refused(call[w].req)
    <3>1. call[w].copy = Exception /\ call[w].req \in WorkerRequests
      BY <1>1, <2>1 DEF Inv, CallInv, Waiting
    <3> QED
      BY <2>1, <3>1 DEF Results, Asks
  <2>2. CASE ~Refused(call[w].req)
    BY <1>1, <2>2, CopyIsResult
  <2> QED
    BY <2>1, <2>2
<1>4. e \in Record /\ call'[w] = e
  BY <1>1, <1>2, <1>3 DEF At, Record, CallStates, Gots, Inv, TypeOK
<1>5. CallInv(w)'
  BY <1>1, <1>4 DEF At, CallInv, Waiting
<1> QED
  BY <1>1, <1>2, <1>4, <1>5, OnlyMoves
-----------------------------------------------------------------------------
LEMMA StepKeeps == Inv /\ [Next]_vars => Inv'
<1> SUFFICES ASSUME Inv, [Next]_vars PROVE Inv'
  OBVIOUS
<1>1. CASE Call
  BY <1>1, CallKeeps
<1>2. ASSUME NEW c \in Callers, Step(c) PROVE Inv'
  BY <1>2, ComputeKeeps, CopyKeeps, ReturnKeeps DEF Step
<1>3. ASSUME NEW w \in Workers, Spawn(w) \/ WorkerStep(w) PROVE Inv'
  BY <1>3, SpawnKeeps, GreetKeeps, AskKeeps, BeginKeeps, ReceiveKeeps DEF WorkerStep
<1>4. CASE UNCHANGED vars
  BY <1>4 DEF vars, Inv, TypeOK, NothingLeft, CallInv, Waiting, Reply
<1> QED
  BY <1>1, <1>2, <1>3, <1>4 DEF Next

(* Every reachable state has the invariant.                                *)
THEOREM AlwaysInv == Spec => []Inv
<1> QED
  BY InitInv, StepKeeps, PTL DEF Spec

(* The state is of its types.                                              *)
THEOREM NativeTypes == Spec => []TypeOK
<1>1. Inv => TypeOK
  BY DEF Inv
<1> QED
  BY <1>1, AlwaysInv, PTL

(* Whatever the isolates do between the steps of a call, its result stays  *)
(* in a block of its own, holding the answer to it, until it is freed; and  *)
(* nothing stays on the heap but the results of sr25519KeypairFromSeed.     *)
THEOREM NothingMixedUp == Spec => []BlocksKept
<1>1. Inv => BlocksKept
  BY DEF Inv, BlocksKept, OwnBlock, CallInv, Reply
<1> QED
  BY <1>1, AlwaysInv, PTL
-----------------------------------------------------------------------------
(* The refinement.                                                         *)

asked  == [c \in Callers |-> IF Waiting(c) THEN call[c].req ELSE NULL]
result == [c \in Callers |-> call[c].got]

LEMMA PromiseInit == Init => Promise!Init
<1> SUFFICES ASSUME Init PROVE Promise!Init
  OBVIOUS
<1>1. \A c \in Callers : ~Waiting(c) /\ call[c].got = NULL
  BY DEF Init, Idle, At, Waiting
<1> QED
  BY <1>1 DEF Init, Promise!Init

(* What a step on the record of one caller shows of itself.                *)
LEMMA Shown ==
  ASSUME Inv, NEW c \in Callers, NEW e,
         call' = [call EXCEPT ![c] = e]
  PROVE  /\ asked' = [asked EXCEPT ![c] = IF e.at \notin {"idle", "done"} THEN e.req ELSE NULL]
         /\ result' = [result EXCEPT ![c] = e.got]
         /\ asked[c] = IF Waiting(c) THEN call[c].req ELSE NULL
<1>1. DOMAIN call = Callers
  BY DEF Inv, TypeOK
<1>2. call'[c] = e /\ \A d \in Callers \ {c} : call'[d] = call[d]
  BY <1>1
<1>3. \A d \in Callers \ {c} : asked'[d] = asked[d] /\ result'[d] = result[d]
  BY <1>2 DEF asked, result, Waiting
<1>4. /\ asked'[c] = IF e.at \notin {"idle", "done"} THEN e.req ELSE NULL
      /\ result'[c] = e.got
  BY <1>2 DEF asked, result, Waiting
<1> QED
  BY <1>3, <1>4, ZenonT(60) DEF asked, result

(* Steps in the middle of a call show nothing.                             *)
LEMMA Hidden ==
  ASSUME Inv, NEW c \in Callers, NEW e, call' = [call EXCEPT ![c] = e],
         Waiting(c), e.at \notin {"idle", "done"}, e.req = call[c].req, e.got = NULL,
         UNCHANGED stopped
  PROVE  UNCHANGED Promise!vars
<1>1. call[c].got = NULL
  BY DEF Inv, CallInv
<1>2. asked' = asked /\ result' = result
  <2>1. /\ asked' = [asked EXCEPT ![c] = call[c].req]
        /\ result' = [result EXCEPT ![c] = NULL]
        /\ asked[c] = call[c].req
    BY Shown
  <2>2. asked' = asked
    BY <2>1 DEF asked
  <2>3. result[c] = NULL
    BY <1>1 DEF result
  <2>4. result' = result
    BY <2>1, <2>3 DEF result
  <2> QED
    BY <2>2, <2>4
<1> QED
  BY <1>2 DEF Promise!vars, asked, result

(* The end of a call is its answer.                                        *)
LEMMA Ending ==
  ASSUME Inv, NEW c \in Callers, Waiting(c), NEW at \in {"idle", "done"},
         NEW x \in Results(call[c].req), Finish(c, at, x), UNCHANGED stopped
  PROVE  Promise!Answered(c)
<1> DEFINE e == At(at, NULL, x)
<1>1. call' = [call EXCEPT ![c] = e] /\ e.at = at /\ e.got = x
  BY DEF Finish, At
<1>2. /\ asked' = [asked EXCEPT ![c] = NULL]
      /\ result' = [result EXCEPT ![c] = x]
      /\ asked[c] = call[c].req
  BY <1>1, Shown, ZenonT(60)
<1>3. call[c].req # NULL
  <2>1. call[c].req \in Requests \cup WorkerRequests
    BY DEF Inv, CallInv
  <2> QED
    BY <2>1, NativeAssumption
<1> QED
  BY <1>2, <1>3 DEF Promise!Answered, asked, result

LEMMA CallShows == Inv /\ Call => Promise!Refused(Main) \/ Promise!Ask(Main)
<1> SUFFICES ASSUME Inv, Call PROVE Promise!Refused(Main) \/ Promise!Ask(Main)
  OBVIOUS
<1>1. PICK r \in Requests :
        IF Refused(r) THEN Finish(Main, "idle", Throws)
        ELSE call' = [call EXCEPT ![Main] = At("native", r, NULL)]
  BY DEF Call
<1>2. Main \in Callers /\ UNCHANGED stopped /\ ~Waiting(Main)
  BY DEF Call, MainIdle, Callers, Waiting
<1>3. asked[Main] = NULL
  BY <1>2 DEF asked
<1>4. CASE Refused(r)
  <2> DEFINE e == At("idle", NULL, Throws)
  <2>1. call' = [call EXCEPT ![Main] = e] /\ e.at = "idle" /\ e.got = Throws
    BY <1>1, <1>4 DEF Finish, At
  <2>2. asked' = [asked EXCEPT ![Main] = NULL] /\ result' = [result EXCEPT ![Main] = Throws]
    BY <1>2, <2>1, Shown
  <2>3. asked' = asked
    BY <1>3, <2>2 DEF asked
  <2> QED
    BY <1>2, <1>3, <2>2, <2>3 DEF Promise!Refused, asked, result
<1>5. CASE ~Refused(r)
  <2> DEFINE e == At("native", r, NULL)
  <2>1. call' = [call EXCEPT ![Main] = e] /\ e.at = "native" /\ e.got = NULL /\ e.req = r
    BY <1>1, <1>5 DEF At
  <2>2. asked' = [asked EXCEPT ![Main] = r] /\ result' = [result EXCEPT ![Main] = NULL]
    BY <1>2, <2>1, Shown
  <2>3. r \in Asks /\ asked'[Main] = r
    BY <1>2, <2>2 DEF Asks, asked
  <2> QED
    BY <1>2, <1>3, <2>2, <2>3 DEF Promise!Ask, asked, result
<1> QED
  BY <1>4, <1>5

LEMMA SpawnShows == ASSUME Inv, NEW w \in Workers, Spawn(w) PROVE Promise!Ask(w)
<1>1. PICK r \in WorkerRequests : call' = [call EXCEPT ![w] = At("spawned", r, NULL)]
  BY DEF Spawn
<1> DEFINE e == At("spawned", r, NULL)
<1>2. w \in Callers /\ UNCHANGED stopped /\ ~Waiting(w)
  BY DEF Spawn, Callers, Waiting
<1>3. asked[w] = NULL
  BY <1>2 DEF asked
<1>4. e.at = "spawned" /\ e.got = NULL /\ e.req = r
  BY DEF At
<1>5. asked' = [asked EXCEPT ![w] = r] /\ result' = [result EXCEPT ![w] = NULL]
  BY <1>1, <1>2, <1>4, Shown
<1>6. r \in Asks /\ asked'[w] = r
  BY <1>2, <1>5 DEF Asks, asked
<1> QED
  BY <1>2, <1>3, <1>5, <1>6 DEF Promise!Ask, asked, result

LEMMA WorkerShows ==
  ASSUME Inv, NEW w \in Workers, WorkerStep(w)
  PROVE  Promise!Answered(w) \/ UNCHANGED Promise!vars
<1>1. w \in Callers /\ w # Main /\ call[w] \in Record
  BY NativeAssumption DEF Callers, Inv, TypeOK, Record
<1>2. UNCHANGED stopped
  BY DEF WorkerStep, Greet, Ask, Begin, Receive
<1>3. ASSUME NEW at \in {"greeted", "asked", "native"}, Waiting(w), Move(w, at)
      PROVE  UNCHANGED Promise!vars
  <2> DEFINE e == [call[w] EXCEPT !.at = at]
  <2>1. call[w].got = NULL
    BY <1>1, <1>3 DEF Inv, CallInv
  <2>2. call' = [call EXCEPT ![w] = e]
    BY <1>3 DEF Move
  <2>3. e.at = at /\ e.req = call[w].req /\ e.got = NULL
    BY <1>1, <2>1 DEF Record
  <2>4. e.at \notin {"idle", "done"}
    BY <2>3
  <2> QED
    BY <1>1, <1>2, <1>3, <2>2, <2>3, <2>4, Hidden
<1>4. CASE Greet(w)
  BY <1>3, <1>4 DEF Greet, Waiting
<1>5. CASE Ask(w)
  BY <1>3, <1>5 DEF Ask, Waiting
<1>6. CASE Begin(w)
  <2>1. Waiting(w)
    BY <1>6 DEF Begin, Waiting
  <2>2. CASE Refused(call[w].req)
    <3> DEFINE e == [call[w] EXCEPT !.at = "replied", !.copy = Exception]
    <3>1. call' = [call EXCEPT ![w] = e]
      <4>1. call' = [call EXCEPT ![w].at = "replied", ![w].copy = Exception]
        BY <1>6, <2>2 DEF Begin, SendException
      <4>2. [call EXCEPT ![w].at = "replied", ![w].copy = Exception] = [call EXCEPT ![w] = e]
        BY <1>1 DEF Inv, TypeOK
      <4> QED
        BY <4>1, <4>2
    <3>2. call[w].got = NULL
      BY <1>1, <2>1 DEF Inv, CallInv
    <3>3. e.at = "replied" /\ e.req = call[w].req /\ e.got = NULL
      BY <1>1, <3>2 DEF Record
    <3>4. e.at \notin {"idle", "done"}
      BY <3>3
    <3> QED
      BY <1>1, <1>2, <2>1, <3>1, <3>3, <3>4, Hidden
  <2>3. CASE ~Refused(call[w].req)
    BY <1>3, <1>6, <2>1, <2>3 DEF Begin
  <2> QED
    BY <2>2, <2>3
<1>7. CASE Receive(w)
  <2> DEFINE got == IF call[w].copy = Exception THEN Value(Exception) ELSE ThrowReturn(call[w].copy)
  <2>1. call[w].at = "replied" /\ Waiting(w) /\ Finish(w, "done", got)
    BY <1>7 DEF Receive, Waiting
  <2>2. got \in Results(call[w].req)
    <3>1. CASE Refused(call[w].req)
      <4>1. call[w].copy = Exception /\ call[w].req \in WorkerRequests
        BY <1>1, <2>1, <3>1 DEF Inv, CallInv
      <4> QED
        BY <3>1, <4>1 DEF Results
    <3>2. CASE ~Refused(call[w].req)
      BY <1>1, <2>1, <3>2, CopyIsResult
    <3> QED
      BY <3>1, <3>2
  <2> QED
    BY <1>1, <1>2, <2>1, <2>2, Ending
<1> QED
  BY <1>4, <1>5, <1>6, <1>7 DEF WorkerStep

LEMMA StepShows ==
  ASSUME Inv, stopped = NULL, NEW c \in Callers, Step(c)
  PROVE  Promise!Stop(c) \/ Promise!Answered(c) \/ UNCHANGED Promise!vars
<1> DEFINE r == call[c].req
           answer == Answer(Passed(r))
<1>1. /\ call[c].at \in {"native", "written", "copied"} /\ Waiting(c)
      /\ r \in Asks /\ ~Refused(r) /\ call[c].got = NULL /\ r # NULL
  <2>1. call[c].at \in {"native", "written", "copied"} /\ Waiting(c)
    BY DEF Step, Compute, Copy, Return, Waiting
  <2>2. r \in Asks /\ ~Refused(r) /\ call[c].got = NULL
    BY <2>1 DEF Inv, CallInv, Asks
  <2> QED
    BY <2>1, <2>2, NativeAssumption DEF Asks
<1>2. CASE Compute(c)
  <2>1. CASE answer.out = Panic
    <3>1. ~IsVerdict(answer.out)
      BY <2>1 DEF IsVerdict, Verdict, Panic, Outcome
    <3>2. stopped' = r /\ UNCHANGED call
      BY <1>2, <2>1, <3>1 DEF Compute
    <3>3. UNCHANGED << asked, result >>
      BY <3>2 DEF asked, result, Waiting
    <3>4. asked[c] = r
      BY <1>1 DEF asked
    <3>5. Stops(r)
      BY <1>1, <2>1 DEF Stops
    <3>6. (stopped' = NULL) = FALSE
      BY <1>1, <3>2
    <3> QED
      BY <1>1, <3>3, <3>4, <3>5, <3>6 DEF Promise!Stop, asked, result
  <2>2. CASE answer.out # Panic /\ IsVerdict(answer.out)
    <3>1. PICK b \in Verdicts(answer) : Finish(c, "idle", Value(Verdict(b)))
      BY <1>2, <2>2 DEF Compute
    <3>2. Value(Verdict(b)) \in Results(r)
      BY <1>1, <2>2, VerdictIsResult
    <3>3. UNCHANGED stopped
      BY <1>2, <2>2 DEF Compute
    <3> QED
      BY <1>1, <3>1, <3>2, <3>3, Ending
  <2>3. CASE answer.out # Panic /\ ~IsVerdict(answer.out)
    <3>1. PICK a \in get_ptr : call' = [call EXCEPT ![c] = Holding("written", r, a, NULL)]
      BY <1>2, <2>3 DEF Compute
    <3>2. UNCHANGED stopped
      BY <1>2, <2>3 DEF Compute
    <3> DEFINE e == Holding("written", r, a, NULL)
    <3>3. e.at \notin {"idle", "done"} /\ e.req = r /\ e.got = NULL
      BY DEF Holding
    <3> QED
      BY <1>1, <3>1, <3>2, <3>3, Hidden
  <2> QED
    BY <2>1, <2>2, <2>3
<1>3. CASE Copy(c)
  <2> DEFINE e == Holding("copied", r, call[c].addr, heap[call[c].addr].text)
  <2>1. call' = [call EXCEPT ![c] = e] /\ UNCHANGED stopped
    BY <1>3 DEF Copy
  <2>2. e.at \notin {"idle", "done"} /\ e.req = r /\ e.got = NULL
    BY DEF Holding
  <2> QED
    BY <1>1, <2>1, <2>2, Hidden
<1>4. CASE Return(c)
  <2>1. UNCHANGED stopped /\ call[c].at = "copied"
    BY <1>4 DEF Return
  <2>2. CASE c = Main
    <3>1. Finish(c, "idle", ThrowReturn(call[c].copy))
      BY <1>4, <2>2 DEF Return
    <3>2. ThrowReturn(call[c].copy) \in Results(r)
      BY <2>1, CopyIsResult
    <3> QED
      BY <1>1, <2>1, <3>1, <3>2, Ending
  <2>3. CASE c # Main
    <3> DEFINE e == [call[c] EXCEPT !.at = "replied"]
    <3>1. call' = [call EXCEPT ![c] = e]
      BY <1>4, <2>3 DEF Return, Move
    <3>2. e.at = "replied" /\ e.req = r /\ e.got = NULL
      BY <1>1 DEF Inv, TypeOK
    <3>3. e.at \notin {"idle", "done"}
      BY <3>2
    <3> QED
      BY <1>1, <2>1, <3>1, <3>2, <3>3, Hidden
  <2> QED
    BY <2>2, <2>3
<1> QED
  BY <1>2, <1>3, <1>4 DEF Step

LEMMA NextShows == Inv /\ [Next]_vars => [Promise!Next]_Promise!vars
<1> SUFFICES ASSUME Inv, [Next]_vars PROVE [Promise!Next]_Promise!vars
  OBVIOUS
<1>1. CASE UNCHANGED vars
  BY <1>1 DEF vars, Promise!vars, Waiting
<1>2. CASE Next
  <2>1. stopped = NULL
    BY <1>2 DEF Next
  <2>2. CASE Call
    BY <2>1, <2>2, CallShows DEF Promise!Next, Callers
  <2>3. ASSUME NEW c \in Callers, Step(c) PROVE [Promise!Next]_Promise!vars
    BY <2>1, <2>3, StepShows DEF Promise!Next
  <2>4. ASSUME NEW w \in Workers, Spawn(w) \/ WorkerStep(w) PROVE [Promise!Next]_Promise!vars
    BY <2>1, <2>4, SpawnShows, WorkerShows DEF Promise!Next, Callers
  <2> QED
    BY <1>2, <2>2, <2>3, <2>4 DEF Next
<1> QED
  BY <1>1, <1>2

(* What the isolates do with the heap implements NativePromise.tla: each    *)
(* caller is answered once, with a result of what it asked for, or the      *)
(* process stops, and on nothing but a request the library panics on.       *)
THEOREM KeptPromise == Spec => KeepsPromise
<1> QED
  BY PromiseInit, NextShows, AlwaysInv, PTL DEF Spec, KeepsPromise, Promise!Spec
-----------------------------------------------------------------------------
(* What the process stops on.                                              *)

StoppedOnPanic == stopped # NULL => stopped \in Asks /\ Stops(stopped)

LEMMA StoppedKeeps == Inv /\ StoppedOnPanic /\ [Next]_vars => StoppedOnPanic'
<1> SUFFICES ASSUME Inv, StoppedOnPanic, [Next]_vars, stopped' # stopped
             PROVE  stopped' \in Asks /\ Stops(stopped')
  BY DEF StoppedOnPanic
<1>1. PICK c \in Callers : Compute(c)
  BY DEF Next, vars, Call, Step, Copy, Return, Spawn, WorkerStep, Greet, Ask, Begin, Receive
<1> DEFINE r == call[c].req
           answer == Answer(Passed(r))
<1>2. r \in Asks /\ ~Refused(r)
  BY <1>1 DEF Compute, Inv, CallInv, Waiting, Asks
<1>3. answer.out = Panic
  BY <1>1 DEF Compute
<1>4. ~IsVerdict(answer.out)
  BY <1>3 DEF IsVerdict, Verdict, Panic, Outcome
<1>5. stopped' = r
  BY <1>1, <1>3, <1>4 DEF Compute
<1> QED
  BY <1>2, <1>3, <1>5 DEF Stops

(* What is passed is what was asked, but for texts turned into hex.        *)
LEMMA PassedOn ==
  ASSUME NEW r \in Asks
  PROVE  /\ Passed(r).fn = r.fn /\ Passed(r).nums = r.nums
         /\ DOMAIN Passed(r).texts = DOMAIN r.texts
         /\ \A i \in DOMAIN r.texts : /\ Passed(r).texts[i].len = r.texts[i].len
                                      /\ Passed(r).texts[i].good = r.texts[i].good
                                      /\ Passed(r).texts[i].good \in BOOLEAN
                                      /\ IsU8vec(r.texts[i]) => IsU8vec(Passed(r).texts[i])
<1> DEFINE Text(i) == IF Parameters(r.fn)[i] = "text" THEN [r.texts[i] EXCEPT !.kind = "hex"]
                      ELSE r.texts[i]
<1>1. DOMAIN r = {"fn", "texts", "nums"}
  BY RequestAssumption DEF Asks
<1>2. Passed(r) = [r EXCEPT !.texts = [i \in DOMAIN r.texts |-> Text(i)]]
  BY DEF Passed
<1>3. ASSUME NEW i \in DOMAIN r.texts
      PROVE  /\ Text(i).len = r.texts[i].len /\ Text(i).good = r.texts[i].good
             /\ Text(i).good \in BOOLEAN
             /\ IsU8vec(r.texts[i]) => IsU8vec(Text(i))
  <2>1. DOMAIN r.texts[i] = {"kind", "len", "good", "v"} /\ r.texts[i].good \in BOOLEAN
    BY RequestAssumption DEF Asks
  <2> QED
    BY <2>1 DEF IsU8vec
<1>4. /\ Passed(r).fn = r.fn /\ Passed(r).nums = r.nums
      /\ Passed(r).texts = [i \in DOMAIN r.texts |-> Text(i)]
  BY <1>1, <1>2
<1> HIDE DEF Text
<1>5. /\ DOMAIN Passed(r).texts = DOMAIN r.texts
      /\ \A i \in DOMAIN r.texts : Passed(r).texts[i] = Text(i)
  BY <1>4
<1>6. ASSUME NEW i \in DOMAIN r.texts
      PROVE  /\ Passed(r).texts[i].len = r.texts[i].len
             /\ Passed(r).texts[i].good = r.texts[i].good
             /\ Passed(r).texts[i].good \in BOOLEAN
             /\ IsU8vec(r.texts[i]) => IsU8vec(Passed(r).texts[i])
  <2>1. Passed(r).texts[i] = Text(i)
    BY <1>5
  <2> QED
    BY <1>3, <2>1
<1> QED
  BY <1>4, <1>5, <1>6

LEMMA Outcomes ==
  /\ \A b \in BOOLEAN : Verdict(b) # Panic
  /\ Error # Panic
  /\ \A n : Unwrapped(TRUE, n) # Panic
  /\ \A n : Unwrapped(FALSE, n) = Panic
BY DEF Verdict, Panic, Error, Outcome, Unwrapped

LEMMA PhrasesAreSafe ==
  ASSUME NEW c, c.fn \in Tried, c.texts[1].good \in BOOLEAN
  PROVE  Export(c) # Panic
<1> DEFINE t == c.texts[1]
<1>1. Export(c) = Bip39Export(c)
  BY DEF Tried, Export, Bip39Fns, HashFns, EdFns, SrFns
<1>2. CASE c.fn = "bip39_validate"
  BY <1>1, <1>2, Outcomes DEF Bip39Export, ext_bip39_validate
<1>3. \A n : IfValid(t, Unwrapped(t.good, n)) # Panic
  BY Outcomes DEF IfValid, ext_bip39_validate
<1>4. CASE c.fn = "bip39_to_entropy"
  <2>1. Bip39Export(c) = IfValid(t, Unwrapped(t.good, 16))
    BY <1>4 DEF Bip39Export, ext_bip39_to_entropy
  <2> QED
    BY <1>1, <1>3, <2>1
<1>5. CASE c.fn = "bip39_to_mini_secret"
  <2>1. Bip39Export(c) = IfValid(t, Unwrapped(t.good, 32))
    BY <1>5 DEF Bip39Export, ext_bip39_to_mini_secret
  <2> QED
    BY <1>1, <1>3, <2>1
<1>6. CASE c.fn = "bip39_to_seed"
  <2>1. Bip39Export(c) = IfValid(t, Unwrapped(t.good, 32))
    BY <1>6 DEF Bip39Export, ext_bip39_to_seed
  <2> QED
    BY <1>1, <1>3, <2>1
<1> QED
  BY <1>2, <1>4, <1>5, <1>6 DEF Tried

LEMMA VerifyingIsSafe ==
  ASSUME NEW c, c.fn \in Verifying, Export(c) = Panic
  PROVE  \/ ~AllU8vecs(c)
         \/ c.fn = "ed25519_verify" /\ Bytes(c.texts[1], 64) /\ ~create_public(c.texts[3])
<1> SUFFICES ASSUME AllU8vecs(c)
             PROVE  c.fn = "ed25519_verify" /\ Bytes(c.texts[1], 64) /\ ~create_public(c.texts[3])
  OBVIOUS
<1> DEFINE t == c.texts
<1>1. CASE c.fn = "sr25519_verify"
  <2>1. Export(c) = ext_sr_verify(t[1], t[2], t[3])
    BY <1>1 DEF SrExport, Export, Bip39Fns, HashFns, EdFns, SrFns
  <2>2. Export(c) \in {Verdict(TRUE), Verdict(FALSE)}
    BY <2>1 DEF ext_sr_verify, Verdict
  <2> QED
    BY <2>2, Outcomes
<1>2. CASE c.fn = "ed25519_verify"
  <2>1. Export(c) = ext_ed_verify(t[1], t[2], t[3])
    BY <1>2 DEF EdExport, Export, Bip39Fns, HashFns, EdFns, SrFns
  <2>2. ASSUME ~Bytes(t[1], 64) \/ create_public(t[3])
        PROVE  Export(c) \in {Verdict(FALSE), Verdict(t[2].good)}
    BY <2>1, <2>2 DEF ext_ed_verify
  <2>3. \A b : Verdict(b) # Panic
    BY DEF Verdict, Panic, Outcome
  <2> QED
    BY <1>2, <2>2, <2>3
<1> QED
  BY <1>1, <1>2 DEF Verifying

(* Of the texts that a verification does not refuse, only "odd" is no hex. *)
LEMMA OnlyOddIsNoHex ==
  ASSUME NEW r \in Asks, r.fn \in Verifying, ~Refused(r), ~AllU8vecs(Passed(r))
  PROVE  \E i \in DOMAIN r.texts : r.texts[i].kind = "odd"
<1>1. DOMAIN r.texts = 1 .. 3 /\ \A i \in DOMAIN r.texts : r.texts[i].kind \in Kinds
  <2>1. r.fn \in DOMAIN Documented /\ DOMAIN Documented[r.fn] = 1 .. 3
    BY DEF Verifying, Documented
  <2> QED
    BY <2>1, RequestAssumption DEF Asks
<1>2. Parameters(r.fn) = << "hex", "hex", "hex" >>
  BY DEF Parameters, Verifying
<1>3. \A i \in 1 .. 3 : Parameters(r.fn)[i] = "hex"
  BY <1>2
<1>4. PICK i \in DOMAIN r.texts : r.texts[i].kind # "hex"
  BY <1>1, <1>3, PassedOn DEF AllU8vecs, IsU8vec
<1>5. r.texts[i].kind \notin {"null", "plain"}
  BY <1>1, <1>3, <1>4 DEF Refused
<1> QED
  BY <1>1, <1>4, <1>5 DEF Kinds

LEMMA AlwaysStoppedOnPanic == Spec => []StoppedOnPanic
<1>1. Init => StoppedOnPanic
  BY DEF Init, StoppedOnPanic
<1> QED
  BY <1>1, StoppedKeeps, AlwaysInv, PTL DEF Spec

(* No phrase that is tried stops the process, and a signature only with a   *)
(* text that isHexString lets pass and is no bytes in hex (is.dart:53-56,   *)
(* util.rs:19-25) or, for ed25519_verify, when the signature is well formed *)
(* and the public key is none (ed25519.rs:34-39, 75-83).                    *)
THEOREM AlwaysSafeToTry == Spec => []TryingIsSafe
<1>1. StoppedOnPanic => TryingIsSafe
  <2> SUFFICES ASSUME StoppedOnPanic, stopped # NULL PROVE TryingIsSafe
    BY DEF TryingIsSafe
  <2>1. stopped \in Asks /\ ~Refused(stopped) /\ Answer(Passed(stopped)).out = Panic
    BY DEF StoppedOnPanic, Stops
  <2> DEFINE c == Passed(stopped)
  <2>2. Export(c) = Panic /\ c.fn = stopped.fn
    BY <2>1, PassedOn DEF Answer
  <2>3. stopped.fn \notin Tried
    <3> SUFFICES ASSUME stopped.fn \in Tried PROVE FALSE
      OBVIOUS
    <3>1. 1 \in DOMAIN stopped.texts
      BY <2>1, RequestAssumption DEF Asks
    <3>2. c.texts[1].good \in BOOLEAN
      BY <2>1, <3>1, PassedOn
    <3> QED
      BY <2>2, <3>2, PhrasesAreSafe
  <2>4. ASSUME stopped.fn \in Verifying
        PROVE  \/ \E i \in DOMAIN stopped.texts : stopped.texts[i].kind = "odd"
               \/ /\ stopped.fn = "ed25519_verify"
                  /\ Bytes(stopped.texts[1], 64) /\ ~create_public(stopped.texts[3])
    <3>1. 1 \in DOMAIN stopped.texts /\ 3 \in DOMAIN stopped.texts
      BY <2>1, <2>4, RequestAssumption DEF Asks, Documented, Verifying
    <3>2. /\ Bytes(c.texts[1], 64) <=> Bytes(stopped.texts[1], 64)
          /\ create_public(c.texts[3]) <=> create_public(stopped.texts[3])
      BY <2>1, <3>1, PassedOn DEF Bytes, create_public
    <3> QED
      BY <2>1, <2>2, <2>4, <3>2, VerifyingIsSafe, OnlyOddIsNoHex
  <2> QED
    BY <2>3, <2>4 DEF TryingIsSafe
<1> QED
  BY <1>1, AlwaysStoppedOnPanic, PTL
=============================================================================
