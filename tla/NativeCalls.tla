----------------------------- MODULE NativeCalls -----------------------------
(***************************************************************************)
(* How lib/crypto/common.dart calls the native library: through C strings  *)
(* on a heap that all isolates of the process share.                       *)
(*                                                                         *)
(* The main isolate calls most functions itself and does nothing else      *)
(* until it has its answer.  pbkdf2, scrypt and twox spawn an isolate each *)
(* (a worker), which runs beside it, and their caller waits for messages;  *)
(* the main isolate receives one only when it is in no call.  The steps of *)
(* a call, each with those of the others in between:                       *)
(*   "native"   the library works on the arguments                         *)
(*   "written"  it has returned a pointer to its result                    *)
(*   "copied"   Dart has made a string of it, and has still to free it     *)
(* A worker is "spawned", has "greeted" its caller, is "asked", goes       *)
(* through the steps of the call, and has "replied"; its call is "done"    *)
(* when the reply is received.  It is never told to exit.                  *)
(*                                                                         *)
(* Arguments are copied to the heap by Dart and never freed: no later      *)
(* block overlaps them and they are left out.                              *)
(***************************************************************************)
EXTENDS NativeLibrary, FiniteSets

CONSTANTS
  Requests,        \* what the main isolate may call itself
  WorkerRequests,  \* what it may spawn workers for
  Workers,
  Main,            \* the main isolate
  Addrs,           \* addresses of the heap
  Upper,           \* what may be in the word of a bool, above its byte
  MaxCalls,        \* bound: calls made
  NULL

Callers == Workers \cup {Main}
Lost == "lost"   \* the owner of a block that nobody will free

ASSUME NativeAssumption ==
  /\ IsFiniteSet(Addrs) /\ Main \notin Workers
  /\ {NULL, Lost} \cap Callers = {} /\ NULL # Lost
  /\ NULL \notin Requests \cup WorkerRequests
  /\ MaxCalls \in Nat
ASSUME WorkerAssumption ==
  \A r \in WorkerRequests : r \notin Requests /\ r.fn \in {"pbkdf2", "scrypt", "twox"}
ASSUME UpperAssumption == \A u \in Upper : u \in Nat /\ u % 256 = 0

VARIABLES
  call,     \* of each caller: where it is, its request, where the result is,
            \* the copy of the result, and what the last call came to
  heap,     \* of each address: whose block it is, if any, and what is in it
  stopped,  \* the request that panicked, and ended the process
  made      \* calls made

vars == << call, heap, stopped, made >>

-----------------------------------------------------------------------------
(* Arguments.                                                              *)

(* How each parameter goes: "hex" is tested by isHexString, which lets an  *)
(* odd number of digits pass, and a 0X before them, which nobody strips    *)
(* and which makes the text no hex to the library ("odd" stands for both); *)
(* "text" is turned into hex; "utf8" is passed as it is.                   *)
Parameters(fn) ==
  CASE fn \in {"bip39_validate", "bip39_to_entropy"}  -> << "utf8" >>
    [] fn \in {"bip39_to_mini_secret", "bip39_to_seed"} -> << "utf8", "utf8" >>
    [] fn \in {"sha512", "xxhash64", "twox"} -> << "text" >>
    [] fn \in {"pbkdf2", "scrypt"}      -> << "text", "text" >>
    [] fn = "blake2b"                   -> << "hex", "text" >>
    [] fn = "bip32_get_private_key"     -> << "hex", "utf8" >>
    [] OTHER                            -> << "hex", "hex", "hex" >>

Refused(r) ==
  \E i \in DOMAIN r.texts :
    \/ r.texts[i].kind = "null"
    \/ r.texts[i].kind = "plain" /\ Parameters(r.fn)[i] = "hex"

(* The C strings that are passed. *)
Passed(r) ==
  [r EXCEPT !.texts = [i \in DOMAIN r.texts |->
     IF Parameters(r.fn)[i] = "text" THEN [r.texts[i] EXCEPT !.kind = "hex"] ELSE r.texts[i]]]
-----------------------------------------------------------------------------
(* Results.                                                                *)

Throws == [how |-> "throws", what |-> NULL]
Value(x) == [how |-> "value", what |-> x]

(* Names that end in Slip are what a slip in the code would make of the    *)
(* definition after them; no specification uses one.                       *)

(* throwReturn *)
NeverThrownSlip(answer) == Value(answer)
ThrowReturn(answer) == IF answer.out = Error THEN Throws ELSE Value(answer)

(* What a worker's exception comes to: sent as the result, it becomes the  *)
(* text of the result.                                                     *)
Exception == Outcome("exception", 0)

(* The results a request may have.  The word that is compared with 1 may   *)
(* hold more than the bool.                                                *)
Results(r) ==
  LET answer == Answer(Passed(r))
  IN  IF Refused(r) THEN {IF r \in WorkerRequests THEN Value(Exception) ELSE Throws}
      ELSE IF answer.out = Panic THEN {}
      ELSE IF IsVerdict(answer.out) THEN {Value(Verdict(FALSE)), Value(answer.out)}
      ELSE {IF answer.out = Error THEN Throws ELSE Value(answer)}

Stops(r) == ~Refused(r) /\ Answer(Passed(r)).out = Panic
-----------------------------------------------------------------------------
FreeBlock == [owner |-> NULL, text |-> NULL]
At(at, r, x) == [at |-> at, req |-> r, addr |-> NULL, copy |-> NULL, got |-> x]
Holding(at, r, a, copy) == [at |-> at, req |-> r, addr |-> a, copy |-> copy, got |-> NULL]
Idle == At("idle", NULL, NULL)

Init ==
  /\ call = [c \in Callers |-> Idle]
  /\ heap = [a \in Addrs |-> FreeBlock]
  /\ stopped = NULL
  /\ made = 0

Free == {a \in Addrs : heap[a].owner = NULL}
MainIdle == call[Main].at = "idle"

Calls == made < MaxCalls /\ made' = made + 1
Move(c, at) == call' = [call EXCEPT ![c].at = at]
Finish(c, at, got) == call' = [call EXCEPT ![c] = At(at, NULL, got)]

Call ==
  /\ MainIdle /\ Calls
  /\ \E r \in Requests :
       IF Refused(r) THEN Finish(Main, "idle", Throws)
                     ELSE call' = [call EXCEPT ![Main] = At("native", r, NULL)]
  /\ UNCHANGED << heap, stopped >>

Spawn(w) ==
  /\ MainIdle /\ call[w].at = "idle" /\ Calls
  /\ \E r \in WorkerRequests : call' = [call EXCEPT ![w] = At("spawned", r, NULL)]
  /\ UNCHANGED << heap, stopped >>

(* The worker sends its port, the main isolate sends the request to it.    *)
Greet(w) == call[w].at = "spawned" /\ Move(w, "greeted") /\ UNCHANGED << heap, stopped, made >>
Ask(w) == MainIdle /\ call[w].at = "greeted" /\ Move(w, "asked") /\ UNCHANGED << heap, stopped, made >>

(* An exception of the worker is caught and sent.                          *)
UncaughtSlip(w) == UNCHANGED call
SendException(w) == call' = [call EXCEPT ![w].at = "replied", ![w].copy = Exception]

Begin(w) ==
  /\ call[w].at = "asked"
  /\ IF Refused(call[w].req) THEN SendException(w) ELSE Move(w, "native")
  /\ UNCHANGED << heap, stopped, made >>

(* get_ptr: where the result is written.                                   *)
NotIntoRawSlip == {a \in Addrs : heap[a].owner \in Callers \cup {NULL}}
get_ptr == Free

(* Does the word of a bool say true?                                       *)
NotZeroSlip(word) == word # 0
IsTrue(word) == word = 1

Verdicts(answer) ==
  {IsTrue(upper + (IF answer.out.kind = "true" THEN 1 ELSE 0)) : upper \in Upper}

(* The library runs.  A panic in an extern "C" function ends the process.  *)
Compute(c) ==
  /\ call[c].at = "native"
  /\ LET answer == Answer(Passed(call[c].req))
     IN  CASE answer.out = Panic -> stopped' = call[c].req /\ UNCHANGED << call, heap >>
           [] IsVerdict(answer.out) ->
                /\ \E b \in Verdicts(answer) : Finish(c, "idle", Value(Verdict(b)))
                /\ UNCHANGED << heap, stopped >>
           [] OTHER ->
                \E a \in get_ptr :
                  /\ heap' = [heap EXCEPT ![a] = [owner |-> c, text |-> answer]]
                  /\ call' = [call EXCEPT ![c] = Holding("written", @.req, a, NULL)]
                  /\ UNCHANGED stopped
  /\ UNCHANGED made

(* Utf8.fromUtf8 *)
Copy(c) ==
  /\ call[c].at = "written"
  /\ call' = [call EXCEPT ![c] = Holding("copied", @.req, @.addr, heap[@.addr].text)]
  /\ UNCHANGED << heap, stopped, made >>

(* freeCString, which sr25519KeypairFromSeed leaves out.                   *)
NotFreedSlip(block) == [block EXCEPT !.owner = Lost]
AfterCall(block) ==
  IF block.text.fn = "sr25519_keypair_from_seed" THEN [block EXCEPT !.owner = Lost] ELSE FreeBlock

(* The block is freed; the main isolate returns or throws, a worker sends. *)
Return(c) ==
  /\ call[c].at = "copied"
  /\ heap' = [heap EXCEPT ![call[c].addr] = AfterCall(@)]
  /\ IF c = Main THEN Finish(c, "idle", ThrowReturn(call[c].copy)) ELSE Move(c, "replied")
  /\ UNCHANGED << stopped, made >>

Receive(w) ==
  /\ MainIdle /\ call[w].at = "replied"
  /\ Finish(w, "done", IF call[w].copy = Exception THEN Value(Exception) ELSE ThrowReturn(call[w].copy))
  /\ UNCHANGED << heap, stopped, made >>

Step(c) == Compute(c) \/ Copy(c) \/ Return(c)
WorkerStep(w) == Greet(w) \/ Ask(w) \/ Begin(w) \/ Receive(w)

Next ==
  /\ stopped = NULL
  /\ \/ Call
     \/ \E c \in Callers : Step(c)
     \/ \E w \in Workers : Spawn(w) \/ WorkerStep(w)

(* Isolates run until they wait, and messages are delivered. *)
Fairness ==
  /\ \A c \in Callers : WF_vars(stopped = NULL /\ Step(c))
  /\ \A w \in Workers : WF_vars(stopped = NULL /\ WorkerStep(w))

Spec == Init /\ [][Next]_vars
FairSpec == Spec /\ Fairness
-----------------------------------------------------------------------------
Waiting(c) == call[c].at \notin {"idle", "done"}

(* Properties.                                                             *)

CallStates == {"idle", "spawned", "greeted", "asked", "native", "written", "copied", "replied", "done"}
Asks == Requests \cup WorkerRequests
Answers == {Answer(Passed(r)) : r \in Asks}
Gots == {NULL} \cup UNION {Results(r) : r \in Asks}

TypeOK ==
  /\ call \in [Callers -> [at : CallStates, req : Asks \cup {NULL}, addr : Addrs \cup {NULL},
                           copy : Answers \cup {Exception, NULL}, got : Gots]]
  /\ heap \in [Addrs -> [owner : Callers \cup {Lost, NULL}, text : Answers \cup {NULL}]]
  /\ stopped \in Asks \cup {NULL}
  /\ made \in 0 .. MaxCalls

(* A result that is still to be copied or freed is in a block of its own    *)
(* caller, and holds the answer to what that caller asked, whatever blocks  *)
(* others get and free meanwhile (common.dart:10-11, util.rs:15-17).        *)
OwnBlock ==
  \A c \in Callers :
    call[c].at \in {"written", "copied"} =>
      heap[call[c].addr] = [owner |-> c, text |-> Answer(Passed(call[c].req))]

(* Nothing is left on the heap when a call has returned, except the results *)
(* of sr25519KeypairFromSeed (common.dart:371-377): secret keys, of which   *)
(* one block stays for every call.                                          *)
NothingLeft ==
  \A a \in Addrs :
    LET owner == heap[a].owner
    IN  /\ owner \in Callers => call[owner].at \in {"written", "copied"} /\ call[owner].addr = a
        /\ owner = Lost => heap[a].text.fn = "sr25519_keypair_from_seed"

(* Blocks are neither mixed up nor left, whatever the isolates do.          *)
BlocksKept == OwnBlock /\ NothingLeft

(* The answers of NativePromise.tla: of all that happens between a call and *)
(* its result, of other isolates, freed blocks and odd words, a caller sees  *)
(* nothing.                                                                 *)
Promise == INSTANCE NativePromise WITH
  Requests <- Asks,
  Refusal  <- Throws,
  asked    <- [c \in Callers |-> IF Waiting(c) THEN call[c].req ELSE NULL],
  result   <- [c \in Callers |-> call[c].got],
  running  <- stopped = NULL

KeepsPromise == Promise!Spec

(* What stops the process when a phrase or a signature that somebody else   *)
(* wrote is tried.  No phrase does, whatever the text (common.rs:38-76).    *)
(* sr25519_verify does only on a text that isHexString lets pass and that   *)
(* is no bytes in hex, an odd number of digits or 0X before them            *)
(* (is.dart:53-56, util.rs:19-25); ed25519_verify on such a text, and else  *)
(* only on a public key that is none, which it looks at only when the       *)
(* signature is well formed (ed25519.rs:34-39, 75-83, sr25519.rs:136-148).  *)
Tried == {"bip39_validate", "bip39_to_entropy", "bip39_to_mini_secret", "bip39_to_seed"}
Verifying == {"sr25519_verify", "ed25519_verify"}

TryingIsSafe ==
  stopped # NULL =>
    /\ stopped.fn \notin Tried
    /\ stopped.fn \in Verifying =>
         \/ \E i \in DOMAIN stopped.texts : stopped.texts[i].kind = "odd"
         \/ /\ stopped.fn = "ed25519_verify"
            /\ Bytes(stopped.texts[1], 64) /\ ~create_public(stopped.texts[3])

(* The lengths that the comments of the library give, in bytes; 0 stands    *)
(* for any (ed25519.rs:43, 57-59, 72-74, sr25519.rs:19-20, 37-38, 53-54,    *)
(* 69, 84, 104-106, 132-134).                                               *)
Documented ==
  [ed25519_keypair_from_seed |-> << 32 >>, ed25519_sign |-> << 32, 64, 0 >>,
   ed25519_verify |-> << 64, 0, 32 >>,
   sr25519_derive_keypair_hard |-> << 64, 32 >>, sr25519_derive_keypair_soft |-> << 64, 32 >>,
   sr25519_derive_public_soft |-> << 32, 32 >>,
   sr25519_keypair_from_seed |-> << 32 >>, sr25519_keypair_from_pair |-> << 96 >>,
   sr25519_sign |-> << 32, 64, 0 >>, sr25519_verify |-> << 64, 0, 32 >>]

(* A request gives a function the texts it takes.                          *)
ASSUME RequestAssumption ==
  \A r \in Requests \cup WorkerRequests :
    /\ DOMAIN r = {"fn", "texts", "nums"}
    /\ \A i \in DOMAIN r.texts :
         /\ DOMAIN r.texts[i] = {"kind", "len", "good", "v"}
         /\ r.texts[i].kind \in Kinds /\ r.texts[i].good \in BOOLEAN
    /\ r.fn \in Tried => 1 \in DOMAIN r.texts
    /\ r.fn \in DOMAIN Documented => DOMAIN Documented[r.fn] = DOMAIN r.texts

(* With keys, signatures and other bytes of the lengths that the comments   *)
(* give, in hex, no function of ed25519 and sr25519 stops the process       *)
(* ("private: UIntArray with 64 element", ed25519.rs:58; "secret: UIntArray *)
(* with 64 bytes", sr25519.rs:19).                                          *)
LengthsSuffice ==
  stopped # NULL /\ stopped.fn \in DOMAIN Documented =>
    \E i \in DOMAIN stopped.texts :
      \/ ~IsU8vec(stopped.texts[i]) \/ ~stopped.texts[i].good
      \/ Documented[stopped.fn][i] \notin {0, stopped.texts[i].len}

(* Every call that is made ends: no worker is forgotten, and no exception   *)
(* leaves the main isolate waiting (common.dart:105-113, 131-133).          *)
EveryCallEnds == \A c \in Callers : Waiting(c) ~> ~Waiting(c) \/ stopped # NULL
=============================================================================
