--------------------------- MODULE DeliveryProofs ---------------------------
(* What a grab promises, for any threads, answers of peers and retries.     *)
EXTENDS Delivery, AlbumsProofs

AllDiscs == UNION {r.discs : r \in Releases}
AllFiles == UNION {d.files : d \in AllDiscs}

Calls ==
  [pc : {"idle", "post", "raise", "accepted", "failed"},
   release : Releases \cup {Idle.release}, left : SUBSET AllDiscs, disc : AllDiscs \cup {NoDisc},
   tries : Nat, tried : SUBSET AllFiles, passed : Nat, lost : BOOLEAN]

CallTypeOK == call \in [Threads -> Calls]

\* A call's locals agree with its release, and it has posted nothing twice.
Sound(c) ==
  /\ c.passed <= 1
  /\ c.pc = "post" => c.passed = 0 /\ c.disc \in c.release.discs /\ c.disc.files \subseteq c.tried
  /\ c.left \subseteq c.release.discs
  /\ c.tried \subseteq FilesOf(c.release)
  /\ c.pc = "idle" => c.tried = {}
  /\ c.pc = "accepted" => c.left = {}

AllSound == \A t \in Threads : Sound(call[t])

\* What Proceed makes of the locals c.
Onward(c, e) ==
  /\ e.release = c.release /\ e.lost = c.lost
  /\ \/ /\ c.left = {} /\ e.pc = "accepted" /\ e.left = {} /\ e.tried = c.tried /\ e.passed = c.passed
     \/ \E d \in c.left : /\ e.pc = "post" /\ e.disc = d /\ e.left = c.left \ {d}
                          /\ e.tried = c.tried \cup d.files /\ e.passed = 0

LEMMA ProceedTo ==
  ASSUME NEW t \in Threads, NEW c \in Calls, Proceed(t, c)
  PROVE  \E e \in Calls : Become(t, e) /\ Onward(c, e)
<1>1. CASE c.left = {} /\ Become(t, [c EXCEPT !.pc = "accepted"])
  <2> DEFINE e == [c EXCEPT !.pc = "accepted"]
  <2>1. e \in Calls /\ Onward(c, e)
    BY <1>1 DEF Calls, Onward
  <2> QED BY <1>1, <2>1
<1>2. ASSUME NEW d \in c.left,
             Become(t, [c EXCEPT !.pc = "post", !.disc = d, !.left = @ \ {d}, !.tries = 0,
                                 !.passed = 0, !.tried = @ \cup d.files])
      PROVE  \E e \in Calls : Become(t, e) /\ Onward(c, e)
  <2> DEFINE e == [c EXCEPT !.pc = "post", !.disc = d, !.left = @ \ {d}, !.tries = 0,
                            !.passed = 0, !.tried = @ \cup d.files]
  <2>1. d \in AllDiscs /\ d.files \subseteq AllFiles
    BY DEF Calls, AllFiles
  <2>2. e \in Calls
    BY <2>1 DEF Calls
  <2>3. Onward(c, e)
    BY DEF Calls, Onward
  <2> QED BY <1>2, <2>2, <2>3
<1> QED BY <1>1, <1>2 DEF Proceed

LEMMA OnwardSound ==
  ASSUME NEW c \in Calls, NEW e \in Calls, Onward(c, e),
         c.left \subseteq c.release.discs, c.tried \subseteq FilesOf(c.release), c.passed <= 1
  PROVE  Sound(e)
BY DEF Onward, Sound, FilesOf

-----------------------------------------------------------------------------
(* What each action does to the locals of its thread.                        *)

\* c with another pc, or another count of attempts.
Stays(c, e) == e.release = c.release /\ e.left = c.left /\ e.tried = c.tried

LEMMA GrabIs ==
  ASSUME NEW t \in Threads, Grab(t)
  PROVE  /\ call[t].pc = "idle" /\ UNCHANGED <<transfers, late>>
         /\ \E r \in Releases : \E e \in Calls :
              Become(t, e) /\ Onward([Idle EXCEPT !.release = r, !.left = r.discs], e)
<1>1. PICK r \in Releases : Proceed(t, [Idle EXCEPT !.release = r, !.left = r.discs])
  BY DEF Grab
<1> DEFINE c == [Idle EXCEPT !.release = r, !.left = r.discs]
<1>2. c \in Calls
  <2>1. r.discs \subseteq AllDiscs
    BY DEF AllDiscs
  <2> QED BY <2>1 DEF Calls, Idle
<1>3. Proceed(t, c)
  BY <1>1
<1>4. \E e \in Calls : Become(t, e) /\ Onward(c, e)
  <2> HIDE DEF c
  <2> QED BY <1>2, <1>3, ProceedTo
<1> QED BY <1>4 DEF Grab

LEMMA AnsweredIs ==
  ASSUME CallTypeOK, NEW t \in Threads, Answered(t)
  PROVE  /\ call[t].pc = "post" /\ UNCHANGED late
         /\ \E taken \in SUBSET Batch(t) : \E e \in Calls :
              /\ transfers' = Taking(taken)
              /\ Become(t, e)
              /\ \/ Stays(call[t], e) /\ e.pc = "post" /\ e.disc = call[t].disc /\ e.passed = call[t].passed /\ e.lost = call[t].lost
                 \/ Stays(call[t], e) /\ e.pc = "raise" /\ e.passed <= call[t].passed + 1 /\ e.lost = call[t].lost
                 \/ taken = Batch(t) /\ Onward([call[t] EXCEPT !.passed = @ + 1], e)
<1>1. call[t] \in Calls
  BY DEF CallTypeOK
<1>2. PICK status \in Statuses : \E taken \in Taken(status, Batch(t)) :
        LET c == [call[t] EXCEPT !.passed = IF status = "429" THEN @ ELSE @ + 1] IN
        /\ transfers' = Taking(taken)
        /\ IF Repeats(status) /\ c.tries < Retries
           THEN Become(t, [c EXCEPT !.tries = @ + 1])
           ELSE IF Succeeds(status) THEN Proceed(t, c) ELSE Become(t, [c EXCEPT !.pc = "raise"])
  BY DEF Answered
<1> DEFINE c == [call[t] EXCEPT !.passed = IF status = "429" THEN @ ELSE @ + 1]
<1>3. PICK taken \in Taken(status, Batch(t)) :
        /\ transfers' = Taking(taken)
        /\ IF Repeats(status) /\ c.tries < Retries
           THEN Become(t, [c EXCEPT !.tries = @ + 1])
           ELSE IF Succeeds(status) THEN Proceed(t, c) ELSE Become(t, [c EXCEPT !.pc = "raise"])
  BY <1>2
<1>4. taken \in SUBSET Batch(t) /\ (status = "201" => taken = Batch(t))
  BY DEF Taken, Statuses
<1>5. c \in Calls
  BY <1>1 DEF Calls
<1>6. /\ Stays(call[t], c) /\ c.pc = call[t].pc /\ c.disc = call[t].disc /\ c.lost = call[t].lost
      /\ c.passed \in Nat /\ c.passed <= call[t].passed + 1
      /\ status = "429" => c.passed = call[t].passed
      /\ status # "429" => c = [call[t] EXCEPT !.passed = @ + 1]
  BY <1>1 DEF Calls, Stays
<1>7. call[t].pc = "post" /\ UNCHANGED late
  BY DEF Answered
<1> HIDE DEF c
<1>8. CASE Repeats(status) /\ c.tries < Retries
  <2> DEFINE e == [c EXCEPT !.tries = @ + 1]
  <2>1. /\ e \in Calls /\ Stays(c, e) /\ e.pc = c.pc /\ e.disc = c.disc /\ e.lost = c.lost /\ e.passed = c.passed
    BY <1>5 DEF Calls, Stays
  <2>2. Become(t, e) /\ status = "429"
    BY <1>3, <1>8 DEF Repeats
  <2> HIDE DEF e
  <2> QED BY <1>3, <1>4, <1>6, <1>7, <2>1, <2>2 DEF Stays
<1>9. CASE ~(Repeats(status) /\ c.tries < Retries) /\ Succeeds(status)
  <2>1. Proceed(t, c) /\ status = "201"
    BY <1>3, <1>9 DEF Succeeds
  <2>2. PICK e \in Calls : Become(t, e) /\ Onward(c, e)
    BY <1>5, <2>1, ProceedTo
  <2>3. Onward([call[t] EXCEPT !.passed = @ + 1], e) /\ taken = Batch(t)
    BY <1>4, <1>6, <2>1, <2>2
  <2> QED BY <1>3, <1>4, <1>7, <2>2, <2>3
<1>10. CASE ~(Repeats(status) /\ c.tries < Retries) /\ ~Succeeds(status)
  <2> DEFINE e == [c EXCEPT !.pc = "raise"]
  <2>1. e \in Calls /\ Stays(c, e) /\ e.pc = "raise" /\ e.lost = c.lost /\ e.passed = c.passed
    BY <1>5 DEF Calls, Stays
  <2>2. Become(t, e)
    BY <1>3, <1>10
  <2> HIDE DEF e
  <2> QED BY <1>3, <1>4, <1>6, <1>7, <2>1, <2>2 DEF Stays
<1> QED BY <1>8, <1>9, <1>10

LEMMA AnswerLostIs ==
  ASSUME CallTypeOK, NEW t \in Threads, AnswerLost(t)
  PROVE  /\ call[t].pc = "post"
         /\ \E taken \in SUBSET Batch(t) : \E e \in Calls :
              /\ transfers' = Taking(taken) /\ late' = late \cup (Batch(t) \ taken)
              /\ Become(t, e)
              /\ Stays(call[t], e) /\ e.pc = "raise" /\ e.passed = call[t].passed + 1 /\ e.lost
<1>1. call[t] \in Calls
  BY DEF CallTypeOK
<1> DEFINE yes == TRUE
<1> DEFINE e == [call[t] EXCEPT !.pc = "raise", !.lost = yes, !.passed = @ + 1]
<1>2. yes \in BOOLEAN
  OBVIOUS
<1>3. e \in Calls /\ Stays(call[t], e) /\ e.pc = "raise" /\ e.passed = call[t].passed + 1 /\ e.lost = yes
  <2> HIDE DEF yes
  <2>1. Stays(call[t], e) /\ e.pc = "raise" /\ e.passed = call[t].passed + 1 /\ e.lost = yes
    BY <1>1 DEF Calls, Stays
  <2>2. call[t].passed + 1 \in Nat
    BY <1>1 DEF Calls
  <2>3. e \in Calls
    BY <1>1, <1>2, <2>2 DEF Calls
  <2> QED BY <2>1, <2>3
<1>4. Become(t, e)
  BY DEF AnswerLost
<1>5. PICK taken \in SUBSET Batch(t) : transfers' = Taking(taken) /\ late' = late \cup (Batch(t) \ taken)
  BY DEF AnswerLost
<1>6. call[t].pc = "post"
  BY DEF AnswerLost
<1> QED BY <1>3, <1>4, <1>5, <1>6

LEMMA CompensateIs ==
  ASSUME CallTypeOK, NEW t \in Threads, Compensate(t)
  PROVE  /\ call[t].pc = "raise" /\ UNCHANGED late
         /\ \E cancelled \in SUBSET call[t].tried : \E e \in Calls :
              /\ transfers' = {x \in transfers : x.user # call[t].release.user \/ x.file \notin cancelled}
              /\ Become(t, e)
              /\ Stays(call[t], e) /\ e.pc = "failed" /\ e.passed = call[t].passed
              /\ call[t].lost => e.lost
              /\ cancelled # call[t].tried => e.lost
<1>1. call[t] \in Calls
  BY DEF CallTypeOK
<1>2. PICK cancelled \in SUBSET Cancelled(t) :
        /\ transfers' = {x \in transfers : x.user # call[t].release.user \/ x.file \notin cancelled}
        /\ Become(t, [call[t] EXCEPT !.pc = "failed", !.lost = @ \/ cancelled # Cancelled(t)])
  BY DEF Compensate
<1> DEFINE b == call[t].lost \/ cancelled # Cancelled(t)
<1> DEFINE e == [call[t] EXCEPT !.pc = "failed", !.lost = b]
<1>3. b \in BOOLEAN
  OBVIOUS
<1>4. /\ e \in Calls /\ Stays(call[t], e) /\ e.pc = "failed" /\ e.passed = call[t].passed /\ e.lost = b
  <2> HIDE DEF b
  <2> QED BY <1>1, <1>3 DEF Calls, Stays
<1>5. Become(t, e)
  BY <1>2
<1> QED BY <1>2, <1>4, <1>5 DEF Compensate, Cancelled

-----------------------------------------------------------------------------
(* Types, and no batch posted twice.                                         *)

LEMMA BecomeIs ==
  ASSUME CallTypeOK, NEW t \in Threads, NEW e \in Calls, Become(t, e)
  PROVE  CallTypeOK' /\ call'[t] = e /\ \A u \in Threads \ {t} : call'[u] = call[u]
BY DEF CallTypeOK, Become

LEMMA InitSound == Init => CallTypeOK /\ AllSound
<1> SUFFICES ASSUME Init PROVE CallTypeOK /\ AllSound
  OBVIOUS
<1>1. Idle \in Calls
  BY DEF Idle, Calls
<1>2. Sound(Idle)
  BY DEF Idle, Sound
<1> QED BY <1>1, <1>2 DEF Init, CallTypeOK, AllSound

LEMMA ThreadSound ==
  ASSUME CallTypeOK, AllSound, NEW t \in Threads,
         Grab(t) \/ Answered(t) \/ AnswerLost(t) \/ Compensate(t)
  PROVE  CallTypeOK' /\ AllSound'
<1>1. call[t] \in Calls /\ Sound(call[t])
  BY DEF CallTypeOK, AllSound
<1>2. ASSUME NEW e \in Calls, Become(t, e), Sound(e) PROVE CallTypeOK' /\ AllSound'
  <2>1. CallTypeOK' /\ call'[t] = e /\ \A u \in Threads \ {t} : call'[u] = call[u]
    BY <1>2, BecomeIs
  <2>2. ASSUME NEW u \in Threads PROVE Sound(call'[u])
    BY <1>2, <2>1 DEF AllSound
  <2> QED BY <2>1, <2>2 DEF AllSound
<1>3. CASE Grab(t)
  <2>1. PICK r \in Releases, e \in Calls :
          Become(t, e) /\ Onward([Idle EXCEPT !.release = r, !.left = r.discs], e)
    BY <1>3, GrabIs
  <2> DEFINE c == [Idle EXCEPT !.release = r, !.left = r.discs]
  <2>2. c.release = r /\ c.left = r.discs /\ c.tried = {} /\ c.passed = 0
    BY DEF Idle
  <2>3. Onward(c, e)
    BY <2>1
  <2> HIDE DEF c
  <2>4. Sound(e)
    BY <2>2, <2>3 DEF Onward, Sound, FilesOf
  <2> QED BY <1>2, <2>1, <2>4
<1>4. CASE Answered(t)
  <2>1. PICK e \in Calls :
          /\ Become(t, e)
          /\ \/ Stays(call[t], e) /\ e.pc = "post" /\ e.disc = call[t].disc /\ e.passed = call[t].passed
             \/ Stays(call[t], e) /\ e.pc = "raise" /\ e.passed <= call[t].passed + 1
             \/ Onward([call[t] EXCEPT !.passed = @ + 1], e)
    BY <1>4, AnsweredIs
  <2>2. call[t].pc = "post" /\ call[t].passed = 0
    BY <1>1, <1>4, AnsweredIs DEF Sound
  <2>3. CASE Stays(call[t], e) /\ e.pc = "post" /\ e.disc = call[t].disc /\ e.passed = call[t].passed
    <3>1. Sound(e)
      BY <1>1, <2>2, <2>3 DEF Sound, Stays
    <3> QED BY <1>2, <2>1, <3>1
  <2>4. CASE Stays(call[t], e) /\ e.pc = "raise" /\ e.passed <= call[t].passed + 1
    <3>1. Sound(e)
      BY <1>1, <2>2, <2>4 DEF Sound, Stays
    <3> QED BY <1>2, <2>1, <3>1
  <2>5. CASE Onward([call[t] EXCEPT !.passed = @ + 1], e)
    <3> DEFINE c == [call[t] EXCEPT !.passed = @ + 1]
    <3>1. c \in Calls /\ Stays(call[t], c) /\ c.passed = 1
      BY <1>1, <2>2 DEF Calls, Stays
    <3>2. Onward(c, e)
      BY <2>5
    <3> HIDE DEF c
    <3>3. Sound(e)
      BY <1>1, <3>1, <3>2, OnwardSound DEF Sound, Stays
    <3> QED BY <1>2, <2>1, <3>3
  <2> QED BY <2>1, <2>3, <2>4, <2>5
<1>5. CASE AnswerLost(t)
  <2>1. PICK e \in Calls : Become(t, e) /\ Stays(call[t], e) /\ e.pc = "raise" /\ e.passed = call[t].passed + 1
    BY <1>5, AnswerLostIs
  <2>2. call[t].pc = "post" /\ call[t].passed = 0
    BY <1>1, <1>5, AnswerLostIs DEF Sound
  <2>3. Sound(e)
    BY <1>1, <2>1, <2>2 DEF Sound, Stays
  <2> QED BY <1>2, <2>1, <2>3
<1>6. CASE Compensate(t)
  <2>1. PICK e \in Calls : Become(t, e) /\ Stays(call[t], e) /\ e.pc = "failed" /\ e.passed = call[t].passed
    BY <1>6, CompensateIs
  <2>2. Sound(e)
    BY <1>1, <2>1 DEF Sound, Stays
  <2> QED BY <1>2, <2>1, <2>2
<1> QED BY <1>3, <1>4, <1>5, <1>6

LEMMA SoundAlways == Spec => [](CallTypeOK /\ AllSound)
<1>1. CallTypeOK /\ AllSound /\ [Next]_vars => CallTypeOK' /\ AllSound'
  <2> SUFFICES ASSUME CallTypeOK, AllSound, [Next]_vars PROVE CallTypeOK' /\ AllSound'
    OBVIOUS
  <2>1. CASE Late \/ UNCHANGED vars
    BY <2>1 DEF Late, vars, CallTypeOK, AllSound
  <2>2. ASSUME NEW t \in Threads, Grab(t) \/ Answered(t) \/ AnswerLost(t) \/ Compensate(t)
        PROVE  CallTypeOK' /\ AllSound'
    BY <2>2, ThreadSound
  <2> QED BY <2>1, <2>2 DEF Next
<1> QED BY <1>1, InitSound, PTL DEF Spec

\* For any grabs at once, any sizes of albums and any number of retries, no call
\* gets one batch past slskd's limiter twice (slskd_gateway.py:225-240).
THEOREM NoBatchTwice == Spec => []PostedOnce
<1>1. AllSound => PostedOnce
  BY DEF AllSound, Sound, PostedOnce
<1> QED BY <1>1, SoundAlways, PTL

-----------------------------------------------------------------------------
(* Nothing left behind.                                                      *)

Owns(t, x) == x.user = call[t].release.user /\ x.file \in call[t].tried

\* Every transfer is one that a call posted, and did not fail after unless
\* something was lost.
Held == \A x \in transfers : \E t \in Threads : Owns(t, x) /\ (call[t].lost \/ call[t].pc # "failed")
LateHeld == \A x \in late : \E t \in Threads : Owns(t, x) /\ call[t].lost

HeldInv == CallTypeOK /\ AllSound /\ Held /\ LateHeld

LEMMA OwnsStays ==
  ASSUME CallTypeOK, NEW t \in Threads, NEW e \in Calls, Become(t, e),
         \/ call[t].tried = {}
         \/ e.release = call[t].release /\ call[t].tried \subseteq e.tried
  PROVE  \A u \in Threads : \A x : Owns(u, x) => Owns(u, x)'
BY BecomeIs DEF Owns

LEMMA BatchIs ==
  ASSUME AllSound, NEW t \in Threads, call[t].pc = "post", NEW x \in Batch(t)
  PROVE  Owns(t, x)
BY DEF AllSound, Sound, Owns, Batch

\* Calls that keep what they own, and do not fail, hold what they held.
LEMMA HeldStays ==
  ASSUME CallTypeOK, Held, LateHeld, NEW t \in Threads, NEW e \in Calls, Become(t, e),
         \/ call[t].tried = {}
         \/ /\ e.release = call[t].release /\ call[t].tried \subseteq e.tried
            /\ e.pc # "failed" /\ (call[t].lost => e.lost)
  PROVE  /\ \A x \in transfers : \E u \in Threads : Owns(u, x)' /\ (call'[u].lost \/ call'[u].pc # "failed")
         /\ \A x \in late : \E u \in Threads : Owns(u, x)' /\ call'[u].lost
<1>1. CallTypeOK' /\ call'[t] = e /\ \A u \in Threads \ {t} : call'[u] = call[u]
  BY BecomeIs
<1>2. \A u \in Threads : \A x : Owns(u, x) => Owns(u, x)'
  BY OwnsStays
<1>3. ASSUME NEW u \in Threads, NEW x, Owns(u, x)
      PROVE  /\ call[u].lost => call'[u].lost
             /\ call[u].pc # "failed" => call'[u].pc # "failed"
  BY <1>1, <1>3 DEF Owns
<1>4. ASSUME NEW x \in transfers
      PROVE  \E u \in Threads : Owns(u, x)' /\ (call'[u].lost \/ call'[u].pc # "failed")
  BY <1>2, <1>3 DEF Held
<1>5. ASSUME NEW x \in late
      PROVE  \E u \in Threads : Owns(u, x)' /\ call'[u].lost
  BY <1>2, <1>3 DEF LateHeld
<1> QED BY <1>4, <1>5

LEMMA ThreadHeld ==
  ASSUME HeldInv, NEW t \in Threads,
         Grab(t) \/ Answered(t) \/ AnswerLost(t) \/ Compensate(t)
  PROVE  Held' /\ LateHeld'
<1>1. CallTypeOK /\ AllSound /\ Held /\ LateHeld /\ call[t] \in Calls /\ Sound(call[t])
  BY DEF HeldInv, CallTypeOK, AllSound
<1>2. CASE Grab(t)
  <2>1. PICK e \in Calls : Become(t, e)
    BY <1>2, GrabIs
  <2>2. call[t].tried = {} /\ UNCHANGED <<transfers, late>>
    BY <1>1, <1>2, GrabIs DEF Sound
  <2> QED BY <1>1, <2>1, <2>2, HeldStays DEF Held, LateHeld
<1>3. CASE Answered(t)
  <2>1. PICK taken \in SUBSET Batch(t), e \in Calls :
          /\ transfers' = Taking(taken) /\ Become(t, e)
          /\ \/ Stays(call[t], e) /\ e.pc = "post" /\ e.lost = call[t].lost
             \/ Stays(call[t], e) /\ e.pc = "raise" /\ e.lost = call[t].lost
             \/ Onward([call[t] EXCEPT !.passed = @ + 1], e)
    BY <1>1, <1>3, AnsweredIs
  <2>2. call[t].pc = "post" /\ late' = late
    BY <1>1, <1>3, AnsweredIs
  <2>3. /\ e.release = call[t].release /\ call[t].tried \subseteq e.tried
        /\ e.pc # "failed" /\ e.lost = call[t].lost
    <3>1. CASE Onward([call[t] EXCEPT !.passed = @ + 1], e)
      <4> DEFINE c == [call[t] EXCEPT !.passed = @ + 1]
      <4>1. c.release = call[t].release /\ c.tried = call[t].tried /\ c.lost = call[t].lost
        BY <1>1 DEF Calls
      <4>2. Onward(c, e)
        BY <3>1
      <4> HIDE DEF c
      <4> QED BY <4>1, <4>2 DEF Onward
    <3> QED BY <2>1, <3>1 DEF Stays
  <2>4. call'[t] = e
    BY <1>1, <2>1, BecomeIs
  <2>5. \A x \in transfers' : x \in transfers \/ Owns(t, x)'
    <3>1. \A x \in transfers' : x \in transfers \/ Owns(t, x)
      BY <1>1, <2>1, <2>2, BatchIs DEF Taking
    <3> QED BY <2>3, <2>4, <3>1 DEF Owns
  <2>6. /\ \A x \in transfers : \E u \in Threads : Owns(u, x)' /\ (call'[u].lost \/ call'[u].pc # "failed")
        /\ \A x \in late : \E u \in Threads : Owns(u, x)' /\ call'[u].lost
    BY <1>1, <2>1, <2>3, HeldStays
  <2> QED BY <2>2, <2>3, <2>4, <2>5, <2>6 DEF Held, LateHeld
<1>4. CASE AnswerLost(t)
  <2>1. PICK taken \in SUBSET Batch(t), e \in Calls :
          /\ transfers' = Taking(taken) /\ late' = late \cup (Batch(t) \ taken)
          /\ Become(t, e) /\ Stays(call[t], e) /\ e.pc = "raise" /\ e.lost
    BY <1>1, <1>4, AnswerLostIs
  <2>2. call[t].pc = "post"
    BY <1>1, <1>4, AnswerLostIs
  <2>3. /\ e.release = call[t].release /\ e.tried = call[t].tried /\ e.pc # "failed" /\ e.lost
    BY <2>1 DEF Stays
  <2>4. call'[t] = e
    BY <1>1, <2>1, BecomeIs
  <2>5. \A x \in transfers' \cup late' : x \in transfers \/ x \in late \/ Owns(t, x)'
    <3>1. \A x \in transfers' \cup late' : x \in transfers \/ x \in late \/ Owns(t, x)
      BY <1>1, <2>1, <2>2, BatchIs DEF Taking
    <3> QED BY <2>3, <2>4, <3>1 DEF Owns
  <2>6. /\ \A x \in transfers : \E u \in Threads : Owns(u, x)' /\ (call'[u].lost \/ call'[u].pc # "failed")
        /\ \A x \in late : \E u \in Threads : Owns(u, x)' /\ call'[u].lost
    BY <1>1, <2>1, <2>3, HeldStays
  <2>7. Held'
    BY <2>3, <2>4, <2>5, <2>6 DEF Held
  <2>8. ASSUME NEW x \in late' PROVE \E u \in Threads : Owns(u, x)' /\ call'[u].lost
    <3>1. x \in late \/ x \in Batch(t)
      BY <2>1
    <3>2. x \in Batch(t) => Owns(t, x)'
      BY <1>1, <2>2, <2>3, <2>4, BatchIs DEF Owns
    <3> QED BY <2>3, <2>4, <2>6, <3>1, <3>2
  <2> QED BY <2>7, <2>8 DEF LateHeld
<1>5. CASE Compensate(t)
  <2>1. PICK cancelled \in SUBSET call[t].tried, e \in Calls :
          /\ transfers' = {x \in transfers : x.user # call[t].release.user \/ x.file \notin cancelled}
          /\ Become(t, e) /\ Stays(call[t], e)
          /\ call[t].lost => e.lost
          /\ cancelled # call[t].tried => e.lost
    BY <1>1, <1>5, CompensateIs
  <2>2. late' = late
    BY <1>1, <1>5, CompensateIs
  <2>3. call'[t] = e /\ \A u \in Threads \ {t} : call'[u] = call[u]
    BY <1>1, <2>1, BecomeIs
  <2>4. \A u \in Threads : \A x : Owns(u, x) => Owns(u, x)'
    BY <1>1, <2>1, OwnsStays DEF Stays
  <2>5. ASSUME NEW x \in transfers'
        PROVE  \E u \in Threads : Owns(u, x)' /\ (call'[u].lost \/ call'[u].pc # "failed")
    <3>1. PICK u \in Threads : Owns(u, x) /\ (call[u].lost \/ call[u].pc # "failed")
      BY <1>1, <2>1 DEF Held
    <3>2. CASE u = t
      <4>1. cancelled # call[t].tried
        BY <2>1, <3>1, <3>2 DEF Owns
      <4> QED BY <2>1, <2>3, <2>4, <3>1, <3>2, <4>1
    <3>3. CASE u # t
      BY <2>3, <2>4, <3>1, <3>3
    <3> QED BY <3>2, <3>3
  <2>6. ASSUME NEW x \in late' PROVE \E u \in Threads : Owns(u, x)' /\ call'[u].lost
    <3>1. PICK u \in Threads : Owns(u, x) /\ call[u].lost
      BY <1>1, <2>2 DEF LateHeld
    <3> QED BY <2>1, <2>3, <2>4, <3>1
  <2> QED BY <2>5, <2>6 DEF Held, LateHeld
<1> QED BY <1>2, <1>3, <1>4, <1>5

LEMMA HeldAlways == Spec => []HeldInv
<1>1. Init => HeldInv
  BY InitSound DEF Init, HeldInv, Held, LateHeld
<1>2. HeldInv /\ [Next]_vars => HeldInv'
  <2> SUFFICES ASSUME HeldInv, [Next]_vars PROVE HeldInv'
    OBVIOUS
  <2>1. CASE Late
    <3>1. PICK x \in late : late' = late \ {x} /\ transfers' = Taking({x}) /\ UNCHANGED call
      BY <2>1 DEF Late
    <3>2. \A y \in transfers' : y \in transfers \/ y = x
      BY <3>1 DEF Taking
    <3>3. Held' /\ LateHeld'
      BY <3>1, <3>2 DEF HeldInv, Held, LateHeld, Owns
    <3> QED BY <3>1, <3>3 DEF HeldInv, CallTypeOK, AllSound
  <2>2. CASE UNCHANGED vars
    BY <2>2 DEF HeldInv, vars, CallTypeOK, AllSound, Held, LateHeld, Owns
  <2>3. ASSUME NEW t \in Threads, Grab(t) \/ Answered(t) \/ AnswerLost(t) \/ Compensate(t)
        PROVE  HeldInv'
    BY <2>3, ThreadSound, ThreadHeld DEF HeldInv
  <2> QED BY <2>1, <2>2, <2>3 DEF Next
<1> QED BY <1>1, <1>2, PTL DEF Spec

\* For any grabs at once, a grab that failed leaves no transfer that no other
\* call asked for, unless an answer was lost or its compensation failed
\* (download_service.py:65-69, 95-103, 121-146).
THEOREM FailureLeavesNothing == Spec => []NothingLeft
<1>1. HeldInv => NothingLeft
  BY DEF HeldInv, AllSound, Sound, Held, Owns, NothingLeft, Names, Failed
<1> QED BY <1>1, HeldAlways, PTL

-----------------------------------------------------------------------------
(* Nothing missing.                                                          *)

\* slskd has the file, or a grab that names it was compensated.
There(user, file) ==
  LET x == [user |-> user, file |-> file] IN
  Has(transfers, x) \/ \E u \in Threads : Failed(u) /\ Names(u, x)

LEMMA ThereStays ==
  ASSUME CallTypeOK, AllSound, [Next]_vars
  PROVE  \A user, file : There(user, file) => There(user, file)'
<1> SUFFICES ASSUME NEW user, NEW file, There(user, file) PROVE There(user, file)'
  OBVIOUS
<1> DEFINE x == [user |-> user, file |-> file]
<1>1. CASE Late \/ UNCHANGED vars
  <2>1. transfers \subseteq transfers' /\ call' = call
    BY <1>1 DEF Late, vars, Taking
  <2> QED BY <2>1 DEF There, Has, Failed, Names
<1>2. ASSUME NEW t \in Threads, call[t].pc # "failed", NEW e \in Calls, Become(t, e), transfers \subseteq transfers'
      PROVE  There(user, file)'
  <2>1. \A u \in Threads : Failed(u) => call'[u] = call[u]
    BY <1>2, BecomeIs DEF Failed
  <2> QED BY <1>2, <2>1 DEF There, Has, Failed, Names
<1>3. ASSUME NEW t \in Threads, Grab(t) PROVE There(user, file)'
  BY <1>2, <1>3, GrabIs
<1>4. ASSUME NEW t \in Threads, Answered(t) PROVE There(user, file)'
  <2>1. transfers \subseteq transfers'
    BY <1>4, AnsweredIs DEF Taking
  <2> QED BY <1>2, <1>4, <2>1, AnsweredIs
<1>5. ASSUME NEW t \in Threads, AnswerLost(t) PROVE There(user, file)'
  <2>1. transfers \subseteq transfers'
    BY <1>5, AnswerLostIs DEF Taking
  <2> QED BY <1>2, <1>5, <2>1, AnswerLostIs
<1>6. ASSUME NEW t \in Threads, Compensate(t) PROVE There(user, file)'
  <2>1. PICK cancelled \in SUBSET call[t].tried, e \in Calls :
          /\ transfers' = {y \in transfers : y.user # call[t].release.user \/ y.file \notin cancelled}
          /\ Become(t, e) /\ Stays(call[t], e) /\ e.pc = "failed"
    BY <1>6, CompensateIs
  <2>2. call'[t] = e /\ \A u \in Threads \ {t} : call'[u] = call[u]
    BY <2>1, BecomeIs
  <2>3. call[t].pc = "raise"
    BY <1>6, CompensateIs
  <2>4. call[t].tried \subseteq FilesOf(call[t].release)
    BY DEF AllSound, Sound
  <2>5. CASE \E u \in Threads : Failed(u) /\ Names(u, x)
    <3>1. PICK u \in Threads : Failed(u) /\ Names(u, x)
      BY <2>5
    <3>2. call'[u] = call[u]
      BY <2>2, <2>3, <3>1 DEF Failed
    <3> QED BY <3>1, <3>2 DEF There, Failed, Names
  <2>6. CASE Has(transfers, x)
    <3>1. PICK y \in transfers : y.user = user /\ y.file = file
      BY <2>6 DEF Has
    <3>2. CASE y \in transfers'
      BY <3>1, <3>2 DEF There, Has
    <3>3. CASE y \notin transfers'
      <4>1. user = call[t].release.user /\ file \in call[t].tried
        BY <2>1, <3>1, <3>3
      <4>2. Failed(t)' /\ Names(t, x)'
        BY <2>1, <2>2, <2>4, <4>1 DEF Failed, Names, Stays
      <4> QED BY <4>2 DEF There
    <3> QED BY <3>2, <3>3
  <2> QED BY <2>5, <2>6 DEF There
<1> QED BY <1>1, <1>3, <1>4, <1>5, <1>6 DEF Next

\* A batch that was taken whole is there.
LEMMA TakenIsThere ==
  ASSUME NEW t \in Threads, transfers' = Taking(Batch(t)), NEW f \in call[t].disc.files,
         NEW user, user = call[t].release.user
  PROVE  There(user, f)'
<1> DEFINE b == [user |-> user, file |-> f, folder |-> batch_destination(call[t].release.destination, call[t].disc.subpath)]
<1>1. b \in Batch(t)
  BY DEF Batch
<1>2. b.user = user /\ b.file = f
  OBVIOUS
<1> HIDE DEF b
<1>3. \E y \in transfers' : y.user = user /\ y.file = f
  BY <1>1, <1>2 DEF Taking, Has
<1> QED BY <1>3 DEF There, Has

\* What is there, as a set.
Safe ==
  {[user |-> x.user, file |-> x.file] : x \in transfers}
    \cup UNION {Wanted(u) : u \in {v \in Threads : Failed(v)}}

LEMMA SafeGrows ==
  ASSUME CallTypeOK, AllSound, [Next]_vars
  PROVE  Safe \subseteq Safe'
<1> SUFFICES ASSUME NEW z \in Safe PROVE z \in Safe'
  OBVIOUS
<1>1. PICK user, file : z = [user |-> user, file |-> file] /\ There(user, file)
  <2>1. CASE z \in {[user |-> x.user, file |-> x.file] : x \in transfers}
    <3>1. PICK x \in transfers : z = [user |-> x.user, file |-> x.file]
      BY <2>1
    <3>2. There(x.user, x.file)
      BY DEF There, Has
    <3> QED BY <3>1, <3>2
  <2>2. ASSUME NEW u \in Threads, Failed(u), z \in Wanted(u)
        PROVE  \E user, file : z = [user |-> user, file |-> file] /\ There(user, file)
    <3>1. PICK f \in FilesOf(call[u].release) : z = [user |-> call[u].release.user, file |-> f]
      BY <2>2 DEF Wanted
    <3>2. There(call[u].release.user, f)
      BY <2>2 DEF There, Names
    <3> QED BY <3>1, <3>2
  <2>3. \/ z \in {[user |-> x.user, file |-> x.file] : x \in transfers}
        \/ \E u \in Threads : Failed(u) /\ z \in Wanted(u)
    BY DEF Safe
  <2> QED BY <2>1, <2>2, <2>3
<1>2. There(user, file)'
  BY <1>1, ThereStays
<1>3. CASE \E y \in transfers' : y.user = user /\ y.file = file
  BY <1>1, <1>3 DEF Safe
<1>4. ASSUME NEW u \in Threads, Failed(u)', Names(u, [user |-> user, file |-> file])'
      PROVE  z \in Safe'
  <2>1. z \in Wanted(u)'
    BY <1>1, <1>4 DEF Names, Wanted
  <2>2. \E v \in Threads : Failed(v)' /\ z \in Wanted(v)'
    BY <1>4, <2>1
  <2> QED BY <2>2 DEF Safe
<1> QED BY <1>2, <1>3, <1>4 DEF There, Has

LEMMA TakenIsSafe ==
  ASSUME NEW t \in Threads, transfers' = Taking(Batch(t)), NEW f \in call[t].disc.files
  PROVE  [user |-> call[t].release.user, file |-> f] \in Safe'
<1>1. PICK user : user = call[t].release.user
  OBVIOUS
<1>2. There(user, f)'
  BY <1>1, TakenIsThere
<1>3. CASE \E y \in transfers' : y.user = user /\ y.file = f
  BY <1>1, <1>3 DEF Safe
<1>4. ASSUME NEW u \in Threads, Failed(u)', Names(u, [user |-> user, file |-> f])'
      PROVE  [user |-> user, file |-> f] \in Safe'
  <2>1. [user |-> user, file |-> f] \in Wanted(u)'
    BY <1>4 DEF Names, Wanted
  <2>2. \E v \in Threads : Failed(v)' /\ [user |-> user, file |-> f] \in Wanted(v)'
    BY <1>4, <2>1
  <2> QED BY <2>2 DEF Safe
<1> QED BY <1>1, <1>2, <1>3, <1>4 DEF There, Has

\* Of the discs of a call's release, the files of all but those it has left, and
\* the one under way, are among the files safe.
DoneWith(c, safe) ==
  c.pc \in {"post", "accepted"} =>
    \A d \in c.release.discs :
      \/ d \in c.left
      \/ c.pc = "post" /\ d = c.disc
      \/ \A f \in d.files : [user |-> c.release.user, file |-> f] \in safe

DoneInv == CallTypeOK /\ AllSound /\ \A t \in Threads : DoneWith(call[t], Safe)

LEMMA ThreadDone ==
  ASSUME DoneInv, NEW t \in Threads, Grab(t) \/ Answered(t) \/ AnswerLost(t) \/ Compensate(t)
  PROVE  DoneInv'
<1>1. CallTypeOK /\ AllSound /\ CallTypeOK' /\ AllSound'
  BY ThreadSound DEF DoneInv
<1>2. Safe \subseteq Safe'
  BY <1>1, SafeGrows DEF Next
<1>3. call[t] \in Calls /\ Sound(call[t]) /\ \A u \in Threads : DoneWith(call[u], Safe)
  BY <1>1 DEF DoneInv, CallTypeOK, AllSound
<1>4. ASSUME NEW e \in Calls, Become(t, e), DoneWith(e, Safe') PROVE DoneInv'
  <2>1. call'[t] = e /\ \A u \in Threads \ {t} : call'[u] = call[u]
    BY <1>1, <1>4, BecomeIs
  <2>2. ASSUME NEW u \in Threads PROVE DoneWith(call'[u], Safe')
    <3>1. CASE u = t
      BY <1>4, <2>1, <3>1
    <3>2. CASE u # t
      BY <1>2, <1>3, <2>1, <3>2 DEF DoneWith
    <3> QED BY <3>1, <3>2
  <2> QED BY <1>1, <2>2 DEF DoneInv
<1>5. CASE Grab(t)
  <2>1. PICK r \in Releases, e \in Calls :
          Become(t, e) /\ Onward([Idle EXCEPT !.release = r, !.left = r.discs], e)
    BY <1>5, GrabIs
  <2> DEFINE c == [Idle EXCEPT !.release = r, !.left = r.discs]
  <2>2. c.release = r /\ c.left = r.discs
    BY DEF Idle
  <2>3. Onward(c, e)
    BY <2>1
  <2> HIDE DEF c
  <2>4. DoneWith(e, Safe')
    BY <2>2, <2>3 DEF Onward, DoneWith
  <2> QED BY <1>4, <2>1, <2>4
<1>6. CASE Answered(t)
  <2>1. PICK taken \in SUBSET Batch(t), e \in Calls :
          /\ transfers' = Taking(taken) /\ Become(t, e)
          /\ \/ Stays(call[t], e) /\ e.pc = "post" /\ e.disc = call[t].disc
             \/ e.pc = "raise"
             \/ taken = Batch(t) /\ Onward([call[t] EXCEPT !.passed = @ + 1], e)
    BY <1>1, <1>6, AnsweredIs
  <2>2. call[t].pc = "post"
    BY <1>1, <1>6, AnsweredIs
  <2>3. CASE Stays(call[t], e) /\ e.pc = "post" /\ e.disc = call[t].disc
    <3>1. DoneWith(e, Safe')
      BY <1>2, <1>3, <2>2, <2>3 DEF DoneWith, Stays
    <3> QED BY <1>4, <2>1, <3>1
  <2>4. CASE e.pc = "raise"
    <3>1. DoneWith(e, Safe')
      BY <2>4 DEF DoneWith
    <3> QED BY <1>4, <2>1, <3>1
  <2>5. CASE taken = Batch(t) /\ Onward([call[t] EXCEPT !.passed = @ + 1], e)
    <3> DEFINE c == [call[t] EXCEPT !.passed = @ + 1]
    <3>1. c.release = call[t].release /\ c.left = call[t].left
      BY <1>3 DEF Calls
    <3>2. Onward(c, e)
      BY <2>5
    <3> HIDE DEF c
    <3>3. \A f \in call[t].disc.files : [user |-> call[t].release.user, file |-> f] \in Safe'
      BY <2>1, <2>5, TakenIsSafe
    <3>4. \A d \in e.release.discs : \/ d \in e.left
                                     \/ e.pc = "post" /\ d = e.disc
                                     \/ d \notin call[t].left
      BY <3>1, <3>2 DEF Onward
    <3>5. DoneWith(e, Safe')
      <4> SUFFICES ASSUME NEW d \in call[t].release.discs, d \notin call[t].left, NEW f \in d.files
                   PROVE  [user |-> call[t].release.user, file |-> f] \in Safe'
        BY <3>1, <3>2, <3>4 DEF Onward, DoneWith
      <4>1. CASE d = call[t].disc
        BY <3>3, <4>1
      <4>2. CASE d # call[t].disc
        BY <1>2, <1>3, <2>2, <4>2 DEF DoneWith
      <4> QED BY <4>1, <4>2
    <3> QED BY <1>4, <2>1, <3>5
  <2> QED BY <2>1, <2>3, <2>4, <2>5
<1>7. CASE AnswerLost(t)
  <2>1. PICK e \in Calls : Become(t, e) /\ e.pc = "raise"
    BY <1>1, <1>7, AnswerLostIs
  <2>2. DoneWith(e, Safe')
    BY <2>1 DEF DoneWith
  <2> QED BY <1>4, <2>1, <2>2
<1>8. CASE Compensate(t)
  <2>1. PICK e \in Calls : Become(t, e) /\ e.pc = "failed"
    BY <1>1, <1>8, CompensateIs
  <2>2. DoneWith(e, Safe')
    BY <2>1 DEF DoneWith
  <2> QED BY <1>4, <2>1, <2>2
<1> QED BY <1>5, <1>6, <1>7, <1>8

LEMMA DoneAlways == Spec => []DoneInv
<1>1. Init => DoneInv
  <2> SUFFICES ASSUME Init PROVE DoneInv
    OBVIOUS
  <2>1. \A t \in Threads : call[t].pc = "idle"
    BY DEF Init, Idle
  <2> QED BY <2>1, InitSound DEF DoneInv, DoneWith
<1>2. DoneInv /\ [Next]_vars => DoneInv'
  <2> SUFFICES ASSUME DoneInv, [Next]_vars PROVE DoneInv'
    OBVIOUS
  <2>1. CASE Late \/ UNCHANGED vars
    <3>1. call' = call
      BY <2>1 DEF Late, vars
    <3>2. Safe \subseteq Safe'
      BY SafeGrows DEF DoneInv
    <3> QED BY <3>1, <3>2 DEF DoneInv, DoneWith, CallTypeOK, AllSound
  <2>2. ASSUME NEW t \in Threads, Grab(t) \/ Answered(t) \/ AnswerLost(t) \/ Compensate(t)
        PROVE  DoneInv'
    BY <2>2, ThreadDone
  <2> QED BY <2>1, <2>2 DEF Next
<1> QED BY <1>1, <1>2, PTL DEF Spec

\* For any grabs at once, a grab that was accepted misses none of its files, but
\* those another grab named and cancelled (download_service.py:86-103, 137).
THEOREM NothingMissing == Spec => []AcceptedIsComplete
<1>1. DoneInv => AcceptedIsComplete
  <2> SUFFICES ASSUME DoneInv, NEW t \in Threads, Accepted(t), NEW x \in Wanted(t)
               PROVE  Has(transfers, x) \/ \E u \in Threads : Failed(u) /\ Names(u, x)
    BY DEF AcceptedIsComplete
  <2>1. call[t].pc = "accepted" /\ call[t].left = {} /\ DoneWith(call[t], Safe)
    BY DEF DoneInv, AllSound, Sound, Accepted
  <2>2. PICK d \in call[t].release.discs : \E f \in d.files : x = [user |-> call[t].release.user, file |-> f]
    BY DEF Wanted, FilesOf
  <2>3. x \in Safe
    BY <2>1, <2>2 DEF DoneWith
  <2> QED BY <2>3 DEF Safe, Has, Names, Wanted
<1> QED BY <1>1, DoneAlways, PTL
=============================================================================
