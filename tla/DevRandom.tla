----------------------------- MODULE DevRandom -----------------------------
(***************************************************************************)
(* cc_get_entropy over the random device (src/ccrng/src/ccrng_entropy.c,   *)
(* the branch for Linux and older systems): a loop that opens the device,  *)
(* a loop that reads until the buffer is full, and the descriptor between  *)
(* them.  open and read fail, are interrupted, and read is cut short; the  *)
(* rest of the process opens and closes descriptors of its own.            *)
(***************************************************************************)
EXTENDS Integers

CONSTANTS
  Size,           \* bytes asked for
  MaxInterrupts,  \* OP_INTERRUPT_MAX
  Descriptors,    \* the process's table of descriptors
  MaxCalls        \* bound: calls

VARIABLES
  pc,           \* the loop cc_get_entropy is in: "open", "read"; or "close", "idle"
  fd,           \* *pfd; -1: none
  status,
  interrupts,   \* of the loop that runs, at most MaxInterrupts + 1 (more is the same)
  remaining,    \* entropy_size
  entropy,      \* position in the buffer -> number of the device's byte, 0: none
  drawn,        \* bytes the device has given out
  mine,         \* descriptors cc_get_entropy has open
  others,       \* descriptors the rest of the process has open
  calls

vars == <<pc, fd, status, interrupts, remaining, entropy, drawn, mine, others, calls>>

NoEntropy == [i \in 1..Size |-> 0]
Free == Descriptors \ (mine \union others)
Lowest(S) == CHOOSE d \in S : \A e \in S : d <= e

Init ==
  /\ pc = "idle" /\ fd = -1 /\ status = "OK" /\ interrupts = 0
  /\ remaining = 0 /\ entropy = NoEntropy /\ drawn = 0
  /\ mine = {} /\ others \in {{}, {0}}   \* without a standard input, or with one
  /\ calls = 0

Call ==
  /\ pc = "idle" /\ calls < MaxCalls
  /\ calls' = calls + 1
  /\ pc' = "open" /\ fd' = -1 /\ status' = "INTERNAL" /\ interrupts' = 0
  /\ remaining' = Size /\ entropy' = NoEntropy
  /\ UNCHANGED <<drawn, mine, others>>

(***************************************************************************)
(* init_dev_random.                                                        *)
(***************************************************************************)

\* Mutant: a status left by a failed open keeps the loop going.
OpenDeviceByStatus ==
  /\ pc = "open" /\ Free # {}
  /\ fd' = Lowest(Free) /\ mine' = mine \union {fd'}
  /\ IF status = "INTERNAL" THEN status' = "OK" /\ pc' = "read" ELSE UNCHANGED <<status, pc>>
  /\ interrupts' = 0
  /\ UNCHANGED <<remaining, entropy, drawn, others, calls>>

\* open yields the lowest free descriptor, and any ends the loop; but only a positive
\* one counts as success.  0 is taken for a failure, and the call is over.
OpenDevice ==
  /\ pc = "open" /\ Free # {}
  /\ fd' = Lowest(Free) /\ mine' = mine \union {fd'}
  /\ IF fd' > 0 THEN status' = "OK" /\ pc' = "read" ELSE UNCHANGED status /\ pc' = "idle"
  /\ interrupts' = 0
  /\ UNCHANGED <<remaining, entropy, drawn, others, calls>>

Interrupt ==
  /\ interrupts' = IF interrupts > MaxInterrupts THEN interrupts ELSE interrupts + 1
  /\ status' = IF interrupts' > MaxInterrupts THEN "INTERRUPTS" ELSE status

\* Every failure sets the status, and the loop goes round again.
OpenFails ==
  /\ pc = "open"
  /\ Interrupt \/ (status' = "ERRNO" /\ UNCHANGED interrupts)
  /\ UNCHANGED <<pc, fd, remaining, entropy, drawn, mine, others, calls>>

(***************************************************************************)
(* The loop of reads.                                                      *)
(***************************************************************************)

\* Mutant: the position does not move with a short read.
ReadRestarts ==
  /\ pc = "read" /\ remaining > 0
  /\ \E n \in 0..remaining :
       /\ entropy' = [i \in 1..Size |-> IF i <= n THEN drawn + i ELSE entropy[i]]
       /\ remaining' = remaining - n
       /\ drawn' = drawn + n
  /\ UNCHANGED <<pc, fd, status, interrupts, mine, others, calls>>

\* read yields n bytes, none at the end of the file: the loop goes on all the same.
Read ==
  /\ pc = "read" /\ remaining > 0
  /\ \E n \in 0..remaining :
       LET at == Size - remaining IN
       /\ entropy' = [i \in 1..Size |-> IF i > at /\ i <= at + n THEN drawn + i - at
                                                                ELSE entropy[i]]
       /\ remaining' = remaining - n
       /\ drawn' = drawn + n
  /\ UNCHANGED <<pc, fd, status, interrupts, mine, others, calls>>

\* Mutant: an error returns at once.
ReadFailsReturns ==
  /\ pc = "read" /\ remaining > 0
  /\ \/ Interrupt
     \/ UNCHANGED <<interrupts, status>>
     \/ status' = "ERRNO" /\ UNCHANGED interrupts
  /\ pc' = IF status' = "OK" THEN "read" ELSE "idle"
  /\ UNCHANGED <<fd, remaining, entropy, drawn, mine, others, calls>>

\* An interrupt (EINTR) and EAGAIN are tried again, up to a number of interrupts;
\* any other error ends the loop.
ReadFails ==
  /\ pc = "read" /\ remaining > 0
  /\ \/ Interrupt
     \/ UNCHANGED <<interrupts, status>>
     \/ status' = "ERRNO" /\ UNCHANGED interrupts
  /\ pc' = IF status' = "OK" THEN "read" ELSE "close"
  /\ UNCHANGED <<fd, remaining, entropy, drawn, mine, others, calls>>

ReadDone ==
  /\ pc = "read" /\ remaining = 0
  /\ pc' = "close"
  /\ UNCHANGED <<fd, status, interrupts, remaining, entropy, drawn, mine, others, calls>>

\* close_dev_random, and the return.
Close ==
  /\ pc = "close"
  /\ mine' = mine \ {fd} /\ fd' = -1
  /\ pc' = "idle"
  /\ UNCHANGED <<status, interrupts, remaining, entropy, drawn, others, calls>>

(***************************************************************************)
(* The rest of the process.                                                *)
(***************************************************************************)
OthersOpen ==
  /\ Free # {} /\ others' = others \union {Lowest(Free)}
  /\ UNCHANGED <<pc, fd, status, interrupts, remaining, entropy, drawn, mine, calls>>

OthersClose ==
  /\ \E d \in others : others' = others \ {d}
  /\ UNCHANGED <<pc, fd, status, interrupts, remaining, entropy, drawn, mine, calls>>

Next ==
  \/ Call
  \/ OpenDevice \/ OpenFails
  \/ Read \/ ReadFails \/ ReadDone
  \/ Close
  \/ OthersOpen \/ OthersClose

Spec == Init /\ [][Next]_vars

\* The code runs; the device can be opened again and again, and yields bytes
\* again and again; the process does not keep its table full for ever.
Fairness ==
  /\ WF_vars(ReadDone) /\ WF_vars(Close)
  /\ SF_vars(OpenDevice) /\ SF_vars(Read /\ remaining' < remaining)
  /\ WF_vars(OthersClose)

FairSpec == Spec /\ Fairness

(***************************************************************************)
(* Properties.                                                             *)
(***************************************************************************)

\* A call that reports success has filled the buffer with the bytes the device gave
\* out meanwhile, each once, however its reads were cut and interrupted; and a call
\* that is over, failed or not, leaves none of its descriptors open but, at most,
\* descriptor 0.  That one exception is the code's: where open yields 0 the call fails
\* and returns without closing it (ccrng_entropy.c:150, 174), and what it has left
\* open then stays so for ever, next to no other.
FilledOnSuccess ==
  pc = "idle" =>
    /\ (calls > 0 /\ status = "OK") => \A i \in 1..Size : entropy[i] = drawn - Size + i
    /\ mine \subseteq {0}

\* "No need to close the file" (ccrng_entropy.c:174): a call that returns the status of
\* init_dev_random has no descriptor open.  It may have descriptor 0.
NoNeedToClose == (pc = "idle" /\ status # "OK") => mine = {}

\* A call returns, provided the device can be opened and yields bytes again and again:
\* no interrupts, EAGAIN or empty reads in between keep it for ever.
CallReturns == pc # "idle" ~> pc = "idle"
=============================================================================
