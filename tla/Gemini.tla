------------------------------- MODULE Gemini -------------------------------
(***************************************************************************)
(* The parser: one call to Gemini for each caller, with its retries        *)
(* (generate in internal/infra/external/gemini/parse.go).  What Gemini     *)
(* says is left to the caller; here is whether it says anything.           *)
(***************************************************************************)
EXTENDS Naturals

CONSTANTS Callers,      \* who calls the parser: the batcher, and jobs of chats
          Batcher,      \* the only one whose context may be cancelled
          MaxAttempt    \* maxAttempt

ASSUME CallersAssumption == Batcher \in Callers /\ MaxAttempt \in Nat \ {0}

VARIABLES
  call,   \* the call of each caller: its phase, the attempt, and how it ended
  ctx     \* the context of the batcher: "live" or "cancelled"

geminiVars == <<call, ctx>>

NoCall == [phase |-> "none", attempt |-> 0, end |-> "none"]
Failures == {"ErrTooManyRequests", "ErrServiceUnavailable", "ErrInternal"}

GeminiInit == call = [c \in Callers |-> NoCall] /\ ctx = "live"

\* generate is called.
Ask(c) ==
  /\ call[c] = NoCall
  /\ call' = [call EXCEPT ![c] = [phase |-> "calling", attempt |-> 1, end |-> "none"]]
  /\ UNCHANGED ctx

\* The caller has what generate returned.
Forget(c) == call' = [call EXCEPT ![c] = NoCall] /\ UNCHANGED ctx

Ends(c, end) ==
  /\ call' = [call EXCEPT ![c].phase = "ended", ![c].end = end]
  /\ UNCHANGED ctx

Pauses(c) == call' = [call EXCEPT ![c].phase = "pausing"] /\ UNCHANGED ctx

\* Gemini answers, or the quota is used up, or the call fails otherwise: one attempt.
Answer(c) ==
  /\ call[c].phase = "calling"
  /\ \E end \in {"text", "ErrTooManyRequests", "ErrInternal"} : Ends(c, end)

\* Broken variant: the last attempt is followed by one more.
UnavailableAgain(c) == call[c].phase = "calling" /\ Pauses(c)

\* Gemini is unavailable: another attempt, unless this was the last.
Unavailable(c) ==
  /\ call[c].phase = "calling"
  /\ IF call[c].attempt = MaxAttempt THEN Ends(c, "ErrServiceUnavailable") ELSE Pauses(c)

\* Broken variant: the attempts are not counted.
RetryUncounted(c) ==
  /\ call[c].phase = "pausing"
  /\ call' = [call EXCEPT ![c].phase = "calling"]
  /\ UNCHANGED ctx

\* The pause is over.
Retry(c) ==
  /\ call[c].phase = "pausing"
  /\ call' = [call EXCEPT ![c].phase = "calling", ![c].attempt = @ + 1]
  /\ UNCHANGED ctx

\* The context is cancelled during the pause.
BreakOff ==
  /\ call[Batcher].phase = "pausing" /\ ctx = "cancelled"
  /\ Ends(Batcher, "ErrServiceUnavailable")

\* main cancels the context when the process is told to end.
Cancel == ctx = "live" /\ ctx' = "cancelled" /\ UNCHANGED call

GeminiNext ==
  \/ \E c \in Callers : Answer(c) \/ Unavailable(c) \/ Retry(c)
  \/ BreakOff \/ Cancel

GeminiTypeOK ==
  /\ \A c \in Callers :
       /\ call[c].phase \in {"none", "calling", "pausing", "ended"}
       /\ call[c].attempt \in 0 .. MaxAttempt
       /\ call[c].end \in {"none", "text"} \cup Failures
       /\ call[c].end # "none" <=> call[c].phase = "ended"
  /\ ctx \in {"live", "cancelled"}
=============================================================================
