------------------------------- MODULE HttpSend -------------------------------
(***************************************************************************)
(* What HttpClient.send (src/aa_crawler/http/client.py) promises its       *)
(* callers, with the timing, the hosts and the reasons for a retry left    *)
(* out: a call makes between one and its budget of physical requests, then *)
(* ends exactly once.  It gives up with "the response stayed retryable"    *)
(* only when the budget is spent, and it never exceeds the budget, which   *)
(* is one request for a method that may not be repeated.                   *)
(* HttpClient implements this module (HttpClient!Promise).                 *)
(***************************************************************************)
EXTENDS Naturals

CONSTANTS
    Methods,        \* the request methods callers use
    Budget(_)       \* Budget(m): physical requests one call with method m may
                    \* make, at least one

VARIABLES
    open,           \* a call is being served
    method,         \* its method
    tries,          \* physical requests it has made
    answer          \* how the last finished call ended

vars == <<open, method, tries, answer>>

\* How a call ends: a response, one of the two crawler errors, or an exception
\* that is not an httpx.HTTPError and passes through send() untranslated.
Answers == {"response", "RequestError", "ResponseError", "unexpected"}

Init ==
    /\ open = FALSE
    /\ method \in Methods
    /\ tries = 0
    /\ answer = "none"

Open(m) ==
    /\ ~open
    /\ open' = TRUE
    /\ method' = m
    /\ tries' = 0
    /\ answer' = "none"

\* One more physical request whose failure is worth another one.
Try ==
    /\ open
    /\ tries + 1 < Budget(method)
    /\ tries' = tries + 1
    /\ UNCHANGED <<open, method, answer>>

\* The request that ends the call.
Close(a) ==
    /\ open
    /\ tries < Budget(method)
    /\ a = "ResponseError" => tries + 1 = Budget(method)
    /\ open' = FALSE
    /\ tries' = tries + 1
    /\ answer' = a
    /\ UNCHANGED method

Next ==
    \/ \E m \in Methods : Open(m)
    \/ Try
    \/ \E a \in Answers : Close(a)

Spec == Init /\ [][Next]_vars
===============================================================================
