------------------------------ MODULE GraphRetry ------------------------------
(***************************************************************************)
(* WhatsAppCloudAPIClient._post_with_retry (client.py): one call to Meta's *)
(* Graph API per caller at a time, retried on transient answers and on     *)
(* timeouts.  Meta may accept a message whose answer never arrives.        *)
(***************************************************************************)
EXTENDS Naturals

CONSTANTS
    Callers,          \* tasks that send
    MaxRetries,       \* WHATSAPP_MAX_RETRIES
    HasCredentials    \* api_token and phone_number_id are configured

ASSUME GraphAssumption ==
    /\ MaxRetries \in Nat
    /\ HasCredentials \in BOOLEAN

VARIABLES
    call,        \* each caller's _post_with_retry
    attempt,     \* its local variable of that name
    copies       \* messages that Meta accepted from this call

graphVars == <<call, attempt, copies>>

CallStates == {"idle", "posting", "returned", "raised"}

GraphTypeOK ==
    /\ call \in [Callers -> CallStates]
    /\ attempt \in [Callers -> 0..MaxRetries]
    /\ copies \in [Callers -> Nat]

GraphInit ==
    /\ call = [c \in Callers |-> "idle"]
    /\ attempt = [c \in Callers |-> 0]
    /\ copies = [c \in Callers |-> 0]

-----------------------------------------------------------------------------

\* Without credentials the call returns a mock id at once and sends nothing.
StartPost(c) ==
    /\ call[c] = "idle"
    /\ call' = [call EXCEPT ![c] = IF HasCredentials THEN "posting" ELSE "returned"]
    /\ attempt' = [attempt EXCEPT ![c] = 0]
    /\ copies' = [copies EXCEPT ![c] = 0]

\* A 2xx answer: Meta has the message, and the caller gets its id.
Accepted(c) ==
    /\ call[c] = "posting"
    /\ call' = [call EXCEPT ![c] = "returned"]
    /\ copies' = [copies EXCEPT ![c] = @ + 1]
    /\ UNCHANGED attempt

\* Slip: a retry is not counted.
TransientUncounted(c) ==
    /\ call[c] = "posting"
    /\ \E reached \in {0, 1} : copies' = [copies EXCEPT ![c] = @ + reached]
    /\ IF attempt[c] < MaxRetries
       THEN UNCHANGED call
       ELSE call' = [call EXCEPT ![c] = "raised"]
    /\ UNCHANGED attempt

\* 429, 5xx, a timeout or a network error: Meta accepted the message or did not.
Transient(c) ==
    /\ call[c] = "posting"
    /\ \E reached \in {0, 1} : copies' = [copies EXCEPT ![c] = @ + reached]
    /\ IF attempt[c] < MaxRetries
       THEN /\ attempt' = [attempt EXCEPT ![c] = @ + 1]
            /\ UNCHANGED call
       ELSE /\ call' = [call EXCEPT ![c] = "raised"]
            /\ UNCHANGED attempt

\* Any other status >= 400 is translated to an exception at once (an expired
\* token, a closed 24-hour window, a restricted recipient), and an exception that
\* the loop does not name (a broken answer, a pool timeout) passes through it.
Rejected(c) ==
    /\ call[c] = "posting"
    /\ \E reached \in {0, 1} : copies' = [copies EXCEPT ![c] = @ + reached]
    /\ call' = [call EXCEPT ![c] = "raised"]
    /\ UNCHANGED attempt

\* The call is over, however it ended, and its local variables with it.
HangUp(c) ==
    /\ call' = [call EXCEPT ![c] = "idle"]
    /\ attempt' = [attempt EXCEPT ![c] = 0]
    /\ copies' = [copies EXCEPT ![c] = 0]

=============================================================================
