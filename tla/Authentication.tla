--------------------------- MODULE Authentication ---------------------------
(***************************************************************************)
(* services/auth: AuthManager.initialize and the sessions SessionManager   *)
(* keeps in the database, one action per await.  It is called at most      *)
(* twice: by the start of the auth service and, when that has come to      *)
(* nothing, by BrokerApiHealthCheck.                                       *)
(*                                                                         *)
(* stored is what the database holds: no session it would still hand out,  *)
(* one Zerodha accepts ("live"), or one Zerodha refuses although its 24    *)
(* hours are not over ("stale").                                           *)
(***************************************************************************)
EXTENDS FaultBudget

VARIABLES
    auth_pc,           \* the await initialize is suspended at
    auth_status,       \* _status
    profile,           \* whether _user_profile is set
    current_session,   \* whether _current_session is set
    stored,
    shutdown_event     \* the application's _shutdown_event

auth_vars == <<auth_pc, auth_status, profile, current_session, stored>>

AuthTypeOK ==
    /\ auth_pc \in {"off", "load", "validate", "prompt", "exchange", "save", "done"}
    /\ auth_status \in {"UNAUTHENTICATED", "AUTHENTICATING", "AUTHENTICATED", "ERROR"}
    /\ profile \in BOOLEAN
    /\ current_session \in BOOLEAN
    /\ stored \in {"none", "live", "stale"}
    /\ shutdown_event \in BOOLEAN
    /\ faults \in Nat

AuthInit ==
    /\ auth_pc = "off"
    /\ auth_status = "UNAUTHENTICATED"
    /\ profile = FALSE
    /\ current_session = FALSE
    /\ stored \in {"none", "live", "stale"}
    /\ shutdown_event = FALSE
    /\ faults = 0

AuthFails ==
    /\ auth_pc' = "done"
    /\ auth_status' = "ERROR"

\* initialize: without credentials or a client for them there is no login.  What
\* an earlier call has cached stays.
BeginAuth(credentials) ==
    /\ auth_pc \in {"off", "done"}
    /\ IF credentials
       THEN auth_pc' = "load" /\ UNCHANGED auth_status
       ELSE AuthFails
    /\ UNCHANGED <<profile, current_session, stored, shutdown_event, faults>>

\* _interactive_authentication up to the prompt
BeginPrompt ==
    /\ auth_pc' = "prompt"
    /\ auth_status' = "AUTHENTICATING"

\* load_session
LoadSession ==
    /\ auth_pc = "load"
    /\ IF stored = "none"
       THEN BeginPrompt /\ UNCHANGED current_session
       ELSE auth_pc' = "validate" /\ current_session' = TRUE /\ UNCHANGED auth_status
    /\ UNCHANGED <<profile, stored, shutdown_event, faults>>

\* The query raises, or the commit after the session has been cached.
LoadSessionFails ==
    /\ auth_pc = "load"
    /\ Fault
    /\ current_session' \in {FALSE, stored # "none"}
    /\ BeginPrompt
    /\ UNCHANGED <<profile, stored, shutdown_event>>

\* get_profile confirms the session.
ValidateSession ==
    /\ auth_pc = "validate"
    /\ stored = "live"
    /\ profile' = TRUE
    /\ auth_pc' = "done"
    /\ auth_status' = "AUTHENTICATED"
    /\ UNCHANGED <<current_session, stored, shutdown_event, faults>>

\* Zerodha refuses it or cannot be reached: invalidate_session and the prompt.
RefuseSession ==
    /\ auth_pc = "validate"
    /\ IF stored = "live" THEN Fault ELSE UNCHANGED faults
    /\ stored' = "none"
    /\ current_session' = FALSE
    /\ BeginPrompt
    /\ UNCHANGED <<profile, shutdown_event>>

\* invalidate_session only logs that it failed.
RefuseSessionFails ==
    /\ auth_pc = "validate"
    /\ Fault
    /\ BeginPrompt
    /\ UNCHANGED <<profile, current_session, stored, shutdown_event>>

\* _prompt_for_input: a request token, unless the application is shutting down.
EnterToken ==
    /\ auth_pc = "prompt"
    /\ ~shutdown_event
    /\ auth_pc' = "exchange"
    /\ UNCHANGED <<auth_status, profile, current_session, stored, shutdown_event, faults>>

\* The 300 seconds are over, the application is shutting down, or there is no
\* login page to show.
NoToken ==
    /\ auth_pc = "prompt"
    /\ AuthFails
    /\ UNCHANGED <<profile, current_session, stored, shutdown_event, faults>>

\* KeyboardInterrupt at the prompt: set_shutting_down.
PromptCancelled ==
    /\ auth_pc = "prompt"
    /\ AuthFails
    /\ shutdown_event' = TRUE
    /\ UNCHANGED <<profile, current_session, stored, faults>>

\* _generate_session: the token is exchanged and the profile fetched.
GenerateSession ==
    /\ auth_pc = "exchange"
    /\ profile' = TRUE
    /\ auth_pc' = "save"
    /\ UNCHANGED <<auth_status, current_session, stored, shutdown_event, faults>>

TokenRefused ==
    /\ auth_pc = "exchange"
    /\ AuthFails
    /\ UNCHANGED <<profile, current_session, stored, shutdown_event, faults>>

\* save_session
SaveSession ==
    /\ auth_pc = "save"
    /\ stored' = "live"
    /\ current_session' = TRUE
    /\ auth_pc' = "done"
    /\ auth_status' = "AUTHENTICATED"
    /\ UNCHANGED <<profile, shutdown_event, faults>>

SaveSessionFails ==
    /\ auth_pc = "save"
    /\ Fault
    /\ stored' \in {stored, "live"}
    /\ AuthFails
    /\ UNCHANGED <<profile, current_session, shutdown_event>>

\* Mutant of SessionEnds: an expired session stays active.
SessionEndsActive ==
    /\ stored # "none"
    /\ stored' = "expired"
    /\ UNCHANGED <<auth_pc, auth_status, profile, current_session, shutdown_event, faults>>

\* The 24 hours of the stored session are over, or Zerodha ends it early.
SessionEnds ==
    /\ stored # "none"
    /\ stored' \in {"none", "stale"} \ {stored}
    /\ UNCHANGED <<auth_pc, auth_status, profile, current_session, shutdown_event, faults>>

\* What initialize goes on with by itself once it has begun.
AuthStep ==
    \/ LoadSession \/ LoadSessionFails
    \/ ValidateSession \/ RefuseSession \/ RefuseSessionFails
    \/ EnterToken \/ NoToken \/ PromptCancelled
    \/ GenerateSession \/ TokenRefused
    \/ SaveSession \/ SaveSessionFails

=============================================================================
