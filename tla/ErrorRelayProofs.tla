-------------------------- MODULE ErrorRelayProofs --------------------------
(***************************************************************************)
(* Why no error reaches a page, for any sockets and errors.                *)
(***************************************************************************)
EXTENDS ErrorRelay, TLAPS

\* The registries are functions of the handlers, messages of the sockets.
Types ==
    /\ m_registry \in [FileHandlers -> SUBSET Sockets]
    /\ errorMessages = [s \in Sockets |-> errorMessages[s]]
    /\ connection = [s \in Sockets |-> connection[s]]
    /\ due = [s \in Sockets |-> due[s]]

\* A page is told no error, ever.
NoErrorArrives == \A s \in Sockets : errorMessages[s] \cap Errors = {}

\* The copy of the FileHandler behind /error never has a websocket.
NobodyRegistered == m_registry["/error"] = {}

SilenceInv == Types /\ NobodyRegistered /\ NoErrorArrives

\* Echo and pong are no errors somebody posts.
LEMMA SilenceStep ==
    ASSUME Errors \cap {"echo", "pong"} = {}
    PROVE  SilenceInv /\ [Next]_vars => SilenceInv'
<1> SUFFICES ASSUME SilenceInv, [Next]_vars PROVE SilenceInv'
  OBVIOUS
<1> USE DEF SilenceInv, Types, NobodyRegistered, NoErrorArrives, FileHandlers
<1>1. ASSUME NEW s \in Sockets, OnLiveUpdate(s) PROVE SilenceInv'
  BY <1>1 DEF OnLiveUpdate
<1>2. ASSUME NEW s \in Sockets, Echo(s) PROVE SilenceInv'
  <2>1. PICK answer \in {"echo", "pong"} :
           errorMessages' = [errorMessages EXCEPT ![s] = @ \cup {answer}]
    BY <1>2 DEF Echo
  <2>2. answer \notin Errors
    OBVIOUS
  <2> QED
    BY <1>2, <2>1, <2>2 DEF Echo
<1>3. ASSUME NEW s \in Sockets, CloseFrame(s) \/ BreaksOff(s) PROVE SilenceInv'
  BY <1>3 DEF CloseFrame, BreaksOff
<1>4. ASSUME NEW e \in Errors, OnError(e) PROVE SilenceInv'
  BY <1>4 DEF OnError, SendMessage
<1>5. CASE UNCHANGED vars
  BY <1>5 DEF vars
<1> QED
  BY <1>1, <1>2, <1>3, <1>4, <1>5 DEF Next

(* An error posted reaches no page, whoever is connected: the registry that
   /chat fills is not the one that /error looks at (main.cpp:36-40, 206, 220,
   file_handler_t.cpp:69-113).                                               *)
THEOREM NobodyIsTold ==
    ASSUME Errors \cap {"echo", "pong"} = {}
    PROVE  Spec => []NoErrorArrives
<1>1. Init => SilenceInv
  BY DEF Init, SilenceInv, Types, NobodyRegistered, NoErrorArrives, FileHandlers
<1>2. SilenceInv => NoErrorArrives
  BY DEF SilenceInv
<1> QED
  BY <1>1, <1>2, SilenceStep, PTL DEF Spec

=============================================================================
