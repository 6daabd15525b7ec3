----------------------------- MODULE ErrorRelay -----------------------------
(* How an error would get from the Raspberry Pi to the PCs that watch it: the
   PC's page opens a websocket at /chat (PC_client/pc_client.html), the client
   posts to /error (ServerComs::writeError), the server sends the message to the
   websockets it has registered (server/src/file_handler_t.cpp).

   The handlers of "/", /chat and /error are made by std::bind, which stores a
   copy of the FileHandler in each of them.  So there are four FileHandlers, each
   with a registry, and a handler works on its own.

   Nothing in the client calls writeError; that somebody posts is supposed.  The
   server runs one handler at a time.                                        *)
CONSTANTS
    Sockets,   \* connections, each with the id of its own
    Errors     \* the texts that are posted

\* The FileHandler of main and its copies, one a bound route.
FileHandlers == {"main", "/", "/chat", "/error"}

VARIABLES
    m_registry,     \* the websockets in the registry of each FileHandler
    connection,     \* "none", "open" or "closed", of each socket
    errorMessages,  \* what the page behind a socket has been sent
    due             \* history: the errors posted while the socket was open

vars == <<m_registry, connection, errorMessages, due>>

Init ==
    /\ m_registry = [f \in FileHandlers |-> {}]
    /\ connection = [s \in Sockets |-> "none"]
    /\ errorMessages = [s \in Sockets |-> {}]
    /\ due = [s \in Sockets |-> {}]

\* on_live_update; a request that is no upgrade is rejected and changes nothing.
OnLiveUpdate(s) ==
    /\ connection[s] = "none"
    /\ connection' = [connection EXCEPT ![s] = "open"]
    /\ m_registry' = [m_registry EXCEPT !["/chat"] = @ \cup {s}]
    /\ UNCHANGED <<errorMessages, due>>

\* A text comes back to the page that sent it, and so does a ping.
Echo(s) ==
    /\ connection[s] = "open"
    /\ \E answer \in {"echo", "pong"} :
          errorMessages' = [errorMessages EXCEPT ![s] = @ \cup {answer}]
    /\ UNCHANGED <<m_registry, connection, due>>

\* The page is left: a close frame arrives.
CloseFrame(s) ==
    /\ connection[s] = "open"
    /\ connection' = [connection EXCEPT ![s] = "closed"]
    /\ m_registry' = [m_registry EXCEPT !["/chat"] = @ \ {s}]
    /\ UNCHANGED <<errorMessages, due>>

\* The connection breaks off and nobody tells the server.
BreaksOff(s) ==
    /\ connection[s] = "open"
    /\ connection' = [connection EXCEPT ![s] = "closed"]
    /\ UNCHANGED <<m_registry, errorMessages, due>>

\* A FileHandler sends to the websockets of its own registry.
SendMessage(f, e) ==
    errorMessages' =
        [s \in Sockets |->
            errorMessages[s] \cup
                IF s \in m_registry[f] /\ connection[s] = "open" THEN {e} ELSE {}]

OnError(e) ==
    /\ SendMessage("/error", e)
    /\ due' = [s \in Sockets |->
                  due[s] \cup IF connection[s] = "open" THEN {e} ELSE {}]
    /\ UNCHANGED <<m_registry, connection>>

Next ==
    \/ \E s \in Sockets : OnLiveUpdate(s) \/ Echo(s) \/ CloseFrame(s) \/ BreaksOff(s)
    \/ \E e \in Errors : OnError(e)

Spec == Init /\ [][Next]_vars

---------------------------------------------------------------------------
(* "Write error" from the client to the server is followed by "Write error" from
   the server to the PC client (Diagrammer/SD/3_control_audio.puml:51-53): every
   page connected gets an error that is posted.  The code violates it: a
   websocket is registered in the copy behind /chat, and the copy behind /error
   has nobody in its registry (main.cpp:36-40, 206, 220).                    *)
ErrorReachesPages == \A s \in Sockets : due[s] \subseteq errorMessages[s]
=============================================================================
