------------------------------- MODULE IpcServer ------------------------------
(***************************************************************************)
(* The sysmodule's end of `rommsync`: ServiceServer's loop over one port   *)
(* and its sessions (sysmodule/source/ipc/server.cpp), HandleRequest       *)
(* (service.cpp), and ipc::Dispatch with the bounded answers ServiceCore   *)
(* gives (core/src/ipc_service.cpp).                                       *)
(*                                                                         *)
(* One thread serves every overlay, through one message buffer: a reply    *)
(* stands in it until the next svcReplyAndReceive sends it, and between    *)
(* the two its client may have gone. The table of handles is kept dense,   *)
(* so dropping one session moves another. Overlays come and go with every  *)
(* button press, and a server that stopped, answered the wrong one, or     *)
(* never answered, is a sysmodule that looks as if it were not running.    *)
(***************************************************************************)
EXTENDS Integers, Sequences, FiniteSets, SequencesExt

CONSTANTS
    Overlays,                  \* the processes that open sessions
    kMaxSessions,              \* the sessions the port takes at once
    kMaxPayloadBytes,          \* what one answer may weigh
    kMaxDiagnosticsInPayload,  \* complaints one answer carries
    MaxTouches,                \* sessions opened and requests sent in one behaviour
    NoClient                     \* INVALID_HANDLE

ASSUME IpcServerConstants ==
    /\ {kMaxSessions, kMaxPayloadBytes, kMaxDiagnosticsInPayload} \subseteq Nat \ {0}
    /\ MaxTouches \in Nat /\ NoClient \notin Overlays

VARIABLES
    table,    \* handles_[1 ..]: the live sessions, after the port
    replyTo,  \* reply_target_: whose reply stands in the buffer
    message,  \* the thread's IPC buffer
    client,   \* where each overlay is with its session
    asked,    \* the request it has sent
    serving,  \* Run has not returned
    touches   \* sessions opened and requests sent so far

ipcVars == <<table, replyTo, message, client, asked, serving, touches>>

ClientStates == {"away", "knocking", "open", "asking", "served", "closing", "gone"}

\* The commands, by how they are answered: without a request, with one, with
\* the configuration, with the end of the log -- and a number that is none.
Commands == {"status", "edit", "config", "log", "unknown"}

\* A request as another process wrote it, and the room it left for an answer.
Requests ==
    [frame : {"request", "other"}, command : Commands,
     body : {"read", "malformed", "oversized"}, room : {0, kMaxPayloadBytes}]

\* ipc::Error, as far as this layer raises it.
Errors == {"ok", "unknown command", "malformed", "too large"}

(***************************************************************************)
(* ServiceCore::GetConfig. The command may not fail, so what cannot be     *)
(* sent is left out and said: first the folder map, then complaints from   *)
(* the end of the list, with a notice of how many went.                    *)
(***************************************************************************)
Notice == 1

Weight(diagnostics) == FoldLeft(+, 0, diagnostics)

ViewWeight(view) == 1 + view.platforms + Weight(view.diagnostics)

Fits(view) == ViewWeight(view) <= kMaxPayloadBytes

TrimDiagnostics(ds) ==
    IF Len(ds) > kMaxDiagnosticsInPayload
    THEN Append(SubSeq(ds, 1, kMaxDiagnosticsInPayload - 1), Notice) ELSE ds

WithoutMap(view, ds) ==
    IF Fits(view) THEN view
    ELSE [platforms |-> 0, truncated |-> TRUE, notices |-> view.notices + 1,
          diagnostics |-> TrimDiagnostics(<<Notice>> \o ds)]

\* How many complaints, from the front, still fit.
Fitting(view) ==
    LET fits == {k \in 0 .. Len(view.diagnostics) :
                    1 + view.platforms + Weight(SubSeq(view.diagnostics, 1, k)) <= kMaxPayloadBytes}
    IN IF fits = {} THEN 0 ELSE CHOOSE k \in fits : \A j \in fits : j <= k

\* Mutant: the notice of how many complaints went is added to a full list.
PopToFitFull(view) ==
    LET kept == Fitting(view)
    IN IF kept = Len(view.diagnostics) THEN view
       ELSE [view EXCEPT !.notices = @ + 1,
                         !.diagnostics = Append(SubSeq(view.diagnostics, 1, kept), Notice)]

PopToFit(view) ==
    LET kept == Fitting(view)
        said == [view EXCEPT !.notices = @ + 1,
                   !.diagnostics = Append(SubSeq(view.diagnostics, 1, kept - 1), Notice)]
    IN IF kept = Len(view.diagnostics) THEN view
       ELSE IF Fits(said) THEN said
       ELSE [view EXCEPT !.diagnostics = <<>>]

ConfigView(platforms, ds) ==
    PopToFit(WithoutMap([platforms |-> platforms, truncated |-> FALSE,
                         notices |-> IF Len(ds) > kMaxDiagnosticsInPayload THEN 1 ELSE 0,
                         diagnostics |-> TrimDiagnostics(ds)], ds))

(***************************************************************************)
(* ServiceCore::GetLog: filled from the newest line backwards, and turned  *)
(* round, so what falls off is the oldest.                                 *)
(***************************************************************************)
LogTail(lines) ==
    LET Newest(k) == SubSeq(lines, Len(lines) - k + 1, Len(lines))
        fits == {k \in 0 .. Len(lines) : 1 + Weight(Newest(k)) <= kMaxPayloadBytes}
    IN Newest(CHOOSE k \in fits : \A j \in fits : j <= k)

\* What the engine holds when it is asked: weights of what the user wrote.
Complaints == UNION {[1 .. n -> {1, 2}] : n \in 0 .. 3}

ConfigPayloads == {ViewWeight(ConfigView(p, ds)) : p \in 0 .. 2, ds \in Complaints}

LogPayloads == {1 + Weight(LogTail(ls)) : ls \in Complaints}

Payloads(command) ==
    CASE command = "config" -> ConfigPayloads
      [] command = "log" -> LogPayloads
      [] OTHER -> {1}

(***************************************************************************)
(* Dispatch: the command, then the request -- the one it takes, or for the *)
(* commands that take none an empty one --, then the answer, which is      *)
(* whole or is refused as too large.                                       *)
(***************************************************************************)
Refusal(error) == {[error |-> error, bytes |-> 0, whole |-> 0]}

DispatchCommand(r) ==
    IF r.command = "unknown" THEN Refusal("unknown command")
    ELSE IF r.body = "malformed" THEN Refusal("malformed")
    ELSE {IF weight > kMaxPayloadBytes THEN [error |-> "too large", bytes |-> 0, whole |-> 0]
          ELSE [error |-> "ok", bytes |-> weight, whole |-> weight] : weight \in Payloads(r.command)}

\* Mutant: an answer larger than the caller's buffer is cut to it.
IntoBufferCut(r, answer) ==
    [answer EXCEPT !.bytes = IF @ > r.room THEN r.room ELSE @]

\* The answer into the caller's buffer: never a part of it.
IntoBuffer(r, answer) ==
    IF answer.bytes = 0 \/ answer.bytes <= r.room THEN answer
    ELSE [error |-> IF r.room = 0 THEN "malformed" ELSE "too large", bytes |-> 0, whole |-> 0]

(***************************************************************************)
(* HandleRequest: what was sent is checked before any of it is read, and   *)
(* every refusal is still a reply.                                         *)
(***************************************************************************)
HandleRequest(r) ==
    IF r.frame # "request" \/ r.body = "oversized" THEN Refusal("malformed")
    ELSE {IntoBuffer(r, answer) : answer \in DispatchCommand(r)}

NoRequest == [frame |-> "other", command |-> "unknown", body |-> "read", room |-> 0]

Silence == [to |-> NoClient, error |-> "ok", bytes |-> 0, whole |-> 0]

IpcInit ==
    /\ table = <<>>
    /\ replyTo = NoClient
    /\ message = Silence
    /\ client = [o \in Overlays |-> "away"]
    /\ asked = [o \in Overlays |-> NoRequest]
    /\ serving = TRUE
    /\ touches = 0

(***************************************************************************)
(* The overlays.                                                           *)
(***************************************************************************)
Moves(o, from, to) == client[o] \in from /\ client' = [client EXCEPT ![o] = to]

\* The kernel counts a session until the server has closed its end of it.
Sessions == {o \in Overlays : client[o] = "knocking"} \union ToSet(table)

Connect(o) ==
    /\ Moves(o, {"away"}, "knocking")
    /\ Cardinality(Sessions) < kMaxSessions
    /\ touches < MaxTouches /\ touches' = touches + 1
    /\ UNCHANGED <<table, replyTo, message, asked, serving>>

\* Only what the layer tells apart: a body that is read or not, room or none.
AskServer(o) ==
    /\ touches < MaxTouches
    /\ Moves(o, {"open"}, "asking")
    /\ \E r \in Requests :
          /\ r.frame # "request" => r.command = "status" /\ r.body = "read"
          /\ asked' = [asked EXCEPT ![o] = r]
    /\ touches' = touches + 1
    /\ UNCHANGED <<table, replyTo, message, serving>>

\* serviceClose, which sends a message first -- or the process just ends.
LeaveServer(o) ==
    /\ Moves(o, {"open"}, "closing")
    /\ UNCHANGED <<table, replyTo, message, asked, serving, touches>>

Dies(o) ==
    /\ Moves(o, {"open", "asking", "served"}, "gone")
    /\ UNCHANGED <<table, replyTo, message, asked, serving, touches>>

(***************************************************************************)
(* Drop: the handle is closed and the last entry moves into the hole.      *)
(***************************************************************************)
IndexOf(o) == CHOOSE i \in 1 .. Len(table) : table[i] = o

\* Mutant: the table only gets shorter, which loses its last session.
DropsLast(o) == Front(table)

Drops(o) ==
    [i \in 1 .. Len(table) - 1 |-> IF i = IndexOf(o) THEN Last(table) ELSE table[i]]

\* Mutant: the reply stays armed when its client had gone.
DisarmedIfSent(o) == IF client[o] = "gone" THEN o ELSE NoClient

\* Whatever came of it, the reply that was pending has been sent or has failed.
Disarmed(o) == NoClient

(***************************************************************************)
(* The first half of svcReplyAndReceive: the reply that stands in the      *)
(* buffer. A client that has gone is dropped; a reply nobody asked for is  *)
(* an error the loop does not survive.                                     *)
(***************************************************************************)
SendReply ==
    /\ serving /\ replyTo # NoClient
    /\ LET o == replyTo IN
       /\ serving' = (client[o] \in {"served", "gone"})
       /\ client' = [client EXCEPT ![o] = IF @ = "gone" THEN "away"
                                          ELSE IF @ = "served" THEN "open" ELSE @]
       /\ table' = IF client[o] = "gone" /\ o \in ToSet(table) THEN Drops(o) ELSE table
       /\ replyTo' = Disarmed(o)
    /\ UNCHANGED <<message, asked, touches>>

\* The second half: nothing is pending, and one handle has something to say.
Receives(o) == serving /\ replyTo = NoClient /\ o \in ToSet(table)

\* index = 0: a new client, taken on while the table has room for it.
Accept(o) ==
    /\ serving /\ replyTo = NoClient
    /\ Moves(o, {"knocking"}, IF Len(table) < kMaxSessions THEN "open" ELSE "away")
    /\ table' = IF Len(table) < kMaxSessions THEN Append(table, o) ELSE table
    /\ UNCHANGED <<replyTo, message, asked, serving, touches>>

\* A session that closed, with a message or without.
Hangup(o) ==
    /\ Receives(o)
    /\ Moves(o, {"closing", "gone"}, "away")
    /\ table' = Drops(o)
    /\ UNCHANGED <<replyTo, message, asked, serving, touches>>

\* Mutant: a request that is not well formed is dropped without a reply.
ArmsIfOk(o, answer) == IF answer.error = "malformed" THEN NoClient ELSE o

\* The reply is sent by the next pass, whatever it says.
Arms(o, answer) == o

\* A request: its message is overwritten with the reply, and the reply armed.
Handle(o) ==
    /\ Receives(o)
    /\ Moves(o, {"asking"}, "served")
    /\ \E answer \in HandleRequest(asked[o]) :
          /\ message' = [to |-> o, error |-> answer.error, bytes |-> answer.bytes,
                         whole |-> answer.whole]
          /\ replyTo' = Arms(o, answer)
    /\ asked' = [asked EXCEPT ![o] = NoRequest]
    /\ UNCHANGED <<table, serving, touches>>

Serve == SendReply \/ \E o \in Overlays : Accept(o) \/ Hangup(o) \/ Handle(o)

IpcNext == Serve \/ \E o \in Overlays : Connect(o) \/ AskServer(o) \/ LeaveServer(o) \/ Dies(o)

IpcFair == WF_ipcVars(Serve)

IpcSpec == IpcInit /\ [][IpcNext]_ipcVars /\ IpcFair

-------------------------------------------------------------------------------
(***************************************************************************)
(* Every variable keeps its type, and the table of handles stays dense and *)
(* within the array it is kept in.                                         *)
(***************************************************************************)
IpcTypeOK ==
    /\ table \in Seq(Overlays) /\ Len(table) <= kMaxSessions
    /\ replyTo \in Overlays \union {NoClient}
    /\ message.error \in Errors /\ message.to \in Overlays \union {NoClient}
    /\ client \in [Overlays -> ClientStates]
    /\ asked \in [Overlays -> Requests]
    /\ serving \in BOOLEAN /\ touches \in 0 .. MaxTouches

(***************************************************************************)
(* The service stays up and every session has one entry: a reply is armed  *)
(* only for the client whose answer stands in the buffer and who is still  *)
(* waiting for it or has gone; the table never holds a session twice and   *)
(* never loses one that is open. A reply to anyone else is an error        *)
(* svcReplyAndReceive returns, and Run ends on it.                         *)
(***************************************************************************)
RepliesToItsAsker ==
    /\ serving
    /\ replyTo # NoClient => message.to = replyTo /\ client[replyTo] \in {"served", "gone"}
    /\ \A i, j \in 1 .. Len(table) : table[i] = table[j] => i = j
    /\ ToSet(table) = {o \in Overlays : client[o] \notin {"away", "knocking"}}

\* What GetConfig and GetLog leave out, and how they say so, for every content.
ViewIsHonest(p, ds) ==
    LET view == ConfigView(p, ds)
    IN /\ Fits(view)
       /\ view.platforms # p => view.truncated
       /\ Len(view.diagnostics) < Len(ds) => view.notices > 0 \/ view.diagnostics = <<>>

NeverFailing ==
    /\ \A p \in 0 .. 2, ds \in Complaints : ViewIsHonest(p, ds)
    /\ \A ls \in Complaints : LET tail == LogTail(ls)
                             IN tail = SubSeq(ls, Len(ls) - Len(tail) + 1, Len(ls))

(***************************************************************************)
(* An answer is whole or is an error with no bytes of it; and the two      *)
(* commands documented never to fail do not: the configuration always fits *)
(* the payload, a folder map left out is marked and complaints left out    *)
(* are either counted in a notice or all of them withheld; the end of the  *)
(* log is always the end, up to the longest that fits.                     *)
(***************************************************************************)
AnswersAreWhole ==
    /\ message.bytes = message.whole
    /\ message.bytes <= kMaxPayloadBytes
    /\ NeverFailing

(***************************************************************************)
(* A client that has sent a request is answered, or has gone: no other     *)
(* session's closing, and no reply that could not be sent, leaves it       *)
(* waiting.                                                                *)
(***************************************************************************)
AskedIsAnswered ==
    \A o \in Overlays : client[o] \in {"asking", "served"} ~> client[o] \notin {"asking", "served"}
===============================================================================
