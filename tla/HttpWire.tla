------------------------------ MODULE HttpWire ------------------------------
(***************************************************************************)
(* One call of the console's HTTP client: WireHttpClient over a Connection *)
(* that may fall silent, close or break at any point.  A call opens a      *)
(* connection, sends, reads a head, follows redirects, and hands the body  *)
(* to a buffer (Send) or to the staging file (Download), which becomes the *)
(* destination only when it weighs what it has to.                         *)
(*                                                                         *)
(* A body is a sequence of blocks.  Block k of the resource is the number  *)
(* k, so a file is whole when it is 1..Size in order; an error page is the *)
(* block 0.  A url is its origin: what its path says matters to nothing    *)
(* below.                                                                  *)
(***************************************************************************)
EXTENDS Integers, Sequences, FiniteSets, SequencesExt

CONSTANTS
    Size,                     \* the resource, in blocks
    kMaxResponse,             \* http::kMaxResponseBytes, in blocks
    kMaxUndeclared,           \* kMaxUndeclaredBodyBytes, in blocks
    MaxRedirects,             \* ClientOptions::max_redirects
    Total, Stall,             \* the two timeouts, in ticks
    MaxBreaks                 \* what the network, the card and the game may do wrong

ASSUME HttpWireAssumption ==
    /\ {Size, kMaxResponse, kMaxUndeclared, Total, Stall} \subseteq Nat \ {0}
    /\ {MaxRedirects, MaxBreaks} \subseteq Nat
    /\ kMaxUndeclared <= kMaxResponse

VARIABLES
    part, dest,     \* the staging file (empty when absent) and the destination
    upload,         \* the size of the save file a form part streams
    call,           \* the request of the hop in flight, and how far it is
    resp,           \* the head the hop read, and the blocks still on the wire
    sink,           \* the BodyWriter: what it holds and its bookkeeping
    budget,         \* ticks since the start and since something moved
    network,        \* what NetworkInitialize brought up
    breaks

wireVars == <<part, dest, upload, call, resp, sink, budget, network, breaks>>

--------------------------------------------------------------------------
(* Urls and origins.                                                       *)

\* A url that parses names a host and a scheme (a port says no more).
Origins == [host : {"romm", "cdn"}, tls : BOOLEAN]
Home == [host |-> "romm", tls |-> TRUE]
Unparsable == [host |-> "none", tls |-> FALSE]
Urls == Origins \cup {Unparsable}

\* Mutant: the scheme is not compared.
SameOriginByHost(from, to) == from \in Origins /\ to \in Origins /\ from.host = to.host

SameOrigin(from, to) ==
    /\ from \in Origins /\ to \in Origins
    /\ from.tls = to.tls /\ from.host = to.host

DropCredentialHeaders(request) == [request EXCEPT !.auth = FALSE]

--------------------------------------------------------------------------
(* The budget: the total and the stall timeout of a call.                  *)

\* A download sets no total; what it waits for is progress.
TotalOf(kind) == IF kind = "download" THEN 0 ELSE Total

\* Mutant: only the total is looked at.
ExpiredByTotal == TotalOf(call.kind) > 0 /\ budget.spent >= TotalOf(call.kind)

Expired == \/ TotalOf(call.kind) > 0 /\ budget.spent >= TotalOf(call.kind)
           \/ budget.quiet >= Stall

Moved == [budget EXCEPT !.quiet = 0]

--------------------------------------------------------------------------
(* Heads.                                                                  *)

Statuses == {200, 206, 416, 503}
Redirects == {303, 307}
WireSilence == [status |-> 0, te |-> "none", cl |-> -1, range |-> 0, rest |-> <<>>]

Framing(r) ==
    CASE r.status = 204 -> "none"
      [] r.te = "chunked" -> "chunked"
      [] r.te = "identity" -> "until close"
      [] r.te = "none" /\ r.cl >= 0 -> "length"
      [] OTHER -> "until close"

DeclaredSize(r) == IF r.range > 0 THEN r.range ELSE IF r.cl >= 0 THEN r.cl ELSE 0

\* What a server may answer, external to this repository: a range is honoured
\* with a 206 that names the total, ignored with a 200, or refused with a 416
\* when it begins past the end; a length is declared truly, unless another
\* framing makes it void.
Heads(status, body, total) ==
    {[status |-> status, te |-> te, cl |-> cl, range |-> total, rest |-> body] :
        te \in {"none", "chunked", "identity"}, cl \in {-1, 0, Len(body)}}
Truthful(heads) == {h \in heads : h.te = "none" => h.cl \in {-1, Len(h.rest)}}

Resource(from) == [k \in 1 .. Size - from |-> from + k]

Answers ==
    Truthful(
        Heads(503, <<0>>, 0) \cup
        IF call.kind # "download"
        THEN (UNION {Heads(200, [k \in 1 .. n |-> k], 0) : n \in 0 .. kMaxResponse + 1})
             \cup {[WireSilence EXCEPT !.status = 204]}
        ELSE Heads(200, Resource(0), 0) \cup
             IF call.range = 0 THEN {}
             ELSE IF call.range < Size THEN Heads(206, Resource(call.range), Size)
                  ELSE Heads(416, <<0>>, 0))

--------------------------------------------------------------------------
(* The calls.                                                              *)

Nothing == [kind |-> "none", at |-> "idle", url |-> Home, auth |-> FALSE, post |-> FALSE,
            hop |-> 0, resuming |-> FALSE, range |-> 0, known |-> 0, sized |-> 0,
            sent |-> 0, error |-> "none"]

NoSink == [staged |-> FALSE, from |-> 0, got |-> 0, body |-> <<>>, undeclared |-> FALSE]

\* OneHop and Exchange return: Send's result is final, Download looks at the file.
CallFinishes(error) ==
    /\ call' = [call EXCEPT !.at = IF call.kind = "download" THEN "settle" ELSE "ended",
                            !.error = error]
    /\ UNCHANGED <<part, dest, upload, resp, network>>

Begins(request) ==
    /\ call' = [request EXCEPT !.at = "open"]
    /\ budget' = [spent |-> 0, quiet |-> 0]
    /\ resp' = WireSilence

\* What the caller says the file weighs, zero when it cannot.
KnownSizes == {0, Size}

\* Send: a GET, or a POST whose form part streams a save.
SendRequest(post) ==
    /\ call.at = "idle"
    /\ Begins([Nothing EXCEPT !.kind = "send", !.auth = TRUE, !.post = post])
    /\ sink' = NoSink
    /\ UNCHANGED <<part, dest, upload, network, breaks>>

\* Download up to its Exchange: the staging file kept or begun again.
Download(resume, known) ==
    /\ call.at = "idle"
    /\ LET have == IF resume THEN Len(part) ELSE 0
       IN  /\ sink' = [NoSink EXCEPT !.staged = have > 0, !.from = have]
           /\ part' = IF have > 0 THEN part ELSE <<>>
           /\ Begins([Nothing EXCEPT !.kind = "download", !.auth = TRUE, !.known = known,
                                     !.resuming = have > 0, !.range = have])
    /\ UNCHANGED <<dest, upload, network, breaks>>

\* ...whose staging file cannot be opened.
DownloadRefused ==
    /\ call.at = "idle" /\ breaks < MaxBreaks
    /\ breaks' = breaks + 1
    /\ call' = [Nothing EXCEPT !.kind = "download", !.at = "ended", !.error = "write failed"]
    /\ UNCHANGED <<part, dest, upload, resp, sink, budget, network>>

\* SslConnector::Open, for what can be told before a packet is sent.
CanOpen(url) == network.socket /\ (url.tls => network.ssl) /\ network.online

\* BuildMultipart takes the size of the file there and then.
BuildMultipart == IF call.post THEN upload ELSE 0

\* OneHop begins: the url, the form's parts sized, the connection.
Connects ==
    /\ call.at = "open" /\ call.url \in Origins /\ CanOpen(call.url)
    /\ call' = [call EXCEPT !.at = "send", !.sent = 0, !.sized = BuildMultipart]
    /\ budget' = Moved
    /\ UNCHANGED <<part, dest, upload, resp, sink, network, breaks>>

\* What a connection that is tried may fail with.
OpenErrors(url) == {"connect failed"} \cup (IF url.tls THEN {"tls"} ELSE {"timeout"})

OpenFails ==
    /\ call.at = "open"
    /\ \/ /\ call.url \notin Origins /\ CallFinishes("invalid request")
          /\ UNCHANGED breaks
       \/ /\ call.url \in Origins /\ ~CanOpen(call.url) /\ CallFinishes("connect failed")
          /\ UNCHANGED breaks
       \/ /\ call.url \in Origins /\ CanOpen(call.url) /\ breaks < MaxBreaks
          /\ breaks' = breaks + 1
          /\ \E error \in OpenErrors(call.url) : CallFinishes(error)
    /\ UNCHANGED <<sink, budget>>

\* The head and the body go out, a block at a time; a file the game cut short
\* under the stream ends the call, and what it grew by is not sent.
SendBlock ==
    /\ call.at = "send" /\ call.sent < call.sized /\ ~Expired
    /\ \/ /\ call.sent < upload
          /\ call' = [call EXCEPT !.sent = @ + 1]
          /\ budget' = Moved
          /\ UNCHANGED <<part, dest, upload, resp, network>>
       \/ /\ call.sent >= upload /\ CallFinishes("invalid request")
          /\ UNCHANGED budget
    /\ UNCHANGED <<sink, breaks>>

SentAll ==
    /\ call.at = "send" /\ call.sent = call.sized /\ ~Expired
    /\ call' = [call EXCEPT !.at = "head"]
    /\ budget' = Moved
    /\ UNCHANGED <<part, dest, upload, resp, sink, network, breaks>>

\* A head that is only informational is read and forgotten.
Interim ==
    /\ call.at = "head" /\ ~Expired /\ breaks < MaxBreaks
    /\ breaks' = breaks + 1
    /\ budget' = Moved
    /\ UNCHANGED <<part, dest, upload, call, resp, sink, network>>

\* A redirect: a POST becomes a GET unless the status keeps it, the credentials
\* stay with the origin they were given for.
Redirect(status, to) ==
    /\ call.at = "head" /\ ~Expired /\ call.hop < MaxRedirects
    /\ LET moved == [call EXCEPT !.at = "open", !.url = to, !.hop = @ + 1,
                                 !.post = @ /\ status = 307]
       IN  call' = IF SameOrigin(call.url, to) THEN moved ELSE DropCredentialHeaders(moved)
    /\ budget' = Moved
    /\ UNCHANGED <<part, dest, upload, resp, sink, network, breaks>>

\* Mutant: a length is believed whatever frames the body.
UndeclaredByLength(r) == r.cl < 0

\* StringWriter::Begin: what a declared length lets the buffer hold.  A length
\* beside a Transfer-Encoding declares nothing.
Undeclared(r) == r.te # "none" \/ r.cl < 0

\* A declared length Send holds no buffer for.
RefusedLength(r) == ~Undeclared(r) /\ r.cl > kMaxResponse

\* The final head: the writer may refuse it before a byte is read.
FinalHead(r) ==
    /\ call.at = "head" /\ ~Expired
    /\ budget' = Moved
    /\ IF call.kind = "send" /\ RefusedLength(r)
       THEN /\ call' = [call EXCEPT !.at = "ended", !.error = "too large"]
            /\ UNCHANGED <<resp, sink>>
       ELSE /\ resp' = r
            /\ sink' = [sink EXCEPT !.undeclared = Undeclared(r)]
            /\ call' = [call EXCEPT !.at = "body"]
    /\ UNCHANGED <<part, dest, upload, network, breaks>>

Successful(r) == r.status \in 200 .. 299

\* An undeclared body past what the heap table counts a response at.
Overflows(blocks) == blocks > kMaxUndeclared

\* A block of the body into Send's buffer.
ReceiveBuffer ==
    /\ call.at = "body" /\ ~Expired /\ resp.rest # <<>> /\ call.kind = "send"
    /\ budget' = Moved
    /\ IF sink.undeclared /\ Overflows(Len(sink.body) + 1)
       THEN /\ sink' = [sink EXCEPT !.body = <<>>]
            /\ call' = [call EXCEPT !.at = "ended", !.error = "too large"]
            /\ UNCHANGED resp
       ELSE /\ sink' = [sink EXCEPT !.body = Append(@, Head(resp.rest))]
            /\ resp' = [resp EXCEPT !.rest = Tail(@)]
            /\ UNCHANGED call
    /\ UNCHANGED <<part, dest, upload, network, breaks>>

\* Mutant: the file is not started over when the range was ignored.
StartsOverNever == FALSE

\* A 200 to a resume is the whole resource: its first block starts the file over.
StartsOver == sink.staged /\ resp.status # 206

\* A block of the body into the staging file; an error page is no content.
ReceiveFile ==
    /\ call.at = "body" /\ ~Expired /\ resp.rest # <<>> /\ call.kind = "download"
    /\ budget' = Moved
    /\ resp' = [resp EXCEPT !.rest = Tail(@)]
    /\ IF Successful(resp)
       THEN /\ part' = Append(IF StartsOver THEN <<>> ELSE part, Head(resp.rest))
            /\ sink' = [sink EXCEPT !.staged = FALSE, !.got = @ + 1,
                                    !.from = IF StartsOver THEN 0 ELSE @]
       ELSE /\ sink' = [sink EXCEPT !.got = @ + 1]
            /\ UNCHANGED part
    /\ UNCHANGED <<call, dest, upload, network, breaks>>

\* The card refuses a write.
ReceiveFails ==
    /\ call.at = "body" /\ ~Expired /\ resp.rest # <<>> /\ breaks < MaxBreaks
    /\ call.kind = "download" /\ Successful(resp)
    /\ breaks' = breaks + 1
    /\ CallFinishes("disk full")
    /\ UNCHANGED <<sink, budget>>

\* The end of a body, as its framing tells it.
BodyEnds ==
    /\ call.at = "body" /\ resp.rest = <<>> /\ ~Expired
    /\ CallFinishes("none")
    /\ UNCHANGED <<sink, budget, breaks>>

\* What the reader makes of a connection that is gone: a break is always told
\* from an end, a clean close only where the framing says how much was to come.
CutShort(clean) ==
    IF call.at # "body" THEN "transport"
    ELSE IF clean /\ Framing(resp) = "until close" THEN "none" ELSE "truncated"

ConnectionLost(clean) ==
    /\ call.at \in {"send", "head", "body"} /\ breaks < MaxBreaks /\ ~Expired
    /\ breaks' = breaks + 1
    /\ CallFinishes(CutShort(clean))
    /\ UNCHANGED <<sink, budget>>

\* Between two slices: the token was cancelled, or a timeout passed.
Slice ==
    /\ call.at \in {"send", "head", "body"}
    /\ \/ Expired /\ CallFinishes("timeout") /\ UNCHANGED breaks
       \/ breaks < MaxBreaks /\ breaks' = breaks + 1 /\ CallFinishes("canceled")
    /\ UNCHANGED <<sink, budget>>

\* A tick in which nothing arrives.
Tick ==
    /\ call.at \in {"send", "head", "body"} /\ ~Expired
    /\ budget' = [spent |-> IF TotalOf(call.kind) > 0 THEN budget.spent + 1 ELSE 0,
                  quiet |-> IF budget.quiet < Stall THEN budget.quiet + 1 ELSE budget.quiet]
    /\ UNCHANGED <<part, dest, upload, call, resp, sink, network, breaks>>

--------------------------------------------------------------------------
(* Download after its Exchange.                                            *)

\* FileWriter::Finish: bytes no body confirmed are not counted.
Written == (IF sink.staged THEN 0 ELSE sink.from) + sink.got

\* What the destination has to weigh.
Expected == IF call.known > 0 THEN call.known ELSE DeclaredSize(resp)

\* Mutant: nothing is weighed when the server declared no length.
VerdictUnweighed ==
    CASE call.error # "none" -> call.error
      [] call.error = "none" /\ resp.status \notin {200, 206} -> "none"
      [] OTHER -> IF DeclaredSize(resp) # 0 /\ Written # DeclaredSize(resp) THEN "truncated" ELSE "commit"

Verdict ==
    CASE call.error # "none" -> call.error
      [] call.error = "none" /\ call.resuming /\ resp.status = 416 -> "truncated"
      [] call.error = "none" /\ resp.status \notin {200, 206} /\ ~(call.resuming /\ resp.status = 416)
            -> "none"
      [] OTHER -> IF call.resuming /\ Expected = 0 THEN "truncated"
                  ELSE IF Expected # 0 /\ Written # Expected THEN "truncated" ELSE "commit"

Settle ==
    /\ call.at = "settle"
    /\ dest' = IF Verdict = "commit" THEN {part} ELSE dest
    /\ part' = IF \/ Verdict = "commit"
                  \/ call.error = "none" /\ call.resuming /\ resp.status = 416
                  \/ call.error = "none" /\ ~call.resuming /\ resp.status \notin {200, 206}
               THEN <<>> ELSE part
    /\ call' = [call EXCEPT !.at = "ended", !.error = IF Verdict = "commit" THEN "none" ELSE Verdict]
    /\ UNCHANGED <<upload, resp, sink, budget, network, breaks>>

\* Flush, sync or rename fails: the staging file stays.
SettleFails ==
    /\ call.at = "settle" /\ Verdict = "commit" /\ breaks < MaxBreaks
    /\ breaks' = breaks + 1
    /\ call' = [call EXCEPT !.at = "ended", !.error = "write failed"]
    /\ UNCHANGED <<part, dest, upload, resp, sink, budget, network>>

\* The caller has its result.
Returns ==
    /\ call.at = "ended"
    /\ call' = Nothing /\ sink' = NoSink /\ resp' = WireSilence
    /\ budget' = [spent |-> 0, quiet |-> 0]
    /\ UNCHANGED <<part, dest, upload, network, breaks>>

--------------------------------------------------------------------------
(* Around a call.                                                          *)

\* NetworkInitialize, in its order: a socket that fails leaves no ssl service.
NetworkInitialize ==
    {[socket |-> s, ssl |-> s /\ t, online |-> o] : s \in BOOLEAN, t \in BOOLEAN, o \in BOOLEAN}

\* The link comes and goes, and the game writes its save.
WifiFlips ==
    /\ breaks < MaxBreaks /\ breaks' = breaks + 1
    /\ network' = [network EXCEPT !.online = ~@]
    /\ UNCHANGED <<part, dest, upload, call, resp, sink, budget>>

SaveChanges ==
    /\ call.post /\ call.at = "send" /\ breaks < MaxBreaks /\ breaks' = breaks + 1
    /\ \E n \in 0 .. 2 : n # upload /\ upload' = n
    /\ UNCHANGED <<part, dest, call, resp, sink, budget, network>>

WireInit ==
    /\ part \in {SubSeq(Resource(0), 1, n) : n \in 0 .. Size}
    /\ dest = {} /\ upload = 1
    /\ call = Nothing /\ resp = WireSilence /\ sink = NoSink
    /\ budget = [spent |-> 0, quiet |-> 0]
    /\ network \in NetworkInitialize
    /\ breaks = 0

AsksFor ==
    \/ \E post \in BOOLEAN : SendRequest(post)
    \/ \E resume \in BOOLEAN, known \in KnownSizes : Download(resume, known)
    \/ DownloadRefused

Hop ==
    \/ Connects \/ OpenFails \/ SendBlock \/ SentAll \/ Interim
    \/ \E status \in Redirects, to \in Urls : Redirect(status, to)
    \/ \E r \in Answers : FinalHead(r)
    \/ ReceiveBuffer \/ ReceiveFile \/ ReceiveFails \/ BodyEnds
    \/ \E clean \in BOOLEAN : ConnectionLost(clean)
    \/ Slice

WireNext == AsksFor \/ Hop \/ Tick \/ Settle \/ SettleFails \/ Returns \/ WifiFlips \/ SaveChanges

\* The client's own steps are its thread's; a silent server is only waited for.
WireFair ==
    /\ WF_wireVars(Connects \/ OpenFails) /\ WF_wireVars(SendBlock \/ SentAll)
    /\ WF_wireVars(Expired /\ Slice) /\ WF_wireVars(Tick)
    /\ WF_wireVars(BodyEnds) /\ WF_wireVars(Settle) /\ WF_wireVars(Returns)

WireSpec == WireInit /\ [][WireNext]_wireVars /\ WireFair

--------------------------------------------------------------------------

WireErrors == {"none", "invalid request", "connect failed", "tls", "timeout", "canceled",
           "truncated", "write failed", "disk full", "transport", "too large"}

\* The parts of a call and of the staging file are what the code's types allow.
WireTypeOK ==
    /\ part \in Seq(1 .. Size) /\ dest \subseteq Seq(1 .. Size)
    /\ upload \in 0 .. 2 /\ breaks \in 0 .. MaxBreaks
    /\ call.kind \in {"none", "send", "download"}
    /\ call.at \in {"idle", "open", "send", "head", "body", "settle", "ended"}
    /\ call.url \in Urls /\ {call.auth, call.post, call.resuming} \subseteq BOOLEAN
    /\ call.hop \in 0 .. MaxRedirects /\ call.range \in 0 .. Size /\ call.known \in KnownSizes
    /\ call.error \in WireErrors
    /\ resp.status \in Statuses \cup {0, 204}
    /\ budget.spent \in 0 .. Total /\ budget.quiet \in 0 .. Stall
    /\ network \in NetworkInitialize

\* What is at the destination is the whole resource, every block at its place,
\* whenever anything said how much that is: http.hpp's "A failed transfer
\* therefore never leaves a truncated file where a complete one is expected".
\* Only a first download of unknown size, framed by the close, may be short.
OnlyWholeFiles ==
    [][dest' # dest /\ (Expected # 0 \/ call.resuming \/ Framing(resp) # "until close")
        => dest' = {Resource(0)}]_wireVars

\* The bearer token is in the head of no request but to the origin it was given
\* for, over however many redirects.
TokenStaysHome == call.auth => call.url = Home

\* A buffered answer is never more than the heap table counts it at, however
\* the server framed it.
AnswerFitsHeap ==
    call.kind = "send" =>
        Len(sink.body) <= IF Framing(resp) = "length" THEN kMaxResponse ELSE kMaxUndeclared

\* Every call ends, whatever the server does: a call that moves nothing for
\* long enough is given up.
CallEnds == call.at # "idle" ~> call.at = "idle"

=============================================================================
