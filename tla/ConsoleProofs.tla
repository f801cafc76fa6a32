----------------------------- MODULE ConsoleProofs -----------------------------
(***************************************************************************)
(* What the console brings over the network is what it asked for, for any  *)
(* size of a resource, any number of redirects and of breaks: a call of    *)
(* the HTTP client, and a tick cut into negotiations.  The theorem at the  *)
(* end is about the console as a whole, its records included.              *)
(***************************************************************************)
EXTENDS MCConsole, RecordsProofs, SequenceTheorems

-----------------------------------------------------------------------------
(* One call.                                                                *)

Places == {"idle", "open", "send", "head", "body", "settle", "ended"}
Hops == 0 .. MaxRedirects
Ranges == 0 .. Size
FormSizes == 0 .. 2
Call == [kind : {"none", "send", "download"}, at : Places, url : Urls, auth : BOOLEAN, post : BOOLEAN,
         hop : Hops, resuming : BOOLEAN, range : Ranges, known : KnownSizes,
         sized : FormSizes, sent : FormSizes, error : WireErrors]
Answer == [status : Statuses \cup {0, 204}, te : {"none", "chunked", "identity"}, cl : Int,
           range : {0, Size}, rest : Seq(Nat)]
Writer == [staged : BOOLEAN, from : Nat, got : Nat, body : Seq(Nat), undeclared : BOOLEAN]
Clocks == [spent : 0 .. Total, quiet : 0 .. Stall]

WireTyped ==
    /\ dest \subseteq Seq(1 .. Size) /\ upload \in 0 .. 2 /\ breaks \in 0 .. MaxBreaks
    /\ call \in Call /\ resp \in Answer /\ sink \in Writer /\ budget \in Clocks
    /\ network \in NetworkInitialize

\* The staging file is the resource's first blocks, in order.
PartIsPrefix == part \in Seq(1 .. Size) /\ Len(part) <= Size /\ \A k \in 1 .. Len(part) : part[k] = k

Downloading == call.kind = "download" /\ call.at \in {"open", "send", "head", "body", "settle"}

\* Only a file is settled, and until a head is final a download asks for what
\* its staging file lacks.
AskedIsLacking ==
    /\ call.at = "settle" => call.kind = "download"
    /\ Downloading => call.resuming = (call.range > 0)
    /\ Downloading /\ call.at \in {"open", "send", "head"} =>
         /\ sink.from = call.range /\ sink.got = 0 /\ Len(part) = call.range
         /\ sink.staged = (call.range > 0)

\* A body is being read, or was with no error that this console could tell.
Reading == Downloading /\ (call.at = "body" \/ (call.at = "settle" /\ call.error = "none"))

\* The head of a download says no length but the resource's, if it says one that counts.
HeadIsTrue ==
    Reading =>
        \/ resp.status \notin {200, 206} /\ ~Successful(resp)
        \/ /\ resp.status = 200 /\ resp.range = 0 /\ resp.cl \in {-1, 0, Size}
           /\ resp.te = "none" => resp.cl \in {-1, Size}
        \/ resp.status = 206 /\ resp.range = Size

\* Where the next block goes, and the blocks still to come.
Place == IF StartsOver THEN 0 ELSE Len(part)

RestFollows ==
    Reading /\ Successful(resp) =>
        /\ sink.from + sink.got = Len(part) /\ (sink.staged => sink.got = 0 /\ call.resuming)
        /\ Place + Len(resp.rest) = Size
        /\ \A k \in 1 .. Len(resp.rest) : resp.rest[k] = Place + k
        /\ call.at = "settle" => resp.rest = <<>> \/ Framing(resp) = "until close"

\* What Send's buffer holds, and what is still to come of a declared length.
BufferFits ==
    call.kind = "send" =>
        /\ call.at \in {"open", "send", "head"} => sink.body = <<>>
        /\ call.at = "body" /\ ~Undeclared(resp) =>
             Framing(resp) = "length" /\ Len(sink.body) + Len(resp.rest) <= kMaxResponse
        /\ call.at = "body" => sink.undeclared = Undeclared(resp)

WireInv ==
    /\ WireTyped /\ PartIsPrefix /\ AskedIsLacking /\ HeadIsTrue /\ RestFollows
    /\ BufferFits /\ AnswerFitsHeap /\ TokenStaysHome

(* The constants as numbers, and what every call starts with.               *)
LEMMA WireFacts ==
    /\ Size \in Nat \ {0} /\ kMaxResponse \in Nat \ {0} /\ kMaxUndeclared \in Nat \ {0}
    /\ kMaxUndeclared <= kMaxResponse /\ MaxRedirects \in Nat /\ MaxBreaks \in Nat
    /\ Total \in Nat \ {0} /\ Stall \in Nat \ {0}
    /\ Nothing \in Call /\ NoSink \in Writer /\ WireSilence \in Answer
    /\ [spent |-> 0, quiet |-> 0] \in Clocks
    /\ Home \in Urls
<1>1. /\ Size \in Nat \ {0} /\ kMaxResponse \in Nat \ {0} /\ kMaxUndeclared \in Nat \ {0}
      /\ kMaxUndeclared <= kMaxResponse /\ MaxRedirects \in Nat /\ MaxBreaks \in Nat
      /\ Total \in Nat \ {0} /\ Stall \in Nat \ {0}
  BY HttpWireAssumption
<1>2. Home \in Urls
  BY DEF Home, Urls, Origins
<1>3. Nothing \in Call
  BY <1>1, <1>2 DEF Nothing, Call, Places, KnownSizes, WireErrors, Hops, Ranges, FormSizes
<1>4. NoSink \in Writer /\ WireSilence \in Answer
  BY DEF NoSink, Writer, WireSilence, Answer, Statuses
<1>5. [spent |-> 0, quiet |-> 0] \in Clocks
  BY <1>1 DEF Clocks
<1> QED  BY <1>1, <1>2, <1>3, <1>4, <1>5

(* Blocks of the resource.                                                  *)
LEMMA ResourceIs ==
    ASSUME NEW from \in 0 .. Size
    PROVE  /\ Resource(from) \in Seq(Nat) /\ Len(Resource(from)) = Size - from
           /\ \A k \in 1 .. Size - from : Resource(from)[k] = from + k
<1>1. Size - from \in Nat
  BY WireFacts
<1>2. \A k \in 1 .. Size - from : from + k \in Nat
  BY WireFacts
<1> QED  BY <1>1, <1>2, IsASeq DEF Resource

(* How a head frames its body.                                              *)
LEMMA FramingIs ==
    ASSUME NEW r \in Answer
    PROVE  /\ r.status # 204 /\ r.te = "none" /\ r.cl >= 0 => Framing(r) = "length"
           /\ r.status # 204 /\ r.te = "chunked" => Framing(r) = "chunked"
           /\ r.status # 204 /\ r.te = "identity" => Framing(r) = "until close"
           /\ r.status # 204 /\ r.te = "none" /\ r.cl < 0 => Framing(r) = "until close"
           /\ r.te = "none" /\ r.cl < 0 => Framing(r) # "length"
<1>1. r.cl \in Int /\ r.te \in {"none", "chunked", "identity"}
  BY DEF Answer
<1> QED  BY <1>1 DEF Framing

(* What a server may answer a call with.                                    *)
LEMMA AnswersAre ==
    ASSUME call \in Call, NEW r \in Answers
    PROVE  /\ r \in Answer /\ (r.te = "none" => r.cl \in {-1, Len(r.rest)})
           /\ call.kind # "download" /\ r.status = 204 => r.te = "none" /\ r.cl = -1
           /\ call.kind = "download" =>
                \/ r.status \in {416, 503}
                \/ r.status = 200 /\ r.range = 0 /\ r.rest = Resource(0) /\ r.cl \in {-1, 0, Size}
                \/ /\ r.status = 206 /\ r.range = Size /\ call.range \in 1 .. Size - 1
                   /\ r.rest = Resource(call.range)
<1>1. ASSUME NEW status \in Statuses, NEW body \in Seq(Nat), NEW total \in {0, Size},
             NEW h \in Truthful(Heads(status, body, total))
      PROVE  /\ h \in Answer /\ h.status = status /\ h.rest = body /\ h.range = total
             /\ h.cl \in {-1, 0, Len(body)} /\ (h.te = "none" => h.cl \in {-1, Len(body)})
  <2>1. PICK te \in {"none", "chunked", "identity"}, cl \in {-1, 0, Len(body)} :
          h = [status |-> status, te |-> te, cl |-> cl, range |-> total, rest |-> body]
    BY <1>1 DEF Truthful, Heads
  <2>2. te = "none" => cl \in {-1, Len(body)}
    BY <1>1, <2>1 DEF Truthful
  <2>3. Len(body) \in Nat
    OBVIOUS
  <2> QED  BY <2>1, <2>2, <2>3 DEF Answer
<1>2. PICK page \in Seq(Nat) : page = <<0>>
  <2>1. <<0>> \in Seq(Nat)
    OBVIOUS
  <2> QED  BY <2>1, Zenon
<1>3. CASE r \in Truthful(Heads(503, <<0>>, 0))
  <2>1. r \in Truthful(Heads(503, page, 0))
    BY <1>2, <1>3, Zenon
  <2>2. 503 \in Statuses /\ 0 \in {0, Size}
    BY DEF Statuses
  <2>3. r \in Answer /\ r.status = 503 /\ (r.te = "none" => r.cl \in {-1, Len(r.rest)})
    BY <1>1, <2>1, <2>2
  <2> QED  BY <2>3
<1>4. CASE call.kind # "download"
  <2>1. \/ r \in Truthful(Heads(503, <<0>>, 0))
        \/ \E n \in 0 .. kMaxResponse + 1 : r \in Truthful(Heads(200, [k \in 1 .. n |-> k], 0))
        \/ r = [WireSilence EXCEPT !.status = 204]
    <3>1. PICK pages : pages = UNION {Heads(200, [k \in 1 .. n |-> k], 0) : n \in 0 .. kMaxResponse + 1}
      OBVIOUS
    <3>2. /\ r \in Heads(503, <<0>>, 0) \cup (pages \cup {[WireSilence EXCEPT !.status = 204]})
          /\ (r.te = "none" => r.cl \in {-1, Len(r.rest)})
      <4>1. Answers = Truthful(Heads(503, <<0>>, 0) \cup (pages \cup {[WireSilence EXCEPT !.status = 204]}))
        BY <1>4, <3>1, ZenonT(60) DEF Answers
      <4> QED  BY <4>1, ZenonT(60) DEF Truthful
    <3>3. r \in pages => \E n \in 0 .. kMaxResponse + 1 : r \in Heads(200, [k \in 1 .. n |-> k], 0)
      BY <3>1
    <3>4. \A heads : r \in heads => r \in Truthful(heads)
      BY <3>2 DEF Truthful
    <3> QED  BY <3>2, <3>3, <3>4, ZenonT(60)
  <2>2. CASE \E n \in 0 .. kMaxResponse + 1 : r \in Truthful(Heads(200, [k \in 1 .. n |-> k], 0))
    <3>0. PICK n \in 0 .. kMaxResponse + 1 : r \in Truthful(Heads(200, [k \in 1 .. n |-> k], 0))
      BY <2>2
    <3>1. n \in Nat /\ \A k \in 1 .. n : k \in Nat
      BY WireFacts
    <3>2. [k \in 1 .. n |-> k] \in Seq(Nat)
      BY <3>1, IsASeq
    <3>3. 200 \in Statuses /\ 0 \in {0, Size}
      BY DEF Statuses
    <3>4. r \in Answer /\ r.status = 200 /\ (r.te = "none" => r.cl \in {-1, Len(r.rest)})
      BY <1>1, <3>0, <3>2, <3>3
    <3> QED  BY <1>4, <3>4
  <2>3. CASE r = [WireSilence EXCEPT !.status = 204]
    <3>1. r = [status |-> 204, te |-> "none", cl |-> -1, range |-> 0, rest |-> <<>>]
      BY <2>3 DEF WireSilence
    <3>2. r \in Answer
      BY <3>1 DEF Answer
    <3>3. r.status = 204 /\ r.te = "none" /\ r.cl = -1
      BY <3>1
    <3>4. r.te = "none" => r.cl \in {-1, Len(r.rest)}
      BY <3>3
    <3>5. call.kind # "download" /\ r.status = 204 => r.te = "none" /\ r.cl = -1
      BY <3>3
    <3>6. ~(call.kind = "download")
      BY <1>4
    <3> QED  BY <3>2, <3>4, <3>5, <3>6
  <2> QED  BY <1>3, <1>4, <2>1, <2>2, <2>3
<1>5. CASE call.kind = "download"
  <2>1. \/ r \in Truthful(Heads(503, <<0>>, 0))
        \/ r \in Truthful(Heads(200, Resource(0), 0))
        \/ call.range # 0 /\ call.range < Size /\ r \in Truthful(Heads(206, Resource(call.range), Size))
        \/ call.range # 0 /\ ~(call.range < Size) /\ r \in Truthful(Heads(416, <<0>>, 0))
    BY <1>5 DEF Answers, Truthful
  <2>2. CASE r \in Truthful(Heads(200, Resource(0), 0))
    <3>1. 0 \in 0 .. Size
      BY WireFacts
    <3>2. Resource(0) \in Seq(Nat) /\ Len(Resource(0)) = Size
      BY <3>1, ResourceIs, WireFacts
    <3> QED  BY <1>1, <1>5, <2>2, <3>2 DEF Statuses
  <2>3. CASE call.range # 0 /\ call.range < Size /\ r \in Truthful(Heads(206, Resource(call.range), Size))
    <3>1. call.range \in 0 .. Size /\ call.range \in 1 .. Size - 1
      BY <2>3, WireFacts DEF Call, Ranges
    <3>2. Resource(call.range) \in Seq(Nat)
      BY <3>1, ResourceIs
    <3> QED  BY <1>1, <1>5, <2>3, <3>1, <3>2 DEF Statuses
  <2>4. CASE r \in Truthful(Heads(416, <<0>>, 0))
    <3>1. r \in Truthful(Heads(416, page, 0))
      BY <1>2, <2>4, Zenon
    <3>2. 416 \in Statuses /\ 0 \in {0, Size}
      BY DEF Statuses
    <3>3. r \in Answer /\ r.status = 416 /\ (r.te = "none" => r.cl \in {-1, Len(r.rest)})
      BY <1>1, <3>1, <3>2
    <3> QED  BY <1>5, <3>3
  <2> QED  BY <1>3, <2>1, <2>2, <2>3, <2>4
<1> QED  BY <1>4, <1>5

(* Download's verdict, one case at a time.                                  *)
LEMMA VerdictIs ==
    ASSUME call \in Call, resp \in Answer
    PROVE  /\ Verdict \in WireErrors \cup {"commit"}
           /\ Verdict = "commit" =>
                /\ call.error = "none" /\ resp.status \in {200, 206}
                /\ ~(call.resuming /\ Expected = 0)
                /\ Expected # 0 => Written = Expected
<1>1. call.error \in WireErrors /\ call.error # "commit" /\ {"none", "truncated"} \subseteq WireErrors
  BY DEF Call, WireErrors
<1>2. PICK late \in BOOLEAN : late = (call.resuming /\ resp.status = 416)
  OBVIOUS
<1>3. PICK page \in BOOLEAN : page = (resp.status \notin {200, 206})
  OBVIOUS
<1>4. PICK weighed : weighed = IF call.resuming /\ Expected = 0 THEN "truncated"
                               ELSE IF Expected # 0 /\ Written # Expected THEN "truncated" ELSE "commit"
  OBVIOUS
<1>5. Verdict = CASE call.error # "none" -> call.error
                  [] call.error = "none" /\ late -> "truncated"
                  [] call.error = "none" /\ page /\ ~late -> "none"
                  [] OTHER -> weighed
  BY <1>2, <1>3, <1>4 DEF Verdict
<1>6. CASE call.error # "none"
  <2>1. Verdict = call.error
    BY <1>5, <1>6
  <2> QED  BY <1>1, <2>1
<1>7. CASE call.error = "none" /\ late
  <2>1. Verdict = "truncated"
    BY <1>5, <1>7
  <2> QED  BY <1>1, <2>1
<1>8. CASE call.error = "none" /\ page /\ ~late
  <2>1. Verdict = "none"
    BY <1>5, <1>8
  <2> QED  BY <1>1, <2>1
<1>9. CASE call.error = "none" /\ ~page /\ ~late
  <2>1. Verdict = weighed
    BY <1>5, <1>9
  <2> QED  BY <1>1, <1>3, <1>4, <1>9, <2>1
<1> QED  BY <1>6, <1>7, <1>8, <1>9

(* A call that is over carries its error and nothing else of it changes.    *)
LEMMA FinishedCallIs ==
    ASSUME call \in Call, NEW error \in WireErrors, CallFinishes(error)
    PROVE  /\ call' \in Call /\ call'.kind = call.kind /\ call'.error = error
           /\ call'.at = (IF call.kind = "download" THEN "settle" ELSE "ended")
           /\ call'.url = call.url /\ call'.auth = call.auth
           /\ call'.resuming = call.resuming /\ call'.range = call.range /\ call'.known = call.known
           /\ UNCHANGED <<part, dest, upload, resp, network>>
<1>1. PICK at \in Places : at = IF call.kind = "download" THEN "settle" ELSE "ended"
  BY DEF Places
<1>2. call' = [call EXCEPT !.at = at, !.error = error]
  BY <1>1 DEF CallFinishes
<1> QED  BY <1>1, <1>2 DEF Call, CallFinishes

(* What every case below starts from.                                       *)
LEMMA WireParts ==
    ASSUME WireInv
    PROVE  /\ call \in Call /\ resp \in Answer /\ sink \in Writer /\ budget \in Clocks
           /\ breaks \in 0 .. MaxBreaks /\ breaks \in Nat /\ MaxBreaks \in Nat
           /\ part \in Seq(1 .. Size) /\ Len(part) \in 0 .. Size
           /\ Moved \in Clocks
<1>1. Moved \in Clocks
  BY WireFacts DEF Moved, Clocks, WireInv, WireTyped
<1>2. part \in Seq(1 .. Size) /\ Len(part) \in 0 .. Size
  BY WireFacts DEF WireInv, PartIsPrefix
<1> QED  BY <1>1, <1>2, WireFacts DEF WireInv, WireTyped

(* A call that ends.                                                        *)
LEMMA FinishKeeps ==
    ASSUME WireInv, NEW error \in WireErrors, CallFinishes(error), UNCHANGED sink,
           budget' \in Clocks, breaks' \in 0 .. MaxBreaks,
           call.at \in {"open", "send", "head", "body"},
           error = "none" => /\ call.at = "body"
                             /\ (resp.rest = <<>> \/ Framing(resp) = "until close")
    PROVE  WireInv'
<1>0. call \in Call
  BY WireParts
<1>1. /\ call' \in Call /\ call'.kind = call.kind /\ call'.error = error
      /\ call'.at = (IF call.kind = "download" THEN "settle" ELSE "ended")
      /\ call'.url = call.url /\ call'.auth = call.auth
      /\ call'.resuming = call.resuming /\ call'.range = call.range /\ call'.known = call.known
      /\ UNCHANGED <<part, dest, upload, resp, network>>
  BY <1>0, FinishedCallIs
<1>2. WireTyped' /\ TokenStaysHome' /\ PartIsPrefix' /\ AnswerFitsHeap' /\ BufferFits'
  BY <1>1 DEF WireInv, WireTyped, TokenStaysHome, PartIsPrefix, AnswerFitsHeap, BufferFits
<1>3. call.kind = "download" /\ error = "none" => Reading /\ Downloading
  BY DEF Reading, Downloading
<1>4. Reading' => Reading /\ call.kind = "download" /\ error = "none"
  BY <1>1, <1>3 DEF Reading, Downloading
<1>5. HeadIsTrue'
  BY <1>1, <1>4, ZenonT(60) DEF WireInv, HeadIsTrue, Successful
<1>6. RestFollows'
  <2>1. Reading' /\ Successful(resp') => /\ Place' = Place
                                       /\ (resp.rest = <<>> \/ Framing(resp) = "until close")
    BY <1>1, <1>4 DEF Place, StartsOver
  <2> QED  BY <1>1, <1>4, <2>1, ZenonT(60) DEF WireInv, RestFollows, Successful
<1>7. AskedIsLacking'
  BY <1>1 DEF WireInv, AskedIsLacking, Downloading
<1> QED  BY <1>2, <1>5, <1>6, <1>7 DEF WireInv

(* A step of a call that reads and writes no body.                          *)
LEMMA OnlyCallKeeps ==
    ASSUME WireInv, UNCHANGED <<part, dest, resp, sink>>, upload' \in 0 .. 2, breaks' \in 0 .. MaxBreaks,
           budget' \in Clocks, network' \in NetworkInitialize, call' \in Call,
           call'.kind = call.kind, call'.resuming = call.resuming, call'.range = call.range,
           \/ call'.at = call.at /\ call'.error = call.error
           \/ {call.at, call'.at} \subseteq {"open", "send", "head"},
           TokenStaysHome'
    PROVE  WireInv'
<1>1. WireTyped' /\ PartIsPrefix' /\ AnswerFitsHeap' /\ BufferFits'
  BY DEF WireInv, WireTyped, PartIsPrefix, AnswerFitsHeap, BufferFits
<1>2. AskedIsLacking'
  BY DEF WireInv, AskedIsLacking, Downloading
<1>3. Reading' => Reading /\ call'.at = call.at
  BY DEF Reading, Downloading
<1>4. Place' = Place
  BY DEF Place, StartsOver
<1>5. HeadIsTrue' /\ RestFollows'
  BY <1>3, <1>4, ZenonT(30) DEF WireInv, HeadIsTrue, RestFollows, Successful
<1> QED  BY <1>1, <1>2, <1>5 DEF WireInv

(* A call is asked for: its staging file is kept, or begun again.           *)
LEMMA AsksForKeeps ==
    ASSUME WireInv, AsksFor
    PROVE  WireInv'
<1>0. call \in Call /\ part \in Seq(1 .. Size) /\ Len(part) \in 0 .. Size /\ Size \in Nat /\ breaks \in Nat
  BY WireParts, WireFacts
<1>1. PICK nothing \in Call : nothing = Nothing /\ nothing.url = Home /\ nothing.range = 0 /\ nothing.resuming = FALSE
  BY WireFacts DEF Nothing
<1>2. PICK none \in Writer : none = NoSink /\ none.staged = FALSE /\ none.from = 0 /\ none.got = 0 /\ none.body = <<>>
  BY WireFacts DEF NoSink
<1>3. CASE \E post \in BOOLEAN : SendRequest(post)
  <2>1. PICK post \in BOOLEAN : SendRequest(post)
    BY <1>3
  <2>2. /\ call' = [[nothing EXCEPT !.kind = "send", !.auth = TRUE, !.post = post] EXCEPT !.at = "open"]
        /\ sink' = none /\ budget' = [spent |-> 0, quiet |-> 0] /\ resp' = WireSilence
        /\ UNCHANGED <<part, dest, upload, network, breaks>>
    BY <1>1, <1>2, <2>1 DEF SendRequest, Begins
  <2>3. call' \in Call /\ call'.url = Home /\ call'.kind = "send" /\ call'.at = "open"
    <3>1. PICK asked : asked = [nothing EXCEPT !.kind = "send", !.auth = TRUE, !.post = post]
      OBVIOUS
    <3>2. asked \in Call /\ asked.url = Home /\ asked.kind = "send"
      BY <1>1, <3>1 DEF Call
    <3>3. call' = [asked EXCEPT !.at = "open"]
      BY <2>2, <3>1
    <3> QED  BY <3>2, <3>3 DEF Call, Places
  <2>4. WireTyped' /\ TokenStaysHome' /\ PartIsPrefix'
    BY <2>2, <2>3, WireFacts DEF WireInv, WireTyped, TokenStaysHome, PartIsPrefix
  <2>5. AskedIsLacking' /\ HeadIsTrue' /\ RestFollows'
    BY <2>3 DEF AskedIsLacking, HeadIsTrue, RestFollows, Reading, Downloading
  <2>6. BufferFits' /\ AnswerFitsHeap'
    BY <1>2, <2>2, <2>3, WireFacts DEF BufferFits, AnswerFitsHeap
  <2> QED  BY <2>4, <2>5, <2>6 DEF WireInv
<1>4. CASE \E resume \in BOOLEAN, known \in KnownSizes : Download(resume, known)
  <2>1. PICK resume \in BOOLEAN, known \in KnownSizes : Download(resume, known)
    BY <1>4
  <2>2. PICK have \in 0 .. Size : have = IF resume THEN Len(part) ELSE 0
    BY <1>0
  <2>10. have \in Ranges
    BY DEF Ranges
  <2>3. PICK begun \in BOOLEAN : begun = (have > 0)
    <3>1. CASE have > 0
      <4>1. TRUE = (have > 0)
        BY <3>1
      <4> QED  BY <4>1, Zenon
    <3>2. CASE ~(have > 0)
      <4>1. FALSE = (have > 0)
        BY <3>2
      <4> QED  BY <4>1, Zenon
    <3> QED  BY <3>1, <3>2
  <2>4. /\ sink' = [none EXCEPT !.staged = begun, !.from = have]
        /\ call' = [[nothing EXCEPT !.kind = "download", !.auth = TRUE, !.known = known,
                                    !.resuming = begun, !.range = have] EXCEPT !.at = "open"]
        /\ part' = (IF begun THEN part ELSE <<>>)
        /\ budget' = [spent |-> 0, quiet |-> 0] /\ resp' = WireSilence
        /\ UNCHANGED <<dest, upload, network, breaks>>
    BY <1>1, <1>2, <2>1, <2>2, <2>3 DEF Download, Begins
  <2>5. sink' \in Writer /\ sink'.staged = begun /\ sink'.from = have /\ sink'.got = 0 /\ sink'.body = <<>>
    <3>1. sink' = [none EXCEPT !.staged = begun, !.from = have] /\ have \in Nat
      BY <1>0, <2>2, <2>4
    <3> QED  BY <1>2, <3>1 DEF Writer
  <2>6. /\ call' \in Call /\ call'.url = Home /\ call'.kind = "download" /\ call'.at = "open"
        /\ call'.resuming = begun /\ call'.range = have
    <3>1. PICK asked : asked = [nothing EXCEPT !.kind = "download", !.auth = TRUE, !.known = known,
                                               !.resuming = begun, !.range = have]
      OBVIOUS
    <3>2. asked \in Call /\ asked.url = Home /\ asked.kind = "download" /\ asked.resuming = begun /\ asked.range = have
      BY <1>1, <2>10, <3>1 DEF Call
    <3>3. call' = [asked EXCEPT !.at = "open"]
      BY <2>4, <3>1
    <3> QED  BY <3>2, <3>3 DEF Call, Places
  <2>7. PartIsPrefix' /\ Len(part') = have
    <3>1. CASE begun
      BY <1>0, <2>2, <2>3, <2>4, <3>1 DEF WireInv, PartIsPrefix
    <3>2. CASE ~begun
      <4>1. part' = <<>> /\ have = 0
        BY <1>0, <2>2, <2>3, <2>4, <3>2
      <4>2. part' \in Seq(1 .. Size) /\ Len(part') = 0
        BY <4>1
      <4> QED  BY <1>0, <4>1, <4>2 DEF PartIsPrefix
    <3> QED  BY <3>1, <3>2
  <2>8. WireTyped' /\ TokenStaysHome'
    BY <2>4, <2>5, <2>6, WireFacts DEF WireInv, WireTyped, TokenStaysHome
  <2>9. AskedIsLacking' /\ HeadIsTrue' /\ RestFollows' /\ BufferFits' /\ AnswerFitsHeap'
    BY <2>3, <2>5, <2>6, <2>7
    DEF AskedIsLacking, HeadIsTrue, RestFollows, Reading, Downloading, BufferFits, AnswerFitsHeap
  <2> QED  BY <2>7, <2>8, <2>9 DEF WireInv
<1>5. CASE DownloadRefused
  <2>1. call' = [nothing EXCEPT !.kind = "download", !.at = "ended", !.error = "write failed"]
    BY <1>1, <1>5 DEF DownloadRefused
  <2>2. call' \in Call /\ call'.url = Home /\ call'.kind = "download" /\ call'.at = "ended"
    <3>1. "write failed" \in WireErrors /\ "ended" \in Places
      BY DEF WireErrors, Places
    <3> QED  BY <1>1, <2>1, <3>1 DEF Call
  <2>3. /\ UNCHANGED <<part, dest, upload, resp, sink, budget, network>> /\ breaks' \in 0 .. MaxBreaks
    BY <1>0, <1>5, WireFacts DEF DownloadRefused
  <2>4. WireTyped' /\ TokenStaysHome' /\ PartIsPrefix'
    BY <2>2, <2>3 DEF WireInv, WireTyped, TokenStaysHome, PartIsPrefix
  <2>5. AskedIsLacking' /\ HeadIsTrue' /\ RestFollows' /\ BufferFits' /\ AnswerFitsHeap'
    BY <2>2 DEF AskedIsLacking, HeadIsTrue, RestFollows, Reading, Downloading, BufferFits, AnswerFitsHeap
  <2> QED  BY <2>4, <2>5 DEF WireInv
<1> QED  BY <1>3, <1>4, <1>5, AsksFor DEF AsksFor

(* The steps of a hop before its body, and what happens around it.          *)
LEMMA BeforeBodyKeeps ==
    ASSUME WireInv,
           \/ Connects \/ SentAll \/ Interim \/ Tick \/ WifiFlips \/ SaveChanges
           \/ \E status \in Redirects, to \in Urls : Redirect(status, to)
    PROVE  WireInv'
<1>0. /\ call \in Call /\ budget \in Clocks /\ breaks \in Nat /\ MaxBreaks \in Nat /\ Moved \in Clocks
      /\ upload \in 0 .. 2 /\ network \in NetworkInitialize /\ breaks \in 0 .. MaxBreaks
      /\ TokenStaysHome
  BY WireParts DEF WireInv, WireTyped
<1>1. CASE Connects
  <2>1. BuildMultipart \in 0 .. 2
    BY <1>0 DEF BuildMultipart
  <2>2. call' \in Call /\ call'.kind = call.kind /\ call'.resuming = call.resuming /\ call'.range = call.range
        /\ call'.at = "send" /\ call'.url = call.url /\ call'.auth = call.auth
    <3>1. PICK sized \in 0 .. 2 : sized = BuildMultipart
      BY <2>1
    <3>2. call' = [call EXCEPT !.at = "send", !.sent = 0, !.sized = sized] /\ "send" \in Places
      BY <1>1, <3>1 DEF Connects, Places
    <3>3. sized \in FormSizes /\ 0 \in FormSizes
      BY <3>1 DEF FormSizes
    <3> QED  BY <1>0, <3>2, <3>3 DEF Call
  <2> QED  BY <1>0, <1>1, <2>2, OnlyCallKeeps DEF Connects, TokenStaysHome
<1>2. CASE SentAll
  <2>1. call' \in Call /\ call'.kind = call.kind /\ call'.resuming = call.resuming /\ call'.range = call.range
        /\ call'.at = "head" /\ call'.url = call.url /\ call'.auth = call.auth
    BY <1>0, <1>2 DEF SentAll, Call, Places
  <2> QED  BY <1>0, <1>2, <2>1, OnlyCallKeeps DEF SentAll, TokenStaysHome
<1>3. CASE Interim
  <2>1. breaks' \in 0 .. MaxBreaks
    BY <1>0, <1>3 DEF Interim
  <2> QED  BY <1>0, <1>3, <2>1, OnlyCallKeeps DEF Interim, TokenStaysHome
<1>4. CASE Tick
  <2>1. budget' \in Clocks
    <3>1. budget.spent \in 0 .. Total /\ budget.quiet \in 0 .. Stall /\ Total \in Nat \ {0} /\ Stall \in Nat \ {0}
      BY <1>0, WireFacts DEF Clocks
    <3>2. TotalOf(call.kind) > 0 => TotalOf(call.kind) = Total /\ budget.spent < Total
      BY <1>4, <3>1 DEF Tick, Expired, TotalOf
    <3>3. (IF TotalOf(call.kind) > 0 THEN budget.spent + 1 ELSE 0) \in 0 .. Total
      BY <3>1, <3>2
    <3>4. (IF budget.quiet < Stall THEN budget.quiet + 1 ELSE budget.quiet) \in 0 .. Stall
      BY <3>1
    <3> QED  BY <1>4, <3>3, <3>4 DEF Tick, Clocks
  <2> QED  BY <1>0, <1>4, <2>1, OnlyCallKeeps DEF Tick, TokenStaysHome
<1>5. CASE WifiFlips
  <2>1. breaks' \in 0 .. MaxBreaks
    BY <1>0, <1>5 DEF WifiFlips
  <2>2. network' \in NetworkInitialize
    <3>1. PICK s \in BOOLEAN, t \in BOOLEAN, o \in BOOLEAN : network = [socket |-> s, ssl |-> s /\ t, online |-> o]
      BY <1>0 DEF NetworkInitialize
    <3>2. PICK off : off = ~o
      OBVIOUS
    <3>3. network' = [socket |-> s, ssl |-> s /\ t, online |-> off]
      BY <1>5, <3>1, <3>2 DEF WifiFlips
    <3>4. off \in BOOLEAN
      BY <3>2, Zenon
    <3> QED  BY <3>3, <3>4 DEF NetworkInitialize
  <2> QED  BY <1>0, <1>5, <2>1, <2>2, OnlyCallKeeps DEF WifiFlips, TokenStaysHome
<1>6. CASE SaveChanges
  <2>1. breaks' \in 0 .. MaxBreaks /\ upload' \in 0 .. 2
    BY <1>0, <1>6 DEF SaveChanges
  <2> QED  BY <1>0, <1>6, <2>1, OnlyCallKeeps DEF SaveChanges, TokenStaysHome
<1>7. CASE \E status \in Redirects, to \in Urls : Redirect(status, to)
  <2>1. PICK status \in Redirects, to \in Urls : Redirect(status, to)
    BY <1>7
  <2>2. PICK post \in BOOLEAN : post = (call.post /\ status = 307)
    OBVIOUS
  <2>3. PICK moved : moved = [call EXCEPT !.at = "open", !.url = to, !.hop = @ + 1, !.post = post]
    OBVIOUS
  <2>4. call.hop + 1 \in Hops
    <3>1. call.hop < MaxRedirects
      BY <2>1, Zenon DEF Redirect
    <3>2. call.hop \in 0 .. MaxRedirects
      BY <1>0 DEF Call, Hops
    <3> QED  BY <3>1, <3>2, WireFacts DEF Hops
  <2>5. /\ moved \in Call /\ moved.kind = call.kind /\ moved.resuming = call.resuming /\ moved.range = call.range
        /\ moved.at = "open" /\ moved.url = to /\ moved.auth = call.auth
    BY <1>0, <2>1, <2>3, <2>4 DEF Call, Places
  <2>6. call' = IF SameOrigin(call.url, to) THEN moved ELSE [moved EXCEPT !.auth = FALSE]
    BY <2>1, <2>2, <2>3 DEF Redirect, DropCredentialHeaders
  <2>7. /\ call' \in Call /\ call'.kind = call.kind /\ call'.resuming = call.resuming /\ call'.range = call.range
        /\ call'.at = "open" /\ call'.url = to
        /\ call'.auth => SameOrigin(call.url, to) /\ call.auth
    BY <2>5, <2>6 DEF Call
  <2>8. SameOrigin(call.url, to) => to = call.url
    BY DEF SameOrigin, Origins
  <2>9. TokenStaysHome'
    BY <1>0, <2>7, <2>8 DEF TokenStaysHome
  <2> QED  BY <1>0, <2>1, <2>7, <2>9, OnlyCallKeeps DEF Redirect
<1> QED  BY <1>1, <1>2, <1>3, <1>4, <1>5, <1>6, <1>7

(* Every way a call ends, but for the verdict on a file.                    *)
LEMMA EndsKeep ==
    ASSUME WireInv, OpenFails \/ SendBlock \/ ReceiveFails \/ BodyEnds \/ Slice \/ \E clean \in BOOLEAN : ConnectionLost(clean)
    PROVE  WireInv'
<1>0. /\ call \in Call /\ budget \in Clocks /\ breaks \in Nat /\ MaxBreaks \in Nat /\ Moved \in Clocks
      /\ upload \in 0 .. 2 /\ network \in NetworkInitialize /\ breaks \in 0 .. MaxBreaks
      /\ TokenStaysHome /\ (breaks < MaxBreaks => breaks + 1 \in 0 .. MaxBreaks)
  BY WireParts DEF WireInv, WireTyped
<1>1. {"none", "invalid request", "connect failed", "tls", "timeout", "canceled", "truncated", "disk full",
       "transport"} \subseteq WireErrors
  BY DEF WireErrors
<1>2. CASE OpenFails
  <2>1. PICK error \in {"invalid request", "connect failed", "tls", "timeout"} : CallFinishes(error)
    BY <1>2 DEF OpenFails, OpenErrors
  <2>2. UNCHANGED sink /\ budget' \in Clocks /\ breaks' \in 0 .. MaxBreaks /\ call.at = "open"
    BY <1>0, <1>2 DEF OpenFails
  <2> QED  BY <1>1, <2>1, <2>2, FinishKeeps
<1>3. CASE SendBlock
  <2>1. call.at = "send" /\ UNCHANGED <<sink, breaks>>
    BY <1>3 DEF SendBlock
  <2>2. CASE CallFinishes("invalid request") /\ UNCHANGED budget
    BY <1>0, <1>1, <2>1, <2>2, FinishKeeps
  <2>3. CASE /\ call.sent < upload /\ call' = [call EXCEPT !.sent = @ + 1] /\ budget' = Moved
             /\ UNCHANGED <<part, dest, upload, resp, network>>
    <3>1. PICK sent \in FormSizes : sent = call.sent + 1
      <4>1. call.sent \in 0 .. 2 /\ call.sent < 2
        BY <1>0, <2>3 DEF Call, FormSizes
      <4> QED  BY <4>1 DEF FormSizes
    <3>2. call' = [call EXCEPT !.sent = sent]
      BY <2>3, <3>1
    <3>3. call' \in Call /\ call'.kind = call.kind /\ call'.resuming = call.resuming /\ call'.range = call.range
          /\ call'.at = call.at /\ call'.error = call.error /\ call'.url = call.url /\ call'.auth = call.auth
      BY <1>0, <3>1, <3>2 DEF Call
    <3> QED  BY <1>0, <2>1, <2>3, <3>3, OnlyCallKeeps DEF TokenStaysHome
  <2> QED  BY <1>3, <2>2, <2>3 DEF SendBlock
<1>4. CASE ReceiveFails
  <2>1. CallFinishes("disk full") /\ UNCHANGED <<sink, budget>> /\ breaks' \in 0 .. MaxBreaks /\ call.at = "body"
    BY <1>0, <1>4 DEF ReceiveFails
  <2> QED  BY <1>0, <1>1, <2>1, FinishKeeps
<1>5. CASE BodyEnds
  <2>1. CallFinishes("none") /\ UNCHANGED <<sink, budget, breaks>> /\ call.at = "body" /\ resp.rest = <<>>
    BY <1>5 DEF BodyEnds
  <2> QED  BY <1>0, <1>1, <2>1, FinishKeeps
<1>6. CASE Slice
  <2>1. PICK error \in {"timeout", "canceled"} : CallFinishes(error)
    BY <1>6 DEF Slice
  <2>2. UNCHANGED <<sink, budget>> /\ breaks' \in 0 .. MaxBreaks /\ call.at \in {"send", "head", "body"}
    BY <1>0, <1>6 DEF Slice
  <2> QED  BY <1>0, <1>1, <2>1, <2>2, FinishKeeps
<1>7. CASE \E clean \in BOOLEAN : ConnectionLost(clean)
  <2>1. PICK clean \in BOOLEAN : ConnectionLost(clean)
    BY <1>7
  <2>2. PICK error : error = CutShort(clean)
    OBVIOUS
  <2>3. /\ CallFinishes(error) /\ UNCHANGED <<sink, budget>> /\ breaks' \in 0 .. MaxBreaks
        /\ call.at \in {"send", "head", "body"}
    BY <1>0, <2>1, <2>2 DEF ConnectionLost
  <2>4. /\ error \in {"transport", "none", "truncated"}
        /\ error = "none" => call.at = "body" /\ Framing(resp) = "until close"
    BY <2>2 DEF CutShort
  <2> QED  BY <1>0, <1>1, <2>3, <2>4, FinishKeeps
<1> QED  BY <1>2, <1>3, <1>4, <1>5, <1>6, <1>7

(* The final head: its body begins where the staging file ends, or over.    *)
LEMMA FinalHeadKeeps ==
    ASSUME WireInv, NEW r \in Answers, FinalHead(r)
    PROVE  WireInv'
<1>0. /\ call \in Call /\ resp \in Answer /\ sink \in Writer /\ Moved \in Clocks
      /\ call.at = "head" /\ budget' = Moved /\ UNCHANGED <<part, dest, upload, network, breaks>>
      /\ Len(part) \in 0 .. Size /\ kMaxResponse \in Nat /\ kMaxUndeclared \in Nat /\ Size \in Nat \ {0}
  BY WireParts, WireFacts DEF FinalHead
<1>1. PartIsPrefix'
  BY <1>0 DEF WireInv, PartIsPrefix
<1>2. CASE call.kind = "send" /\ RefusedLength(r)
  <2>1. call' = [call EXCEPT !.at = "ended", !.error = "too large"] /\ UNCHANGED <<resp, sink>>
    BY <1>2 DEF FinalHead
  <2>2. /\ call' \in Call /\ call'.at = "ended" /\ call'.kind = "send"
        /\ call'.url = call.url /\ call'.auth = call.auth
    BY <1>0, <1>2, <2>1 DEF Call, Places, WireErrors
  <2>3. WireTyped' /\ TokenStaysHome'
    BY <1>0, <2>1, <2>2 DEF WireInv, WireTyped, TokenStaysHome
  <2>4. AskedIsLacking' /\ HeadIsTrue' /\ RestFollows' /\ BufferFits' /\ AnswerFitsHeap'
    BY <1>2, <2>1, <2>2
    DEF WireInv, AskedIsLacking, HeadIsTrue, RestFollows, Reading, Downloading, BufferFits, AnswerFitsHeap
  <2> QED  BY <1>1, <2>3, <2>4 DEF WireInv
<1>3. CASE ~(call.kind = "send" /\ RefusedLength(r))
  <2>1. PICK undeclared \in BOOLEAN : undeclared = Undeclared(r)
    BY DEF Undeclared
  <2>2. resp' = r /\ sink' = [sink EXCEPT !.undeclared = undeclared] /\ call' = [call EXCEPT !.at = "body"]
    BY <1>3, <2>1 DEF FinalHead
  <2>3. /\ call' \in Call /\ call'.at = "body" /\ call'.kind = call.kind /\ call'.url = call.url
        /\ call'.auth = call.auth /\ call'.resuming = call.resuming /\ call'.range = call.range
    BY <1>0, <2>2 DEF Call, Places
  <2>4. /\ sink' \in Writer /\ sink'.staged = sink.staged /\ sink'.from = sink.from /\ sink'.got = sink.got
        /\ sink'.body = sink.body /\ sink'.undeclared = undeclared
    BY <1>0, <2>1, <2>2 DEF Writer
  <2>5. /\ r \in Answer /\ (r.te = "none" => r.cl \in {-1, Len(r.rest)})
        /\ call.kind # "download" /\ r.status = 204 => r.te = "none" /\ r.cl = -1
        /\ call.kind = "download" =>
             \/ r.status \in {416, 503}
             \/ r.status = 200 /\ r.range = 0 /\ r.rest = Resource(0) /\ r.cl \in {-1, 0, Size}
             \/ /\ r.status = 206 /\ r.range = Size /\ call.range \in 1 .. Size - 1
                /\ r.rest = Resource(call.range)
    BY <1>0, AnswersAre
  <2>6. /\ Len(Resource(0)) = Size /\ \A k \in 1 .. Size : Resource(0)[k] = k
        /\ \A n \in 1 .. Size - 1 : /\ Len(Resource(n)) = Size - n
                                   /\ \A k \in 1 .. Size - n : Resource(n)[k] = n + k
    <3>1. Len(Resource(0)) = Size - 0 /\ \A k \in 1 .. Size - 0 : Resource(0)[k] = 0 + k
      <4>1. 0 \in 0 .. Size
        BY <1>0
      <4> QED  BY <4>1, ResourceIs
    <3>2. ASSUME NEW n \in 1 .. Size - 1
          PROVE  Len(Resource(n)) = Size - n /\ \A k \in 1 .. Size - n : Resource(n)[k] = n + k
      <4>1. n \in 0 .. Size
        BY <1>0
      <4> QED  BY <4>1, ResourceIs
    <3>3. Size - 0 = Size /\ \A k \in 1 .. Size : 0 + k = k
      BY <1>0
    <3>4. Len(Resource(0)) = Size /\ \A k \in 1 .. Size : Resource(0)[k] = k
      BY <3>1, <3>3
    <3> QED  BY <3>2, <3>4
  <2>7. WireTyped' /\ TokenStaysHome'
    BY <1>0, <2>2, <2>3, <2>4, <2>5 DEF WireInv, WireTyped, TokenStaysHome
  <2>8. CASE call.kind = "download"
    <3>1. /\ call.resuming = (call.range > 0) /\ sink.from = call.range /\ sink.got = 0
          /\ Len(part) = call.range /\ sink.staged = (call.range > 0)
      BY <1>0, <2>8 DEF WireInv, AskedIsLacking, Downloading
    <3>2. AskedIsLacking' /\ BufferFits' /\ AnswerFitsHeap'
      BY <2>3, <2>8, <3>1 DEF AskedIsLacking, Downloading, BufferFits, AnswerFitsHeap
    <3>3. HeadIsTrue'
      <4>1. r.status \in {416, 503} => ~Successful(r) /\ r.status \notin {200, 206}
        BY DEF Successful
      <4>2. r.status = 200 => (r.te = "none" => r.cl \in {-1, Size})
        BY <2>5, <2>6, <2>8
      <4>3. resp' = r
        BY <2>2
      <4> QED  BY <2>5, <2>8, <4>1, <4>2, <4>3 DEF HeadIsTrue, Successful
    <3>4. RestFollows'
      <4>1. CASE r.status \in {416, 503}
        <5>1. resp' = r /\ ~(r.status \in 200 .. 299)
          BY <2>2, <4>1
        <5> QED  BY <5>1 DEF RestFollows, Successful
      <4>2. CASE r.status = 200 /\ r.rest = Resource(0)
        <5>1. Place' = 0
          <6>1. resp'.status # 206 /\ sink'.staged = (call.range > 0) /\ Len(part') = call.range
            BY <1>0, <2>2, <2>4, <3>1, <4>2
          <6>2. call.range > 0 => Place' = 0
            BY <6>1 DEF Place, StartsOver
          <6>3. ~(call.range > 0) => Place' = call.range
            BY <6>1 DEF Place, StartsOver
          <6> QED  BY <1>0, <3>1, <6>2, <6>3
        <5> QED  BY <1>0, <2>2, <2>3, <2>4, <2>6, <3>1, <4>2, <5>1 DEF RestFollows
      <4>3. CASE r.status = 206 /\ call.range \in 1 .. Size - 1 /\ r.rest = Resource(call.range)
        <5>1. Place' = call.range
          BY <1>0, <2>2, <2>4, <3>1, <4>3 DEF Place, StartsOver
        <5> QED  BY <1>0, <2>2, <2>3, <2>4, <2>6, <3>1, <4>3, <5>1 DEF RestFollows
      <4> QED  BY <2>5, <2>8, <4>1, <4>2, <4>3
    <3> QED  BY <1>1, <2>7, <3>2, <3>3, <3>4 DEF WireInv
  <2>9. CASE call.kind # "download"
    <3>1. AskedIsLacking' /\ HeadIsTrue' /\ RestFollows'
      BY <2>3, <2>9 DEF AskedIsLacking, HeadIsTrue, RestFollows, Reading, Downloading
    <3>2. BufferFits' /\ AnswerFitsHeap'
      <4> SUFFICES ASSUME call.kind = "send" PROVE BufferFits' /\ AnswerFitsHeap'
        BY <2>3 DEF BufferFits, AnswerFitsHeap
      <4>1. sink'.body = <<>> /\ Len(sink'.body) = 0
        BY <1>0, <2>4 DEF WireInv, BufferFits
      <4>2. ASSUME ~Undeclared(r) PROVE Framing(r) = "length" /\ Len(r.rest) <= kMaxResponse /\ Len(r.rest) \in Nat
        <5>1. r.te = "none" /\ r.cl >= 0 /\ r.cl \in Int /\ r.rest \in Seq(Nat)
          BY <2>5, <4>2 DEF Undeclared, Answer
        <5>2. r.cl = Len(r.rest) /\ r.cl <= kMaxResponse
          BY <1>0, <1>3, <2>5, <4>2, <5>1 DEF RefusedLength
        <5>3. r.status # 204
          BY <2>5, <2>9, <5>1
        <5>4. Framing(r) = "length"
          BY <2>5, <5>1, <5>3, FramingIs
        <5> QED  BY <5>1, <5>2, <5>4
      <4>3. BufferFits'
        <5>1. resp' = r /\ sink'.undeclared = Undeclared(r) /\ call'.at = "body"
          BY <2>1, <2>2, <2>3, <2>4
        <5> QED  BY <1>0, <4>1, <4>2, <5>1 DEF BufferFits, Undeclared
      <4>4. AnswerFitsHeap'
        BY <1>0, <4>1 DEF AnswerFitsHeap
      <4> QED  BY <4>3, <4>4
    <3> QED  BY <1>1, <2>7, <3>1, <3>2 DEF WireInv
  <2> QED  BY <2>8, <2>9
<1> QED  BY <1>2, <1>3

(* A block of a body: into the buffer, within what it may hold...           *)
LEMMA ReceiveBufferKeeps ==
    ASSUME WireInv, ReceiveBuffer
    PROVE  WireInv'
<1>0. /\ call \in Call /\ resp \in Answer /\ sink \in Writer /\ Moved \in Clocks
      /\ call.at = "body" /\ call.kind = "send" /\ resp.rest # <<>>
      /\ budget' = Moved /\ UNCHANGED <<part, dest, upload, network, breaks>>
      /\ kMaxResponse \in Nat /\ kMaxUndeclared \in Nat
  BY WireParts, WireFacts DEF ReceiveBuffer
<1>1. PartIsPrefix'
  BY <1>0 DEF WireInv, PartIsPrefix
<1>2. resp.rest \in Seq(Nat) /\ sink.body \in Seq(Nat)
  BY <1>0 DEF Answer, Writer
<1>3. Head(resp.rest) \in Nat /\ Tail(resp.rest) \in Seq(Nat) /\ Len(Tail(resp.rest)) = Len(resp.rest) - 1
  BY <1>0, <1>2
<1>4. CASE sink.undeclared /\ Overflows(Len(sink.body) + 1)
  <2>1. /\ sink' = [sink EXCEPT !.body = <<>>] /\ UNCHANGED resp
        /\ call' = [call EXCEPT !.at = "ended", !.error = "too large"]
    BY <1>4 DEF ReceiveBuffer
  <2>2. /\ call' \in Call /\ call'.at = "ended" /\ call'.kind = "send"
        /\ call'.url = call.url /\ call'.auth = call.auth
    BY <1>0, <2>1 DEF Call, Places, WireErrors
  <2>3. sink' \in Writer /\ Len(sink'.body) = 0
    <3>1. PICK empty \in Seq(Nat) : empty = <<>>
      <4>1. <<>> \in Seq(Nat)
        OBVIOUS
      <4> QED  BY <4>1, Zenon
    <3>2. sink' = [sink EXCEPT !.body = empty]
      BY <2>1, <3>1
    <3> QED  BY <1>0, <3>1, <3>2 DEF Writer
  <2>4. WireTyped' /\ TokenStaysHome'
    BY <1>0, <2>1, <2>2, <2>3 DEF WireInv, WireTyped, TokenStaysHome
  <2>5. AskedIsLacking' /\ HeadIsTrue' /\ RestFollows' /\ BufferFits' /\ AnswerFitsHeap'
    BY <1>0, <2>2, <2>3
    DEF AskedIsLacking, HeadIsTrue, RestFollows, Reading, Downloading, BufferFits, AnswerFitsHeap
  <2> QED  BY <1>1, <2>4, <2>5 DEF WireInv
<1>5. CASE ~(sink.undeclared /\ Overflows(Len(sink.body) + 1))
  <2>1. PICK held \in Seq(Nat) : held = Append(sink.body, Head(resp.rest)) /\ Len(held) = Len(sink.body) + 1
    <3>1. /\ Append(sink.body, Head(resp.rest)) \in Seq(Nat)
          /\ Len(Append(sink.body, Head(resp.rest))) = Len(sink.body) + 1
      BY <1>2, <1>3
    <3> QED  BY <3>1
  <2>2. PICK left \in Seq(Nat) : left = Tail(resp.rest) /\ Len(left) = Len(resp.rest) - 1
    BY <1>3
  <2>3. sink' = [sink EXCEPT !.body = held] /\ resp' = [resp EXCEPT !.rest = left] /\ UNCHANGED call
    BY <1>5, <2>1, <2>2 DEF ReceiveBuffer
  <2>4. sink' \in Writer /\ sink'.body = held /\ sink'.undeclared = sink.undeclared
    BY <1>0, <2>3 DEF Writer
  <2>5. /\ resp' \in Answer /\ resp'.rest = left
        /\ resp'.te = resp.te /\ resp'.cl = resp.cl /\ resp'.status = resp.status
    BY <1>0, <2>3 DEF Answer
  <2>6. WireTyped' /\ TokenStaysHome'
    BY <1>0, <2>3, <2>4, <2>5 DEF WireInv, WireTyped, TokenStaysHome
  <2>7. AskedIsLacking' /\ HeadIsTrue' /\ RestFollows'
    BY <1>0, <2>3 DEF AskedIsLacking, HeadIsTrue, RestFollows, Reading, Downloading
  <2>8. Framing(resp') = Framing(resp) /\ Undeclared(resp') = Undeclared(resp)
    BY <2>5 DEF Framing, Undeclared
  <2>9. BufferFits'
    <3>1. sink.undeclared = Undeclared(resp)
      BY <1>0 DEF WireInv, BufferFits
    <3>2. ~Undeclared(resp) => Framing(resp) = "length" /\ Len(sink.body) + Len(resp.rest) <= kMaxResponse
      BY <1>0 DEF WireInv, BufferFits
    <3>3. Len(held) + Len(left) = Len(sink.body) + Len(resp.rest)
      <4>1. PICK m \in Nat, n \in Nat : m = Len(sink.body) /\ n = Len(resp.rest)
        BY <1>2
      <4>2. PICK a \in Nat, b \in Nat : a = Len(held) /\ b = Len(left)
        OBVIOUS
      <4>3. a = m + 1 /\ b = n - 1
        BY <2>1, <2>2, <4>1, <4>2
      <4>4. a + b = m + n
        BY <4>3
      <4> QED  BY <4>1, <4>2, <4>4
    <3> QED  BY <1>0, <2>3, <2>4, <2>5, <2>8, <3>1, <3>2, <3>3 DEF BufferFits
  <2>10. AnswerFitsHeap'
    <3>1. CASE sink.undeclared
      <4>1. Len(held) <= kMaxUndeclared /\ kMaxUndeclared <= kMaxResponse
        BY <1>0, <1>2, <1>5, <2>1, <3>1, WireFacts DEF Overflows
      <4> QED  BY <1>0, <2>4, <4>1 DEF AnswerFitsHeap
    <3>2. CASE ~sink.undeclared
      <4>1. Framing(resp) = "length" /\ Len(sink.body) + Len(resp.rest) <= kMaxResponse
        BY <1>0, <3>2 DEF WireInv, BufferFits
      <4>2. Len(resp.rest) >= 1
        BY <1>0, <1>2
      <4>3. Len(held) <= kMaxResponse
        <5>1. PICK m \in Nat, n \in Nat : m = Len(sink.body) /\ n = Len(resp.rest)
          BY <1>2
        <5>2. Len(held) = m + 1 /\ m + n <= kMaxResponse /\ n >= 1
          BY <2>1, <4>1, <4>2, <5>1
        <5> QED  BY <1>0, <5>2
      <4> QED  BY <1>0, <2>4, <2>8, <4>1, <4>3 DEF AnswerFitsHeap
    <3> QED  BY <3>1, <3>2
  <2> QED  BY <1>1, <2>6, <2>7, <2>9, <2>10 DEF WireInv
<1> QED  BY <1>4, <1>5

(* ...or into the staging file, at the place its number says.               *)
LEMMA ReceiveFileKeeps ==
    ASSUME WireInv, ReceiveFile
    PROVE  WireInv'
<1>0. /\ call \in Call /\ resp \in Answer /\ sink \in Writer /\ Moved \in Clocks
      /\ call.at = "body" /\ call.kind = "download" /\ resp.rest # <<>>
      /\ budget' = Moved /\ UNCHANGED <<call, dest, upload, network, breaks>>
      /\ part \in Seq(1 .. Size) /\ Len(part) \in 0 .. Size /\ Size \in Nat
  BY WireParts, WireFacts DEF ReceiveFile
<1>1. Reading /\ Downloading
  BY <1>0 DEF Reading, Downloading
<1>2. resp.rest \in Seq(Nat)
  BY <1>0 DEF Answer
<1>3. PICK left \in Seq(Nat) : /\ left = Tail(resp.rest) /\ Len(left) = Len(resp.rest) - 1
                              /\ \A k \in 1 .. Len(left) : left[k] = resp.rest[k + 1]
  <2>1. Tail(resp.rest) \in Seq(Nat) /\ Len(Tail(resp.rest)) = Len(resp.rest) - 1
    BY <1>0, <1>2
  <2>2. \A k \in 1 .. Len(Tail(resp.rest)) : Tail(resp.rest)[k] = resp.rest[k + 1]
    BY <1>0, <1>2
  <2> QED  BY <2>1, <2>2
<1>4. resp' = [resp EXCEPT !.rest = left]
  BY <1>3 DEF ReceiveFile
<1>5. /\ resp' \in Answer /\ resp'.rest = left /\ resp'.range = resp.range
      /\ resp'.te = resp.te /\ resp'.cl = resp.cl /\ resp'.status = resp.status
  BY <1>0, <1>4 DEF Answer
<1>6. Framing(resp') = Framing(resp) /\ Successful(resp') = Successful(resp)
  BY <1>5 DEF Framing, Successful
<1>7. HeadIsTrue'
  BY <1>0, <1>1, <1>5, <1>6 DEF WireInv, HeadIsTrue
<1>8. AskedIsLacking' /\ BufferFits' /\ AnswerFitsHeap' /\ TokenStaysHome'
  BY <1>0 DEF WireInv, AskedIsLacking, Downloading, BufferFits, AnswerFitsHeap, TokenStaysHome
<1>9. sink.from \in Nat /\ sink.got \in Nat
  BY <1>0 DEF Writer
<1>10. CASE Successful(resp)
  <2>1. PICK begin : begin = IF StartsOver THEN <<>> ELSE part
    OBVIOUS
  <2>2. PICK from : from = IF StartsOver THEN 0 ELSE sink.from
    OBVIOUS
  <2>3. /\ part' = Append(begin, Head(resp.rest))
        /\ sink' = [sink EXCEPT !.staged = FALSE, !.got = @ + 1, !.from = from]
    BY <1>10, <2>1, <2>2 DEF ReceiveFile
  <2>4. /\ sink.from + sink.got = Len(part) /\ (sink.staged => sink.got = 0 /\ call.resuming)
        /\ Place + Len(resp.rest) = Size
        /\ \A k \in 1 .. Len(resp.rest) : resp.rest[k] = Place + k
    BY <1>1, <1>10 DEF WireInv, RestFollows
  <2>5. begin \in Seq(1 .. Size) /\ Len(begin) = Place /\ \A k \in 1 .. Len(begin) : begin[k] = k
    <3>1. CASE StartsOver
      BY <2>1, <3>1 DEF Place
    <3>2. CASE ~StartsOver
      BY <1>0, <2>1, <3>2 DEF Place, WireInv, PartIsPrefix
    <3> QED  BY <3>1, <3>2
  <2>6. Place \in 0 .. Size - 1 /\ Head(resp.rest) = Place + 1
    <3>1. Place \in Nat /\ Len(resp.rest) >= 1 /\ Head(resp.rest) = resp.rest[1]
      BY <1>0, <1>2, <2>5
    <3> QED  BY <1>0, <1>2, <2>4, <3>1
  <2>7. PICK place \in 0 .. Size - 1 : place = Place
    BY <2>6
  <2>8. /\ part' \in Seq(1 .. Size) /\ Len(part') = place + 1
        /\ \A k \in 1 .. Len(part') : part'[k] = k
    <3>1. Head(resp.rest) = place + 1 /\ place + 1 \in 1 .. Size
      BY <1>0, <2>6, <2>7
    <3>2. Len(begin) = place
      BY <2>5, <2>7
    <3>3. part' \in Seq(1 .. Size) /\ Len(part') = place + 1
      BY <2>3, <2>5, <3>1, <3>2
    <3>4. ASSUME NEW k \in 1 .. place + 1
          PROVE  part'[k] = k
      <4>1. CASE k = place + 1
        BY <2>3, <2>5, <3>1, <3>2, <4>1
      <4>2. CASE k # place + 1
        <5>1. k \in 1 .. Len(begin)
          BY <3>2, <4>2
        <5> QED  BY <2>3, <2>5, <5>1
      <4> QED  BY <4>1, <4>2
    <3> QED  BY <3>3, <3>4
  <2>9. PartIsPrefix'
    BY <1>0, <2>8 DEF PartIsPrefix
  <2>10. from + (sink.got + 1) = place + 1 /\ from \in Nat
    <3>1. CASE StartsOver
      <4>1. from = 0 /\ place = 0 /\ sink.got = 0
        BY <2>2, <2>4, <2>7, <3>1 DEF Place, StartsOver
      <4> QED  BY <4>1
    <3>2. CASE ~StartsOver
      <4>1. from = sink.from /\ place = Len(part) /\ sink.from + sink.got = Len(part)
        BY <2>2, <2>4, <2>7, <3>2 DEF Place
      <4> QED  BY <1>9, <4>1
    <3> QED  BY <3>1, <3>2
  <2>11. /\ sink' \in Writer /\ sink'.staged = FALSE /\ sink'.from = from /\ sink'.got = sink.got + 1
    <3>1. PICK got \in Nat : got = sink.got + 1
      BY <1>9
    <3>2. sink' = [sink EXCEPT !.staged = FALSE, !.got = got, !.from = from]
      BY <2>3, <3>1
    <3> QED  BY <1>0, <2>10, <3>1, <3>2 DEF Writer
  <2>12. Place' = place + 1
    BY <2>8, <2>11 DEF Place, StartsOver
  <2>13. RestFollows'
    <3>1. sink'.from + sink'.got = Len(part')
      BY <2>8, <2>10, <2>11
    <3>2. Place' + Len(resp'.rest) = Size
      <4>1. PICK n \in Nat : n = Len(resp.rest)
        BY <1>2
      <4>2. Len(resp'.rest) = n - 1 /\ place + n = Size
        BY <1>3, <1>5, <2>4, <2>7, <4>1
      <4> QED  BY <2>12, <4>2
    <3>3. \A k \in 1 .. Len(resp'.rest) : resp'.rest[k] = Place' + k
      <4>1. ASSUME NEW k \in 1 .. Len(left)
            PROVE  left[k] = place + 1 + k
        <5>1. k + 1 \in 1 .. Len(resp.rest) /\ left[k] = resp.rest[k + 1]
          BY <1>2, <1>3
        <5>2. resp.rest[k + 1] = place + (k + 1)
          BY <2>4, <2>7, <5>1
        <5> QED  BY <5>1, <5>2
      <4> QED  BY <1>5, <2>12, <4>1
    <3> QED  BY <1>0, <2>11, <3>1, <3>2, <3>3 DEF RestFollows
  <2>14. WireTyped'
    BY <1>0, <1>5, <2>11 DEF WireInv, WireTyped
  <2> QED  BY <1>7, <1>8, <2>9, <2>13, <2>14 DEF WireInv
<1>11. CASE ~Successful(resp)
  <2>1. sink' = [sink EXCEPT !.got = @ + 1] /\ UNCHANGED part
    BY <1>11 DEF ReceiveFile
  <2>2. sink' \in Writer
    <3>1. PICK got \in Nat : got = sink.got + 1
      BY <1>9
    <3>2. sink' = [sink EXCEPT !.got = got]
      BY <2>1, <3>1
    <3> QED  BY <1>0, <3>1, <3>2 DEF Writer
  <2>3. WireTyped' /\ PartIsPrefix'
    BY <1>0, <1>5, <2>1, <2>2 DEF WireInv, WireTyped, PartIsPrefix
  <2>4. RestFollows'
    BY <1>6, <1>11 DEF RestFollows
  <2> QED  BY <1>7, <1>8, <2>3, <2>4 DEF WireInv
<1> QED  BY <1>10, <1>11

(* The verdict, and the call's end.                                         *)
LEMMA SettlesKeep ==
    ASSUME WireInv, Settle \/ SettleFails \/ Returns
    PROVE  WireInv'
<1>0. /\ call \in Call /\ resp \in Answer /\ sink \in Writer /\ budget \in Clocks
      /\ breaks \in Nat /\ MaxBreaks \in Nat /\ breaks \in 0 .. MaxBreaks
      /\ part \in Seq(1 .. Size) /\ Len(part) \in 0 .. Size /\ Size \in Nat
      /\ dest \subseteq Seq(1 .. Size) /\ Verdict \in WireErrors \cup {"commit"}
  BY WireParts, WireFacts, VerdictIs DEF WireInv, WireTyped
<1>1. {"none", "write failed"} \subseteq WireErrors /\ "ended" \in Places
  BY DEF WireErrors, Places
<1>2. CASE Settle
  <2>1. PICK error \in WireErrors : error = IF Verdict = "commit" THEN "none" ELSE Verdict
    BY <1>0, <1>1
  <2>2. call' = [call EXCEPT !.at = "ended", !.error = error] /\ call.at = "settle"
        /\ UNCHANGED <<upload, resp, sink, budget, network, breaks>>
        /\ dest' \in {{part}, dest} /\ part' \in {<<>>, part}
    BY <1>2, <2>1 DEF Settle
  <2>3. /\ call' \in Call /\ call'.at = "ended" /\ call'.kind = call.kind
        /\ call'.url = call.url /\ call'.auth = call.auth
    BY <1>0, <1>1, <2>2 DEF Call
  <2>4. PartIsPrefix'
    <3>1. CASE part' = <<>>
      BY <1>0, <3>1 DEF PartIsPrefix
    <3>2. CASE part' = part
      BY <3>2 DEF WireInv, PartIsPrefix
    <3> QED  BY <2>2, <3>1, <3>2
  <2>5. WireTyped' /\ TokenStaysHome'
    BY <1>0, <2>2, <2>3 DEF WireInv, WireTyped, TokenStaysHome
  <2>6. AskedIsLacking' /\ HeadIsTrue' /\ RestFollows' /\ BufferFits' /\ AnswerFitsHeap'
    BY <2>2, <2>3
    DEF WireInv, AskedIsLacking, HeadIsTrue, RestFollows, Reading, Downloading, BufferFits, AnswerFitsHeap
  <2> QED  BY <2>4, <2>5, <2>6 DEF WireInv
<1>3. CASE SettleFails
  <2>2. call' = [call EXCEPT !.at = "ended", !.error = "write failed"] /\ call.at = "settle"
        /\ UNCHANGED <<part, dest, upload, resp, sink, budget, network>> /\ breaks' \in 0 .. MaxBreaks
    BY <1>0, <1>3 DEF SettleFails
  <2>3. /\ call' \in Call /\ call'.at = "ended" /\ call'.kind = call.kind
        /\ call'.url = call.url /\ call'.auth = call.auth
    BY <1>0, <1>1, <2>2 DEF Call
  <2>5. WireTyped' /\ TokenStaysHome' /\ PartIsPrefix'
    BY <1>0, <2>2, <2>3 DEF WireInv, WireTyped, TokenStaysHome, PartIsPrefix
  <2>6. AskedIsLacking' /\ HeadIsTrue' /\ RestFollows' /\ BufferFits' /\ AnswerFitsHeap'
    BY <2>2, <2>3
    DEF WireInv, AskedIsLacking, HeadIsTrue, RestFollows, Reading, Downloading, BufferFits, AnswerFitsHeap
  <2> QED  BY <2>5, <2>6 DEF WireInv
<1>4. CASE Returns
  <2>1. /\ call' = Nothing /\ sink' = NoSink /\ resp' = WireSilence /\ budget' = [spent |-> 0, quiet |-> 0]
        /\ UNCHANGED <<part, dest, upload, network, breaks>>
    BY <1>4 DEF Returns
  <2>2. WireTyped' /\ PartIsPrefix'
    BY <2>1, WireFacts DEF WireInv, WireTyped, PartIsPrefix
  <2>3. call'.kind = "none" /\ call'.at = "idle" /\ call'.url = Home
    BY <2>1 DEF Nothing
  <2>4. AskedIsLacking' /\ HeadIsTrue' /\ RestFollows' /\ BufferFits' /\ AnswerFitsHeap' /\ TokenStaysHome'
    BY <2>3
    DEF AskedIsLacking, HeadIsTrue, RestFollows, Reading, Downloading, BufferFits, AnswerFitsHeap, TokenStaysHome
  <2> QED  BY <2>2, <2>4 DEF WireInv
<1> QED  BY <1>2, <1>3, <1>4

(* A call in flight, or none: every step of the wire keeps it.              *)
LEMMA WireBegins ==
    ASSUME WireInit
    PROVE  WireInv
<1>0. Size \in Nat \ {0} /\ 0 \in 0 .. Size
  BY WireFacts
<1>1. PICK n \in 0 .. Size : part = SubSeq(Resource(0), 1, n)
  BY DEF WireInit
<1>2. /\ Resource(0) \in Seq(Nat) /\ Len(Resource(0)) = Size
      /\ \A k \in 1 .. Size : Resource(0)[k] = k
  <2>1. Size - 0 = Size /\ \A k \in 1 .. Size : 0 + k = k
    BY <1>0
  <2>2. /\ Resource(0) \in Seq(Nat) /\ Len(Resource(0)) = Size - 0
        /\ \A k \in 1 .. Size - 0 : Resource(0)[k] = 0 + k
    BY <1>0, ResourceIs
  <2> QED  BY <2>1, <2>2
<1>3. /\ part = [k \in 1 .. n |-> Resource(0)[k]]
  <2>1. SubSeq(Resource(0), 1, n) = [k \in 1 .. (1 + n - 1) |-> Resource(0)[1 + k - 1]]
    BY <1>1, <1>2
  <2>2. 1 + n - 1 = n /\ \A k \in 1 .. n : 1 + k - 1 = k
    BY <1>1
  <2> QED  BY <1>1, <2>1, <2>2
<1>4. part \in Seq(1 .. Size) /\ Len(part) = n
  <2>1. \A k \in 1 .. n : Resource(0)[k] \in 1 .. Size
    BY <1>0, <1>2
  <2> QED  BY <1>0, <1>3, <2>1, IsASeq
<1>5. PartIsPrefix
  BY <1>0, <1>2, <1>3, <1>4 DEF PartIsPrefix
<1>6. WireTyped
  BY WireFacts DEF WireInit, WireTyped
<1>7. call.kind = "none" /\ call.at = "idle" /\ call.url = Home
  BY DEF WireInit, Nothing
<1> QED
  BY <1>5, <1>6, <1>7
  DEF WireInv, AskedIsLacking, HeadIsTrue, RestFollows, Reading, Downloading, BufferFits, AnswerFitsHeap, TokenStaysHome

LEMMA WireSteps ==
    ASSUME WireInv, [WireNext]_wireVars
    PROVE  WireInv'
<1>1. CASE UNCHANGED wireVars
  <2>1. UNCHANGED <<part, dest, upload, call, resp, sink, budget, network, breaks>>
    BY <1>1 DEF wireVars
  <2>2. WireTyped' /\ PartIsPrefix' /\ AskedIsLacking' /\ HeadIsTrue' /\ TokenStaysHome'
    BY <2>1
    DEF WireInv, WireTyped, PartIsPrefix, AskedIsLacking, HeadIsTrue, Reading, Downloading, TokenStaysHome, Successful
  <2>3. Place' = Place /\ Framing(resp') = Framing(resp) /\ Undeclared(resp') = Undeclared(resp)
    BY <2>1 DEF Place, StartsOver
  <2>4. RestFollows'
    BY <2>1, <2>3 DEF WireInv, RestFollows, Reading, Downloading
  <2>5. BufferFits' /\ AnswerFitsHeap'
    BY <2>1, <2>3 DEF WireInv, BufferFits, AnswerFitsHeap
  <2> QED  BY <2>2, <2>4, <2>5 DEF WireInv
<1>2. CASE AsksFor
  BY <1>2, AsksForKeeps
<1>3. CASE Hop
  <2>1. CASE \E r \in Answers : FinalHead(r)
    BY <2>1, FinalHeadKeeps
  <2>2. CASE ReceiveBuffer
    BY <2>2, ReceiveBufferKeeps
  <2>3. CASE ReceiveFile
    BY <2>3, ReceiveFileKeeps
  <2>4. CASE \/ Connects \/ SentAll \/ Interim
             \/ \E status \in Redirects, to \in Urls : Redirect(status, to)
    BY <2>4, BeforeBodyKeeps
  <2>5. CASE OpenFails \/ SendBlock \/ ReceiveFails \/ BodyEnds \/ Slice \/ \E clean \in BOOLEAN : ConnectionLost(clean)
    BY <2>5, EndsKeep
  <2> QED  BY <1>3, <2>1, <2>2, <2>3, <2>4, <2>5, Zenon DEF Hop
<1>4. CASE Tick \/ WifiFlips \/ SaveChanges
  BY <1>4, BeforeBodyKeeps
<1>5. CASE Settle \/ SettleFails \/ Returns
  BY <1>5, SettlesKeep
<1> QED  BY <1>1, <1>2, <1>3, <1>4, <1>5, Zenon DEF WireNext

(* It needs no fairness: a call that never ends keeps it too.               *)
LEMMA WireKeeps == WireInit /\ [][WireNext]_wireVars => []WireInv
<1> QED  BY WireBegins, WireSteps, PTL

(* The invariant of a call: what its staging file holds, what is on its way *)
(* and what its buffer may still take.                                      *)
THEOREM WireInvariance == WireSpec => []WireInv
<1> QED  BY WireKeeps, PTL DEF WireSpec

(* The parts of a call and of the staging file are what the code's types    *)
(* allow: http.hpp's Request and Response, tls_client.cpp's BodyWriter.     *)
THEOREM WireTypeCorrect == WireSpec => []WireTypeOK
<1>1. ASSUME WireInv PROVE WireTypeOK
  BY <1>1 DEF WireInv, WireTyped, PartIsPrefix, WireTypeOK, Call, Answer, Clocks, Places, Hops, Ranges
<1> QED  BY <1>1, WireInvariance, PTL

(* No redirect, however many there are, takes the bearer token to an origin *)
(* it was not given for.                                                    *)
THEOREM TheTokenStaysHome == WireSpec => []TokenStaysHome
<1>1. WireInv => TokenStaysHome
  BY DEF WireInv
<1> QED  BY <1>1, WireInvariance, PTL

(* A response in memory is never more than the heap table counts it at.     *)
THEOREM AnAnswerFitsTheHeap == WireSpec => []AnswerFitsHeap
<1>1. WireInv => AnswerFitsHeap
  BY DEF WireInv
<1> QED  BY <1>1, WireInvariance, PTL

(* A download is put in place only whole, whatever the scheduling.          *)
LEMMA WholeFilesLand == WireInit /\ [][WireNext]_wireVars => OnlyWholeFiles
<1>1. ASSUME WireInv, WireNext, dest' # dest, Expected # 0 \/ call.resuming \/ Framing(resp) # "until close"
      PROVE  dest' = {Resource(0)}
  <2>0. /\ call \in Call /\ resp \in Answer /\ sink \in Writer
        /\ part \in Seq(1 .. Size) /\ Len(part) \in 0 .. Size /\ Size \in Nat \ {0}
    BY <1>1, WireParts, WireFacts
  <2>1. Settle /\ Verdict = "commit" /\ dest' = {part} /\ call.at = "settle"
    BY <1>1, Zenon
    DEF WireNext, AsksFor, Hop, SendRequest, Download, DownloadRefused, Connects, OpenFails, SendBlock, SentAll,
        Interim, Redirect, FinalHead, ReceiveBuffer, ReceiveFile, ReceiveFails, BodyEnds, ConnectionLost, Slice,
        CallFinishes, Tick, Settle, SettleFails, Returns, WifiFlips, SaveChanges
  <2>2. /\ call.error = "none" /\ resp.status \in {200, 206} /\ ~(call.resuming /\ Expected = 0)
        /\ (Expected # 0 => Written = Expected)
    BY <2>0, <2>1, VerdictIs
  <2>3. Reading /\ Successful(resp)
    <3>1. Reading
      BY <1>1, <2>1, <2>2 DEF Reading, Downloading, WireInv, AskedIsLacking
    <3>2. resp.status = 200 \/ resp.status = 206
      BY <2>2
    <3> QED  BY <3>1, <3>2 DEF Successful
  <2>4. /\ sink.from + sink.got = Len(part) /\ (sink.staged => sink.got = 0 /\ call.resuming)
        /\ Place + Len(resp.rest) = Size
        /\ resp.rest = <<>> \/ Framing(resp) = "until close"
    BY <1>1, <2>1, <2>3 DEF WireInv, RestFollows
  <2>5. \/ resp.status = 200 /\ resp.range = 0 /\ resp.cl \in {-1, 0, Size}
        \/ resp.status = 206 /\ resp.range = Size
    BY <1>1, <2>2, <2>3 DEF WireInv, HeadIsTrue
  <2>6. call.known \in {0, Size}
    BY <2>0 DEF Call, KnownSizes
  <2>7. Len(part) = Size
    <3>1. CASE Expected # 0
      <4>1. Expected = Size
        BY <2>0, <2>5, <2>6, <3>1 DEF Expected, DeclaredSize
      <4>2. Written = Size /\ Size # 0
        BY <2>0, <2>2, <3>1, <4>1
      <4>3. sink.staged => Written = 0
        <5>1. ASSUME sink.staged PROVE Written = 0 + sink.got /\ sink.got = 0
          BY <2>4, <5>1 DEF Written
        <5> QED  BY <5>1
      <4>4. ~sink.staged
        BY <4>2, <4>3
      <4> QED  BY <2>4, <4>2, <4>4 DEF Written
    <3>2. CASE Expected = 0
      <4>1. ~call.resuming
        BY <2>2, <3>2
      <4>2. resp.rest = <<>> /\ ~sink.staged
        BY <1>1, <2>4, <3>2, <4>1
      <4>3. Place = Len(part) /\ Len(resp.rest) = 0
        BY <4>2 DEF Place, StartsOver
      <4>4. Len(part) + 0 = Size
        BY <2>4, <4>3
      <4> QED  BY <2>0, <4>4
    <3> QED  BY <3>1, <3>2
  <2>8. part = Resource(0)
    <3>1. /\ Resource(0) \in Seq(Nat) /\ Len(Resource(0)) = Size
          /\ \A k \in 1 .. Size : Resource(0)[k] = k
      <4>1. 0 \in 0 .. Size /\ Size - 0 = Size /\ \A k \in 1 .. Size : 0 + k = k
        BY <2>0
      <4>2. /\ Resource(0) \in Seq(Nat) /\ Len(Resource(0)) = Size - 0
            /\ \A k \in 1 .. Size - 0 : Resource(0)[k] = 0 + k
        BY <4>1, ResourceIs
      <4> QED  BY <4>1, <4>2
    <3>2. \A k \in 1 .. Size : part[k] = k
      BY <1>1, <2>7 DEF WireInv, PartIsPrefix
    <3>3. part \in Seq(Nat)
      <4>1. 1 .. Size \subseteq Nat
        BY <2>0
      <4> QED  BY <2>0, <4>1
    <3> QED  BY <2>7, <3>1, <3>2, <3>3
  <2> QED  BY <2>1, <2>8
<1>2. ASSUME WireInv, [WireNext]_wireVars
      PROVE  [dest' # dest /\ (Expected # 0 \/ call.resuming \/ Framing(resp) # "until close")
                => dest' = {Resource(0)}]_wireVars
  BY <1>1, <1>2
<1> QED  BY <1>2, WireBegins, WireSteps, PTL DEF OnlyWholeFiles

(* What a download puts at its destination is the whole resource, wherever  *)
(* anything said how much that is: a resumed one, one whose server ignored  *)
(* the range, one that was cut short at any block and asked again.          *)
THEOREM OnlyWholeFilesLand == WireSpec => OnlyWholeFiles
  BY WholeFilesLand, PTL DEF WireSpec

-----------------------------------------------------------------------------
(* A tick in its plans.                                                     *)

RomSets == SUBSET LibraryRoms
Stages == {"idle", "next", "ask", "run", "finish", "end"}
Early == {"disabled", "canceled", "rescan_needed", "unsupported"}
Landed == {"completed", "partial", "unreported"}
Outcomes == Landed \cup Early \cup {"offline", "refused", "server_disabled", "unauthorized"}
Words == {"silent", "accepted", "rejected", "forbidden"}
Chunks == [roms : RomSets, carries : RomSets, restore : BOOLEAN]
Runs == [canceled : BOOLEAN, refused : {"none", "unauthorized", "forbidden"}, failed : RomSets,
         again : RomSets, reached : RomSets, last : Words]
Round == [at : Stages, scoped : BOOLEAN, scope : RomSets, pending : Seq(Chunks), chunk : Chunks,
          tries : Nat, run : Runs, plans : Nat, asks : Nat, outcome : Outcomes, answer : Words,
          unasked : RomSets, oversized : RomSets, held : BOOLEAN, again : RomSets, met : RomSets,
          restoring : RomSets, planned : RomSets, word : Words, unstored : BOOLEAN,
          unreported : BOOLEAN, unreached : RomSets, failures : BOOLEAN]

TickTyped ==
    /\ weight \in [LibraryRoms -> Nat]
    /\ present \in RomSets /\ saved \in RomSets /\ fresh \in RomSets /\ said \in RomSets
    /\ Cardinality(fresh) <= kMaxNegotiateRomIds /\ Cardinality(said) <= kMaxDeclines
    /\ round \in Round /\ cancel \in BOOLEAN /\ playing \in BOOLEAN
    /\ ticked \in 0 .. MaxTicks /\ turns \in 0 .. MaxTurns

\* Chunks of one scope: no rom in two of them, every save with its rom.
Apart(chunks) == \A i, j \in DOMAIN chunks : i # j => chunks[i].roms \cap chunks[j].roms = {}
Carrying(chunks) == \A i \in DOMAIN chunks : chunks[i].carries = saved \cap chunks[i].roms

\* What is asked for again is on the card, so the scope names it; what is over
\* has nothing ahead.
FreshIsInScope ==
    /\ fresh \subseteq present
    /\ Busy \/ Over => round.restoring \subseteq round.scope
    /\ ~Busy \/ round.at = "end" => round.pending = <<>>

\* A rom of the scope is planned, set aside, or still ahead, and one of the three.
ScopeIsParted ==
    round.scoped /\ (Busy \/ Over) =>
        /\ round.scope \subseteq round.planned \cup round.unasked \cup Ahead
        /\ round.planned \cap round.unasked = {}
        /\ (round.planned \cup round.unasked) \cap Ahead = {}
        /\ Apart(round.pending) /\ Carrying(round.pending)
        /\ round.at = "ask" =>
             /\ round.chunk.roms \cap RomsIn(round.pending) = {}
             /\ round.chunk.carries = saved \cap round.chunk.roms

\* A negotiation without a scope plans for the whole library.
WholeIsPlanned ==
    ~round.scoped /\ (round.plans > 0 \/ round.at \in {"run", "finish"}) => round.planned = LibraryRoms

\* What the flags of a tick say of the outcome its plans have so far.
OutcomeFollows ==
    /\ round.at \in {"next", "ask", "run", "finish"} =>
         /\ round.outcome \in Landed
         /\ round.plans = 0 => round.outcome = "completed" /\ ~round.unstored /\ ~round.unreported
         /\ round.unasked \subseteq round.oversized
         /\ round.outcome = "completed" =>
              /\ ~round.unstored /\ ~round.unreported
              /\ round.failures => round.at = "finish" /\ round.run.failed # {}
    /\ round.at = "end" /\ round.plans > 0 /\ round.outcome = "completed" =>
         round.unasked \subseteq round.oversized /\ ~round.unstored /\ ~round.unreported /\ ~round.failures
    /\ round.at = "idle" /\ round.plans > 0 /\ round.outcome = "completed" =>
         round.unasked = {} /\ ~round.unstored /\ ~round.unreported /\ ~round.failures
    /\ round.outcome = "unreported" => round.unreported /\ (round.plans = 1 => ~round.unstored)
    /\ round.outcome \in {"offline", "refused", "server_disabled"} => round.plans = 0

\* What the gate will be told, and the last word on the token so far.
WordFollows ==
    /\ round.at \in {"next", "ask", "run"} => round.answer = IF round.plans = 0 THEN "silent" ELSE "accepted"
    /\ round.at \in {"next", "ask"} => round.word = round.answer
    /\ round.at = "run" => round.word = "accepted"
    /\ round.at = "finish" =>
         /\ round.answer \in {"silent", "accepted"}
         /\ IF round.run.refused = "none"
            THEN round.word = "accepted" /\ round.run.last \in {"silent", "accepted"}
            ELSE round.word = AnswerOf(round.run.refused) /\ round.run.last = round.word
    /\ round.at \in {"end", "idle"} =>
         /\ round.answer = round.word \/ {round.answer, round.word} \subseteq {"silent", "accepted"}
         /\ round.plans > 0 => round.answer # "silent"

TickInv == TickTyped /\ FreshIsInScope /\ ScopeIsParted /\ WholeIsPlanned /\ OutcomeFollows /\ WordFollows

LEMMA TickFacts ==
    /\ LibraryRoms \subseteq Nat \ {0} /\ IsFiniteSet(LibraryRoms)
    /\ kMaxNegotiateRomIds \in Nat \ {0} /\ kMaxPlanOperations \in Nat \ {0} /\ max_attempts \in Nat \ {0}
    /\ kMaxDeclines \in Nat /\ MaxTicks \in Nat /\ MaxTurns \in Nat
    /\ \A roms \in RomSets : IsFiniteSet(roms) /\ Cardinality(roms) \in Nat
<1>1. /\ LibraryRoms \subseteq Nat \ {0} /\ IsFiniteSet(LibraryRoms)
      /\ kMaxNegotiateRomIds \in Nat \ {0} /\ kMaxPlanOperations \in Nat \ {0} /\ max_attempts \in Nat \ {0}
      /\ kMaxDeclines \in Nat /\ MaxTicks \in Nat /\ MaxTurns \in Nat
  BY TickBounds
<1>2. ASSUME NEW roms \in RomSets PROVE IsFiniteSet(roms) /\ Cardinality(roms) \in Nat
  <2>1. IsFiniteSet(roms)
    BY <1>1, FS_Subset DEF RomSets
  <2> QED  BY <2>1, FS_CardinalityType
<1> QED  BY <1>1, <1>2

(* A place among n things is in one of the chunks of k that n is cut into.  *)
LEMMA CutsFit ==
    ASSUME NEW n \in Nat, NEW k \in Nat \ {0}, NEW b \in 0 .. n - 1
    PROVE  b \div k + 1 \in 1 .. ((n + k - 1) \div k)
<1>1. PICK q \in Nat : q = b \div k /\ q * k <= b /\ b < q * k + k
  OBVIOUS
<1>2. PICK p \in Nat : p = (n + k - 1) \div k /\ p * k <= n + k - 1 /\ n + k - 1 < p * k + k
  OBVIOUS
<1>3. q * k < p * k
  BY <1>1, <1>2
<1>4. q < p
  <2>1. ASSUME p <= q PROVE p * k <= q * k
    BY <1>1, <1>2, <2>1
  <2> QED  BY <1>1, <1>2, <1>3, <2>1
<1> QED  BY <1>1, <1>2, <1>4

(* The roms of chunks put in a row, or taken from one.                      *)
LEMMA RowOfChunks ==
    ASSUME NEW a \in Seq(Chunks), NEW b \in Seq(Chunks)
    PROVE  /\ a \o b \in Seq(Chunks) /\ RomsIn(a \o b) = RomsIn(a) \cup RomsIn(b)
           /\ RomsIn(a) \in RomSets
           /\ Apart(a) /\ Apart(b) /\ RomsIn(a) \cap RomsIn(b) = {} => Apart(a \o b)
           /\ Carrying(a) /\ Carrying(b) => Carrying(a \o b)
<1>1. PICK m \in Nat, n \in Nat : m = Len(a) /\ n = Len(b)
  OBVIOUS
<1>2. PICK c \in Seq(Chunks) : c = a \o b /\ Len(c) = m + n
  <2>1. a \o b \in Seq(Chunks) /\ Len(a \o b) = Len(a) + Len(b)
    BY ConcatProperties
  <2> QED  BY <1>1, <2>1
<1>3. \A i \in 1 .. m + n : c[i] = IF i <= m THEN a[i] ELSE b[i - m]
  BY <1>1, <1>2
<1>4. DOMAIN a = 1 .. m /\ DOMAIN b = 1 .. n /\ DOMAIN c = 1 .. m + n
  BY <1>1, <1>2
<1>5. ASSUME NEW i \in 1 .. m + n
      PROVE  \/ i \in 1 .. m /\ c[i] = a[i]
             \/ i - m \in 1 .. n /\ c[i] = b[i - m]
  BY <1>3
<1>6. \A i \in 1 .. m : i \in 1 .. m + n /\ c[i] = a[i]
  <2>1. ASSUME NEW i \in 1 .. m PROVE i \in 1 .. m + n /\ i <= m
    OBVIOUS
  <2> QED  BY <1>3, <2>1
<1>7. \A i \in 1 .. n : i + m \in 1 .. m + n /\ c[i + m] = b[i]
  <2>1. ASSUME NEW i \in 1 .. n PROVE i + m \in 1 .. m + n /\ ~(i + m <= m) /\ (i + m) - m = i
    OBVIOUS
  <2> QED  BY <1>3, <2>1
<1>8. ASSUME NEW x PROVE x \in RomsIn(c) <=> x \in RomsIn(a) \/ x \in RomsIn(b)
  <2>1. ASSUME x \in RomsIn(c) PROVE x \in RomsIn(a) \/ x \in RomsIn(b)
    <3>1. PICK i \in 1 .. m + n : x \in c[i].roms
      BY <1>4, <2>1 DEF RomsIn
    <3> QED  BY <1>4, <1>5, <3>1 DEF RomsIn
  <2>2. ASSUME x \in RomsIn(a) PROVE x \in RomsIn(c)
    BY <1>4, <1>6, <2>2 DEF RomsIn
  <2>3. ASSUME x \in RomsIn(b) PROVE x \in RomsIn(c)
    BY <1>4, <1>7, <2>3 DEF RomsIn
  <2> QED  BY <2>1, <2>2, <2>3
<1>9. RomsIn(a) \in RomSets
  <2>1. \A i \in 1 .. m : a[i].roms \subseteq LibraryRoms
    <3>1. \A i \in 1 .. m : a[i] \in Chunks
      BY <1>1, ElementOfSeq
    <3> QED  BY <3>1 DEF Chunks, RomSets
  <2> QED  BY <1>4, <2>1 DEF RomsIn, RomSets
<1>10. ASSUME Apart(a), Apart(b), RomsIn(a) \cap RomsIn(b) = {} PROVE Apart(c)
  <2>1. SUFFICES ASSUME NEW i \in 1 .. m + n, NEW j \in 1 .. m + n, i # j PROVE c[i].roms \cap c[j].roms = {}
    BY <1>4 DEF Apart
  <2>2. CASE i \in 1 .. m /\ c[i] = a[i] /\ j \in 1 .. m /\ c[j] = a[j]
    BY <1>4, <1>10, <2>1, <2>2 DEF Apart
  <2>3. CASE i - m \in 1 .. n /\ c[i] = b[i - m] /\ j - m \in 1 .. n /\ c[j] = b[j - m]
    <3>1. i - m # j - m
      BY <1>1, <2>1
    <3>2. b[i - m].roms \cap b[j - m].roms = {}
      BY <1>4, <1>10, <2>3, <3>1, Zenon DEF Apart
    <3> QED  BY <2>3, <3>2, Zenon
  <2>4. ASSUME NEW s \in 1 .. m, NEW t \in 1 .. n PROVE a[s].roms \cap b[t].roms = {}
    BY <1>4, <1>10 DEF RomsIn
  <2>5. CASE i \in 1 .. m /\ c[i] = a[i] /\ j - m \in 1 .. n /\ c[j] = b[j - m]
    BY <2>4, <2>5
  <2>6. CASE i - m \in 1 .. n /\ c[i] = b[i - m] /\ j \in 1 .. m /\ c[j] = a[j]
    BY <2>4, <2>6
  <2> QED  BY <1>5, <2>2, <2>3, <2>5, <2>6
<1>11. ASSUME Carrying(a), Carrying(b) PROVE Carrying(c)
  BY <1>4, <1>5, <1>11 DEF Carrying
<1> QED  BY <1>2, <1>8, <1>9, <1>10, <1>11

(* The first chunk of a row, and the rest.                                  *)
LEMMA RestOfChunks ==
    ASSUME NEW a \in Seq(Chunks), a # <<>>
    PROVE  /\ Head(a) \in Chunks /\ Tail(a) \in Seq(Chunks)
           /\ RomsIn(a) = Head(a).roms \cup RomsIn(Tail(a))
           /\ Apart(a) => Apart(Tail(a)) /\ Head(a).roms \cap RomsIn(Tail(a)) = {}
           /\ Carrying(a) => Carrying(Tail(a)) /\ Head(a).carries = saved \cap Head(a).roms
<1>1. PICK n \in Nat : n + 1 = Len(a)
  <2>1. Len(a) \in Nat /\ Len(a) # 0
    OBVIOUS
  <2>2. Len(a) - 1 \in Nat /\ (Len(a) - 1) + 1 = Len(a)
    BY <2>1
  <2> QED  BY <2>2
<1>2. Head(a) = a[1] /\ Head(a) \in Chunks
  OBVIOUS
<1>3. PICK t \in Seq(Chunks) : t = Tail(a)
  BY HeadTailProperties
<1>4. Len(t) = n /\ \A i \in 1 .. n : t[i] = a[i + 1]
  BY <1>1, <1>3
<1>5. DOMAIN a = 1 .. n + 1 /\ DOMAIN t = 1 .. n
  BY <1>1, <1>4
<1>6. \A i \in 1 .. n : i + 1 \in 1 .. n + 1 /\ i + 1 # 1
  OBVIOUS
<1>7. ASSUME NEW i \in 1 .. n + 1 PROVE i = 1 \/ (i - 1 \in 1 .. n /\ t[i - 1] = a[i])
  <2>1. i # 1 => i - 1 \in 1 .. n /\ (i - 1) + 1 = i
    OBVIOUS
  <2> QED  BY <1>4, <2>1
<1>8. ASSUME NEW x PROVE x \in RomsIn(a) <=> x \in a[1].roms \/ x \in RomsIn(t)
  <2>1. ASSUME x \in RomsIn(a) PROVE x \in a[1].roms \/ x \in RomsIn(t)
    <3>1. PICK i \in 1 .. n + 1 : x \in a[i].roms
      BY <1>5, <2>1 DEF RomsIn
    <3> QED  BY <1>5, <1>7, <3>1 DEF RomsIn
  <2>2. ASSUME x \in RomsIn(t) PROVE x \in RomsIn(a)
    BY <1>4, <1>5, <1>6, <2>2 DEF RomsIn
  <2>3. 1 \in 1 .. n + 1
    OBVIOUS
  <2>4. ASSUME x \in a[1].roms PROVE x \in RomsIn(a)
    BY <1>5, <2>3, <2>4 DEF RomsIn
  <2> QED  BY <2>1, <2>2, <2>4
<1>9. ASSUME Apart(a) PROVE Apart(t) /\ a[1].roms \cap RomsIn(t) = {}
  <2>1. 1 \in 1 .. n + 1
    OBVIOUS
  <2>2. \A i \in 1 .. n : a[1].roms \cap t[i].roms = {}
    BY <1>4, <1>5, <1>6, <1>9, <2>1 DEF Apart
  <2>3. ASSUME NEW i \in 1 .. n, NEW j \in 1 .. n, i # j PROVE t[i].roms \cap t[j].roms = {}
    <3>1. i + 1 # j + 1
      BY <2>3
    <3> QED  BY <1>4, <1>5, <1>6, <1>9, <3>1 DEF Apart
  <2> QED  BY <1>5, <2>2, <2>3 DEF Apart, RomsIn
<1>10. ASSUME Carrying(a) PROVE Carrying(t) /\ a[1].carries = saved \cap a[1].roms
  <2>1. 1 \in 1 .. n + 1
    OBVIOUS
  <2> QED  BY <1>4, <1>5, <1>6, <1>10, <2>1 DEF Carrying
<1> QED  BY <1>2, <1>3, <1>8, <1>9, <1>10

(* A rom's place among the roms of a scope.                                 *)
LEMMA PlaceAmong ==
    ASSUME NEW roms \in RomSets, NEW rom \in roms
    PROVE  Below(roms, rom) \in 0 .. Cardinality(roms) - 1
<1>1. IsFiniteSet(roms) /\ Cardinality(roms) \in Nat
  BY TickFacts
<1>2. PICK others : others = roms \ {rom}
  OBVIOUS
<1>3. IsFiniteSet(others) /\ Cardinality(others) = Cardinality(roms) - 1
  BY <1>1, <1>2, FS_RemoveElement
<1>4. PICK lower : lower = {r \in roms : r < rom}
  OBVIOUS
<1>5. lower \subseteq others
  <2>1. roms \subseteq Nat
    BY TickFacts DEF RomSets
  <2> QED  BY <1>2, <1>4, <2>1
<1>6. IsFiniteSet(lower) /\ Cardinality(lower) <= Cardinality(others)
  BY <1>3, <1>5, FS_Subset
<1>7. Cardinality(lower) \in Nat
  BY <1>6, FS_CardinalityType
<1> QED  BY <1>1, <1>3, <1>4, <1>6, <1>7 DEF Below

(* A scope cut into chunks names each of its roms in one of them.           *)
LEMMA AppendIs ==
    ASSUME NEW ids \in RomSets, saved \in RomSets, NEW restore \in BOOLEAN
    PROVE  /\ AppendChunks(ids, saved, restore) \in Seq(Chunks)
           /\ RomsIn(AppendChunks(ids, saved, restore)) = ids
           /\ Apart(AppendChunks(ids, saved, restore))
           /\ Carrying(AppendChunks(ids, saved, restore))
<1>1. PICK n \in Nat, k \in Nat \ {0} : n = Cardinality(ids) /\ k = kMaxNegotiateRomIds
  BY TickFacts
<1>2. PICK count \in Nat : count = (n + k - 1) \div k
  OBVIOUS
<1>3. PICK chunks : chunks = AppendChunks(ids, saved, restore)
  OBVIOUS
<1>4. chunks = [i \in 1 .. count |->
                  Chunk({r \in ids : Below(ids, r) \div k = i - 1},
                        saved \cap {r \in ids : Below(ids, r) \div k = i - 1}, restore)]
  BY <1>1, <1>2, <1>3 DEF AppendChunks
<1>5. ASSUME NEW i \in 1 .. count
      PROVE  /\ chunks[i] \in Chunks /\ chunks[i].roms = {r \in ids : Below(ids, r) \div k = i - 1}
             /\ chunks[i].carries = saved \cap chunks[i].roms
  <2>1. PICK some \in RomSets : some = {r \in ids : Below(ids, r) \div k = i - 1}
    BY DEF RomSets
  <2>2. chunks[i] = [roms |-> some, carries |-> saved \cap some, restore |-> restore]
    BY <1>4, <2>1 DEF Chunk
  <2>3. saved \cap some \in RomSets
    BY <2>1 DEF RomSets
  <2> QED  BY <2>1, <2>2, <2>3 DEF Chunks
<1>6. chunks \in Seq(Chunks) /\ DOMAIN chunks = 1 .. count
  <2>1. PICK held : held = [i \in 1 .. count |-> chunks[i]]
    OBVIOUS
  <2>2. held = chunks
    BY <1>4, <2>1
  <2>3. held \in Seq(Chunks)
    BY <1>5, <2>1, IsASeq
  <2> QED  BY <1>4, <2>2, <2>3
<1>7. ASSUME NEW r \in ids PROVE \E i \in 1 .. count : Below(ids, r) \div k = i - 1
  <2>1. PICK b \in 0 .. n - 1 : b = Below(ids, r)
    BY <1>1, PlaceAmong
  <2>2. PICK i \in 1 .. count : i = b \div k + 1
    BY <1>1, <1>2, <2>1, CutsFit
  <2>3. b \div k \in Int
    BY <1>1, <2>1
  <2>4. b \div k = i - 1
    BY <2>2, <2>3
  <2> QED  BY <2>1, <2>4
<1>8. RomsIn(chunks) = ids
  <2>1. ASSUME NEW r PROVE r \in RomsIn(chunks) <=> \E i \in 1 .. count : r \in chunks[i].roms
    BY <1>6 DEF RomsIn
  <2>2. ASSUME NEW r \in ids PROVE r \in RomsIn(chunks)
    <3>1. PICK i \in 1 .. count : Below(ids, r) \div k = i - 1
      BY <1>7, <2>2
    <3>2. r \in chunks[i].roms
      BY <1>5, <2>2, <3>1
    <3> QED  BY <2>1, <3>2
  <2>3. ASSUME NEW r \in RomsIn(chunks) PROVE r \in ids
    <3>1. PICK i \in 1 .. count : r \in chunks[i].roms
      BY <2>1, <2>3
    <3> QED  BY <1>5, <3>1
  <2> QED  BY <2>2, <2>3
<1>9. Apart(chunks)
  <2>1. SUFFICES ASSUME NEW i \in 1 .. count, NEW j \in 1 .. count, i # j,
                        NEW r \in chunks[i].roms, r \in chunks[j].roms
                 PROVE  FALSE
    BY <1>6 DEF Apart
  <2>2. Below(ids, r) \div k = i - 1 /\ Below(ids, r) \div k = j - 1
    BY <1>5, <2>1
  <2> QED  BY <2>1, <2>2
<1>10. Carrying(chunks)
  BY <1>5, <1>6 DEF Carrying
<1> QED  BY <1>3, <1>6, <1>8, <1>9, <1>10

(* One chunk by itself.                                                     *)
LEMMA OneChunk ==
    ASSUME NEW c \in Chunks
    PROVE  /\ <<c>> \in Seq(Chunks) /\ RomsIn(<<c>>) = c.roms /\ Apart(<<c>>)
           /\ c.carries = saved \cap c.roms => Carrying(<<c>>)
<1>1. <<c>> \in Seq(Chunks) /\ Len(<<c>>) = 1 /\ <<c>>[1] = c
  OBVIOUS
<1>2. PICK row \in Seq(Chunks) : row = <<c>> /\ Len(row) = 1 /\ row[1] = c
  BY <1>1, Zenon
<1>3. DOMAIN row = {1}
  BY <1>2
<1>4. RomsIn(row) = c.roms
  BY <1>2, <1>3 DEF RomsIn
<1>5. Apart(row) /\ (c.carries = saved \cap c.roms => Carrying(row))
  BY <1>2, <1>3 DEF Apart, Carrying
<1> QED  BY <1>2, <1>4, <1>5

(* The chunks a tick sets out with.                                         *)
LEMMA ScopeIs ==
    ASSUME present \in RomSets, saved \in RomSets, NEW restoring \in RomSets
    PROVE  /\ ChunkScope(saved, present, restoring) \in Seq(Chunks)
           /\ RomsIn(ChunkScope(saved, present, restoring)) = present \cup saved \cup restoring
           /\ Apart(ChunkScope(saved, present, restoring))
           /\ Carrying(ChunkScope(saved, present, restoring))
<1>1. PICK others \in RomSets : others = (present \cup saved) \ restoring
  BY DEF RomSets
<1>2. PICK first, last : /\ first = AppendChunks(others, saved, FALSE)
                         /\ last = AppendChunks(restoring, saved, TRUE)
  OBVIOUS
<1>3. /\ first \in Seq(Chunks) /\ RomsIn(first) = others /\ Apart(first) /\ Carrying(first)
      /\ last \in Seq(Chunks) /\ RomsIn(last) = restoring /\ Apart(last) /\ Carrying(last)
  BY <1>2, AppendIs
<1>4. PICK row : row = first \o last
  OBVIOUS
<1>5. /\ row \in Seq(Chunks) /\ RomsIn(row) = present \cup saved \cup restoring /\ Apart(row) /\ Carrying(row)
  <2>1. RomsIn(first) \cap RomsIn(last) = {} /\ others \cup restoring = present \cup saved \cup restoring
    BY <1>1, <1>3
  <2> QED  BY <1>3, <1>4, <2>1, RowOfChunks
<1>6. ChunkScope(saved, present, restoring) = IF row = <<>> THEN <<Chunk({}, {}, FALSE)>> ELSE row
  BY <1>1, <1>2, <1>4 DEF ChunkScope
<1>7. CASE row = <<>>
  <2>1. PICK c \in Chunks : c = Chunk({}, {}, FALSE) /\ c.roms = {} /\ c.carries = {}
    <3>1. PICK none \in RomSets : none = {}
      BY DEF RomSets
    <3>2. PICK c : c = [roms |-> none, carries |-> none, restore |-> FALSE]
      OBVIOUS
    <3>3. c \in Chunks /\ c.roms = none /\ c.carries = none
      BY <3>1, <3>2 DEF Chunks
    <3> QED  BY <3>1, <3>2, <3>3 DEF Chunk
  <2>2. DOMAIN row = {}
    BY <1>7
  <2>3. RomsIn(row) = {}
    BY <2>2 DEF RomsIn
  <2>4. <<c>> \in Seq(Chunks) /\ RomsIn(<<c>>) = {} /\ Apart(<<c>>) /\ Carrying(<<c>>)
    BY <2>1, OneChunk
  <2>5. ChunkScope(saved, present, restoring) = <<c>>
    BY <1>6, <1>7, <2>1
  <2> QED  BY <1>5, <2>3, <2>4, <2>5
<1> QED  BY <1>5, <1>6, <1>7

(* A chunk halved.                                                          *)
LEMMA HalvesAre ==
    ASSUME NEW chunk \in Chunks, chunk.carries = saved \cap chunk.roms, saved \in RomSets
    PROVE  /\ Halve(chunk) \in Seq(Chunks) /\ RomsIn(Halve(chunk)) = chunk.roms
           /\ Apart(Halve(chunk)) /\ Carrying(Halve(chunk))
<1>1. chunk.roms \in RomSets /\ chunk.carries \in RomSets /\ chunk.restore \in BOOLEAN
  BY DEF Chunks
<1>2. PICK lower \in RomSets, upper \in RomSets :
        lower = LowerHalf(chunk.roms) /\ upper = chunk.roms \ LowerHalf(chunk.roms)
  BY <1>1 DEF LowerHalf, RomSets
<1>3. lower \cup upper = chunk.roms /\ lower \cap upper = {}
  BY <1>2 DEF LowerHalf
<1>4. PICK a, b : /\ a = Chunk(lower, chunk.carries \ upper, chunk.restore)
                  /\ b = Chunk(upper, chunk.carries \cap upper, chunk.restore)
  OBVIOUS
<1>5. /\ a \in Chunks /\ a.roms = lower /\ a.carries = saved \cap lower
      /\ b \in Chunks /\ b.roms = upper /\ b.carries = saved \cap upper
  <2>1. /\ chunk.carries \ upper = saved \cap lower /\ chunk.carries \cap upper = saved \cap upper
        /\ saved \cap lower \in RomSets /\ saved \cap upper \in RomSets
    BY <1>1, <1>3 DEF RomSets
  <2> QED  BY <1>1, <1>2, <1>4, <2>1 DEF Chunk, Chunks
<1>6. <<a, b>> \in Seq(Chunks) /\ Len(<<a, b>>) = 2 /\ <<a, b>>[1] = a /\ <<a, b>>[2] = b
  BY <1>5
<1>7. PICK row \in Seq(Chunks) : row = <<a, b>> /\ Len(row) = 2 /\ row[1] = a /\ row[2] = b
  BY <1>6, Zenon
<1>8. DOMAIN row = {1, 2} /\ Halve(chunk) = row
  BY <1>2, <1>4, <1>7 DEF Halve
<1>9. RomsIn(row) = lower \cup upper
  BY <1>5, <1>7, <1>8 DEF RomsIn
<1>10. Apart(row) /\ Carrying(row)
  BY <1>3, <1>5, <1>7, <1>8 DEF Apart, Carrying
<1> QED  BY <1>3, <1>7, <1>8, <1>9, <1>10

(* The worse of two outcomes of plans.                                      *)
LEMMA WorseIs ==
    ASSUME NEW l \in Landed, NEW r \in Landed \cup {"unauthorized", "canceled"}
    PROVE  /\ Worse(l, r) \in {l, r} /\ Worse(l, r) \in Outcomes
           /\ Worse(l, r) = "completed" => l = "completed" /\ r = "completed"
           /\ l = "completed" => Worse(l, r) = r
           /\ r \notin Landed => Worse(l, r) = r
<1>1. /\ Severity["completed"] = 0 /\ Severity["partial"] = 1 /\ Severity["unreported"] = 2
      /\ Severity["unauthorized"] = 3 /\ Severity["canceled"] = 4
  BY DEF Severity
<1>2. l \in {"completed", "partial", "unreported"}
      /\ r \in {"completed", "partial", "unreported", "unauthorized", "canceled"}
  BY DEF Landed
<1>3. Worse(l, r) \in {l, r} /\ Worse(l, r) \in Outcomes
  <2>1. Worse(l, r) \in {l, r}
    BY Zenon DEF Worse
  <2>2. l \in Outcomes /\ r \in Outcomes
    BY <1>2 DEF Outcomes, Landed, Early
  <2> QED  BY <2>1, <2>2
<1>4. Worse(l, r) = "completed" => l = "completed" /\ r = "completed"
  BY <1>1, <1>2 DEF Worse
<1>5. l = "completed" => Worse(l, r) = r
  BY <1>1, <1>2 DEF Worse
<1>6. r \notin Landed => Worse(l, r) = r
  BY <1>1, <1>2 DEF Worse, Landed
<1> QED  BY <1>3, <1>4, <1>5, <1>6

(* What an end says of the token.                                           *)
LEMMA WordIs ==
    /\ AnswerOf("unauthorized") = "rejected" /\ AnswerOf("forbidden") = "forbidden"
    /\ \A error \in {"none", "no_such_device", "sync_disabled", "plan_too_large", "gone"} :
         AnswerOf(error) = "accepted"
    /\ \A error \in {"canceled", "unreachable", "rejected"} : AnswerOf(error) = "silent"
<1>1. AnswerOf("unauthorized") = "rejected" /\ AnswerOf("forbidden") = "forbidden"
  BY DEF AnswerOf
<1>2. ASSUME NEW error \in {"none", "no_such_device", "sync_disabled", "plan_too_large", "gone"}
      PROVE  AnswerOf(error) = "accepted"
  BY DEF AnswerOf
<1>3. ASSUME NEW error \in {"canceled", "unreachable", "rejected"}
      PROVE  AnswerOf(error) = "silent"
  <2>1. /\ error # "unauthorized" /\ error # "forbidden"
        /\ error \notin {"none", "no_such_device", "sync_disabled", "plan_too_large", "gone"}
    OBVIOUS
  <2> QED  BY <2>1, Zenon DEF AnswerOf
<1> QED  BY <1>1, <1>2, <1>3

(* What a stage that failed makes of the tick.                              *)
LEMMA FailureIs ==
    /\ OutcomeOf("canceled") = "canceled" /\ OutcomeOf("unreachable") = "offline"
    /\ OutcomeOf("sync_disabled") = "server_disabled"
    /\ \A error \in {"unauthorized", "forbidden"} : OutcomeOf(error) = "unauthorized"
    /\ \A error \in {"no_such_device", "rejected", "plan_too_large"} : OutcomeOf(error) = "refused"
<1> QED  BY DEF OutcomeOf

(* What a chunk's plan covers.                                              *)
LEMMA CoversAre ==
    ASSUME NEW chunk \in Chunks
    PROVE  /\ Covers(chunk) \in RomSets
           /\ round.scoped => Covers(chunk) = chunk.roms \cup chunk.carries
           /\ ~round.scoped => Covers(chunk) = LibraryRoms
<1> QED  BY DEF Covers, Chunks, RomSets

(* A tick that stops leaves what is to come to the next one.                *)
LEMMA StoppedIs ==
    ASSUME NEW r \in Round
    PROVE  /\ StoppedHere(r) \in Round
           /\ StoppedHere(r).at = "end" /\ StoppedHere(r).pending = <<>>
           /\ StoppedHere(r).unasked = r.unasked \cup RomsIn(r.pending)
           /\ StoppedHere(r).scoped = r.scoped /\ StoppedHere(r).scope = r.scope
           /\ StoppedHere(r).plans = r.plans /\ StoppedHere(r).outcome = r.outcome
           /\ StoppedHere(r).answer = r.answer /\ StoppedHere(r).word = r.word
           /\ StoppedHere(r).oversized = r.oversized /\ StoppedHere(r).again = r.again
           /\ StoppedHere(r).restoring = r.restoring /\ StoppedHere(r).planned = r.planned
           /\ StoppedHere(r).unstored = r.unstored /\ StoppedHere(r).unreported = r.unreported
           /\ StoppedHere(r).failures = r.failures
<1>1. PICK left \in RomSets : left = r.unasked \cup RomsIn(r.pending)
  <2>1. r.unasked \in RomSets /\ r.pending \in Seq(Chunks)
    BY DEF Round
  <2>2. RomsIn(r.pending) \in RomSets
    BY <2>1, RowOfChunks
  <2> QED  BY <2>1, <2>2 DEF RomSets
<1>2. PICK none \in Seq(Chunks) : none = <<>>
  <2>1. <<>> \in Seq(Chunks)
    OBVIOUS
  <2> QED  BY <2>1, Zenon
<1>3. PICK over : over = [r EXCEPT !.unasked = left, !.pending = none, !.at = "end"]
  OBVIOUS
<1>4. StoppedHere(r) = over
  BY <1>1, <1>2, <1>3 DEF StoppedHere
<1>5. "end" \in Stages
  BY DEF Stages
<1>6. /\ over \in Round /\ over.at = "end" /\ over.pending = none /\ over.unasked = left
      /\ over.scoped = r.scoped /\ over.scope = r.scope /\ over.plans = r.plans /\ over.outcome = r.outcome
      /\ over.answer = r.answer /\ over.word = r.word /\ over.oversized = r.oversized /\ over.again = r.again
      /\ over.restoring = r.restoring /\ over.planned = r.planned
      /\ over.unstored = r.unstored /\ over.unreported = r.unreported /\ over.failures = r.failures
  BY <1>1, <1>2, <1>3, <1>5, ZenonT(60) DEF Round
<1> QED  BY <1>1, <1>2, <1>4, <1>6

(* Nothing is ahead of a row that is empty.                                 *)
LEMMA NoChunks == RomsIn(<<>>) = {} /\ Apart(<<>>) /\ Carrying(<<>>) /\ <<>> \in Seq(Chunks)
<1>1. DOMAIN <<>> = {} /\ <<>> \in Seq(Chunks)
  OBVIOUS
<1> QED  BY <1>1 DEF RomsIn, Apart, Carrying

(* What the steps below start from.                                         *)
LEMMA TickParts ==
    ASSUME TickInv
    PROVE  /\ round \in Round /\ round.pending \in Seq(Chunks) /\ round.chunk \in Chunks
           /\ present \in RomSets /\ saved \in RomSets /\ fresh \in RomSets /\ said \in RomSets
           /\ round.unasked \in RomSets /\ round.planned \in RomSets /\ round.scope \in RomSets
           /\ round.outcome \in Outcomes /\ round.answer \in Words /\ round.word \in Words
           /\ round.plans \in Nat /\ cancel \in BOOLEAN /\ playing \in BOOLEAN
           /\ RomsIn(round.pending) \in RomSets
           /\ Ahead = RomsIn(round.pending) \cup (IF round.at = "ask" THEN round.chunk.roms ELSE {})
           /\ MaxTurns \in Nat /\ turns \in 0 .. MaxTurns /\ (Turn => turns' \in 0 .. MaxTurns)
<1>1. round \in Round
  BY DEF TickInv, TickTyped
<1>2. /\ round.pending \in Seq(Chunks) /\ round.chunk \in Chunks
      /\ round.unasked \in RomSets /\ round.planned \in RomSets /\ round.scope \in RomSets
      /\ round.outcome \in Outcomes /\ round.answer \in Words /\ round.word \in Words
      /\ round.plans \in Nat
  BY <1>1 DEF Round
<1>3. RomsIn(round.pending) \in RomSets
  BY <1>2, RowOfChunks
<1>4. Turn => turns' \in 0 .. MaxTurns
  BY TickFacts DEF Turn, TickInv, TickTyped
<1> QED  BY <1>1, <1>2, <1>3, <1>4, TickFacts DEF TickInv, TickTyped, Ahead

(* A tick that stops keeps its scope parted.                                *)
LEMMA StopKeeps ==
    ASSUME TickInv, NEW r \in Round, round' = StoppedHere(r), round.at \in {"next", "ask", "finish"},
           r.scoped = round.scoped, r.scope = round.scope, r.restoring = round.restoring,
           r.planned = round.planned, r.pending = round.pending,
           r.unasked = round.unasked \cup (IF round.at = "ask" THEN round.chunk.roms ELSE {}),
           r.plans = round.plans \/ round.at = "finish",
           UNCHANGED <<outside, fresh, said, ticked, cancel, playing>>, turns' \in 0 .. MaxTurns
    PROVE  TickTyped' /\ FreshIsInScope' /\ ScopeIsParted' /\ WholeIsPlanned'
<1>1. /\ round' \in Round /\ round'.at = "end" /\ round'.pending = <<>>
      /\ round'.unasked = r.unasked \cup RomsIn(round.pending)
      /\ round'.scoped = round.scoped /\ round'.scope = round.scope /\ round'.plans = r.plans
      /\ round'.restoring = round.restoring /\ round'.planned = round.planned
  BY StoppedIs
<1>2. UNCHANGED <<weight, present, saved, fresh, said, ticked, cancel, playing>>
  BY DEF outside
<1>3. TickTyped'
  BY <1>1, <1>2 DEF TickInv, TickTyped
<1>4. FreshIsInScope'
  BY <1>1, <1>2 DEF TickInv, FreshIsInScope, Busy, Over
<1>5. Ahead' = {}
  BY <1>1, NoChunks DEF Ahead
<1>6. ScopeIsParted'
  <2>1. SUFFICES ASSUME round.scoped PROVE ScopeIsParted'
    BY <1>1 DEF ScopeIsParted
  <2>2. /\ round.scope \subseteq round.planned \cup round.unasked \cup Ahead
        /\ round.planned \cap round.unasked = {} /\ (round.planned \cup round.unasked) \cap Ahead = {}
    BY <2>1 DEF TickInv, ScopeIsParted, Busy
  <2>3. round'.unasked = round.unasked \cup Ahead
    BY <1>1, TickParts
  <2>4. DOMAIN round'.pending = {}
    BY <1>1
  <2> QED  BY <1>1, <1>5, <2>2, <2>3, <2>4 DEF ScopeIsParted, Apart, Carrying
<1>7. WholeIsPlanned'
  <2>1. SUFFICES ASSUME ~round.scoped, r.plans > 0 PROVE round.planned = LibraryRoms
    BY <1>1 DEF WholeIsPlanned
  <2> QED  BY <2>1 DEF TickInv, WholeIsPlanned
<1> QED  BY <1>3, <1>4, <1>6, <1>7

(* A step of the tick alone keeps the types when its record is a record.    *)
LEMMA TickFrame ==
    ASSUME TickInv, round' \in Round, turns' \in 0 .. MaxTurns,
           UNCHANGED <<outside, between, cancel, playing>>
    PROVE  /\ TickTyped' /\ UNCHANGED <<weight, present, saved, fresh, said, ticked, cancel, playing>>
           /\ (fresh \subseteq present)'
<1>1. UNCHANGED <<weight, present, saved, fresh, said, ticked, cancel, playing>>
  BY DEF outside, between
<1> QED  BY <1>1 DEF TickInv, TickTyped, FreshIsInScope

(* The tick goes on to its next chunk, or has done them all.                *)
LEMMA NextChunkKeeps ==
    ASSUME TickInv, NextChunk
    PROVE  TickInv'
<1>0. /\ round \in Round /\ round.at = "next" /\ round.pending # <<>> /\ round.pending \in Seq(Chunks)
      /\ UNCHANGED <<outside, between, cancel, playing, turns>> /\ turns' \in 0 .. MaxTurns
      /\ round.outcome \in Landed
  BY TickParts DEF NextChunk, TickInv, OutcomeFollows
<1>1. CASE round.plans > 0 /\ (cancel \/ playing)
  <2>1. PICK why \in {"canceled", "partial"} : why = IF cancel THEN "canceled" ELSE "partial"
    OBVIOUS
  <2>2. PICK worse : worse = Worse(round.outcome, why)
    OBVIOUS
  <2>3. /\ worse \in {round.outcome, why} /\ worse \in Outcomes /\ worse # "completed"
    BY <1>0, <2>1, <2>2, WorseIs DEF Landed
  <2>4. PICK held \in BOOLEAN : held = ~cancel
    <3>1. cancel \in BOOLEAN
      BY TickParts
    <3> QED  BY <3>1
  <2>5. PICK r : r = [round EXCEPT !.held = held, !.outcome = worse]
    OBVIOUS
  <2>6. round' = StoppedHere(r)
    BY <1>1, <2>1, <2>2, <2>4, <2>5 DEF NextChunk
  <2>7. /\ r \in Round /\ r.scoped = round.scoped /\ r.scope = round.scope /\ r.restoring = round.restoring
        /\ r.planned = round.planned /\ r.pending = round.pending /\ r.unasked = round.unasked
        /\ r.plans = round.plans /\ r.outcome = worse /\ r.answer = round.answer /\ r.word = round.word
        /\ r.unreported = round.unreported /\ r.unstored = round.unstored
    BY <1>0, <2>3, <2>4, <2>5, ZenonT(60) DEF Round
  <2>8. TickTyped' /\ FreshIsInScope' /\ ScopeIsParted' /\ WholeIsPlanned'
    BY <1>0, <2>6, <2>7, StopKeeps DEF between
  <2>9. /\ round'.at = "end" /\ round'.plans = round.plans /\ round'.outcome = worse
        /\ round'.answer = round.answer /\ round'.word = round.word
        /\ round'.unreported = round.unreported /\ round'.unstored = round.unstored
    BY <2>6, <2>7, StoppedIs
  <2>10. OutcomeFollows'
    BY <1>0, <1>1, <2>1, <2>3, <2>9 DEF TickInv, OutcomeFollows, Landed
  <2>11. WordFollows'
    BY <1>0, <1>1, <2>9 DEF TickInv, WordFollows
  <2> QED  BY <2>8, <2>10, <2>11 DEF TickInv
<1>2. CASE ~(round.plans > 0 /\ (cancel \/ playing))
  <2>1. PICK first \in Chunks, rest \in Seq(Chunks) : first = Head(round.pending) /\ rest = Tail(round.pending)
    BY <1>0, RestOfChunks
  <2>2. /\ RomsIn(round.pending) = first.roms \cup RomsIn(rest)
        /\ Apart(round.pending) => Apart(rest) /\ first.roms \cap RomsIn(rest) = {}
        /\ Carrying(round.pending) => Carrying(rest) /\ first.carries = saved \cap first.roms
    BY <1>0, <2>1, RestOfChunks
  <2>3. PICK asks \in Nat : asks = round.asks + 1
    BY <1>0 DEF Round
  <2>4. round' = [round EXCEPT !.at = "ask", !.chunk = first, !.tries = 0, !.pending = rest, !.asks = asks]
    BY <1>2, <2>1, <2>3 DEF NextChunk
  <2>5. /\ round' \in Round /\ round'.at = "ask" /\ round'.chunk = first /\ round'.pending = rest
        /\ round'.scoped = round.scoped /\ round'.scope = round.scope /\ round'.run = round.run
        /\ round'.plans = round.plans /\ round'.outcome = round.outcome /\ round'.answer = round.answer
        /\ round'.unasked = round.unasked /\ round'.oversized = round.oversized
        /\ round'.restoring = round.restoring /\ round'.planned = round.planned
        /\ round'.word = round.word /\ round'.unstored = round.unstored
        /\ round'.unreported = round.unreported /\ round'.failures = round.failures
    BY <1>0, <2>1, <2>3, <2>4, ZenonT(30) DEF Round, Stages
  <2>6. /\ TickTyped' /\ UNCHANGED <<weight, present, saved, fresh, said, ticked, cancel, playing>>
        /\ (fresh \subseteq present)'
    BY <1>0, <2>5, TickFrame
  <2>7. FreshIsInScope' /\ WholeIsPlanned' /\ OutcomeFollows' /\ WordFollows'
    BY <1>0, <2>5, <2>6 DEF TickInv, FreshIsInScope, WholeIsPlanned, OutcomeFollows, WordFollows, Busy, Over
  <2>8. ScopeIsParted'
    <3>1. SUFFICES ASSUME round.scoped PROVE ScopeIsParted'
      BY <2>5 DEF ScopeIsParted
    <3>2. /\ round.scope \subseteq round.planned \cup round.unasked \cup Ahead
          /\ round.planned \cap round.unasked = {} /\ (round.planned \cup round.unasked) \cap Ahead = {}
          /\ Apart(round.pending) /\ Carrying(round.pending)
      BY <1>0, <3>1 DEF TickInv, ScopeIsParted, Busy
    <3>3. Ahead' = Ahead
      BY <1>0, <2>2, <2>5, TickParts DEF Ahead
    <3> QED  BY <2>2, <2>5, <2>6, <3>2, <3>3 DEF ScopeIsParted, Apart, Carrying, RomsIn
  <2> QED  BY <2>6, <2>7, <2>8 DEF TickInv
<1> QED  BY <1>1, <1>2

LEMMA LastChunkKeeps ==
    ASSUME TickInv, LastChunk
    PROVE  TickInv'
<1>0. /\ round \in Round /\ round.at = "next" /\ round.pending = <<>>
      /\ UNCHANGED <<outside, between, cancel, playing, turns>> /\ turns' \in 0 .. MaxTurns
  BY TickParts DEF LastChunk
<1>1. round' = [round EXCEPT !.at = "end"]
  BY DEF LastChunk
<1>2. /\ round' \in Round /\ round'.at = "end" /\ round'.pending = round.pending
      /\ round'.scoped = round.scoped /\ round'.scope = round.scope /\ round'.run = round.run
      /\ round'.plans = round.plans /\ round'.outcome = round.outcome /\ round'.answer = round.answer
      /\ round'.unasked = round.unasked /\ round'.oversized = round.oversized
      /\ round'.restoring = round.restoring /\ round'.planned = round.planned
      /\ round'.word = round.word /\ round'.unstored = round.unstored
      /\ round'.unreported = round.unreported /\ round'.failures = round.failures
  BY <1>0, <1>1 DEF Round, Stages
<1>3. /\ TickTyped' /\ UNCHANGED <<weight, present, saved, fresh, said, ticked, cancel, playing>>
      /\ (fresh \subseteq present)'
  BY <1>0, <1>2, TickFrame
<1>4. FreshIsInScope' /\ WholeIsPlanned'
  BY <1>0, <1>2, <1>3 DEF TickInv, FreshIsInScope, WholeIsPlanned, Busy, Over
<1>5. OutcomeFollows'
  BY <1>0, <1>2 DEF TickInv, OutcomeFollows, Landed
<1>6. WordFollows'
  BY <1>0, <1>2 DEF TickInv, WordFollows
<1>7. ScopeIsParted'
  <2>1. Ahead' = Ahead
    BY <1>0, <1>2, TickParts DEF Ahead
  <2> QED  BY <1>0, <1>2, <1>3, <2>1 DEF TickInv, ScopeIsParted, Busy, Over, Apart, Carrying
<1> QED  BY <1>3, <1>4, <1>5, <1>6, <1>7 DEF TickInv

(* No plan comes of a chunk: the tick's failure, or what ran stands.        *)
LEMMA UnplannedKeeps ==
    ASSUME TickInv, round.at = "ask", NEW error \in NegotiateErrors \cup {"plan_too_large"},
           round' = Unplanned(error), turns' \in 0 .. MaxTurns, UNCHANGED <<outside, between, cancel, playing>>
    PROVE  TickInv'
<1>0. /\ round \in Round /\ round.outcome \in Landed /\ round.chunk \in Chunks /\ round.unasked \in RomSets
      /\ round.plans \in Nat
      /\ round.answer = (IF round.plans = 0 THEN "silent" ELSE "accepted") /\ round.word = round.answer
  BY TickParts DEF TickInv, OutcomeFollows, WordFollows
<1>1. PICK answer \in Words : answer = AnswerOf(error)
  <2>1. error \in {"canceled", "unauthorized", "forbidden", "unreachable", "sync_disabled", "no_such_device",
                   "rejected", "plan_too_large"}
    BY DEF NegotiateErrors
  <2> QED  BY <2>1, WordIs DEF Words
<1>2. PICK failed : failed = OutcomeOf(error)
  OBVIOUS
<1>3. failed \in {"canceled", "unauthorized", "offline", "server_disabled", "refused"}
  <2>1. error \in {"canceled", "unauthorized", "forbidden", "unreachable", "sync_disabled", "no_such_device",
                   "rejected", "plan_too_large"}
    BY DEF NegotiateErrors
  <2> QED  BY <1>2, <2>1, FailureIs
<1>4. PICK unasked \in RomSets : unasked = round.unasked \cup round.chunk.roms
  BY <1>0 DEF Chunks, RomSets
<1>5. PICK r : r = [round EXCEPT !.unasked = unasked]
  OBVIOUS
<1>6. /\ r \in Round /\ r.scoped = round.scoped /\ r.scope = round.scope /\ r.restoring = round.restoring
      /\ r.planned = round.planned /\ r.pending = round.pending /\ r.unasked = unasked
      /\ r.plans = round.plans /\ r.outcome = round.outcome /\ r.answer = round.answer /\ r.word = round.word
      /\ r.unreported = round.unreported /\ r.unstored = round.unstored
  BY <1>0, <1>4, <1>5 DEF Round
<1>7. PICK left : left = StoppedHere(r)
  OBVIOUS
<1>8. /\ left \in Round /\ left.at = "end" /\ left.plans = round.plans /\ left.outcome = round.outcome
      /\ left.answer = round.answer /\ left.word = round.word
      /\ left.unreported = round.unreported /\ left.unstored = round.unstored
  BY <1>6, <1>7, StoppedIs
<1>9. PICK why \in {"unauthorized", "canceled", "partial"} :
        why = IF failed \in {"unauthorized", "canceled"} THEN failed ELSE "partial"
  OBVIOUS
<1>10. PICK outcome : outcome = IF round.plans = 0 THEN failed ELSE Worse(round.outcome, why)
  OBVIOUS
<1>11. outcome \in Outcomes /\ outcome # "completed"
       /\ (round.plans > 0 => outcome \in {round.outcome, why})
  <2>1. CASE round.plans = 0
    BY <1>3, <1>10, <2>1 DEF Outcomes, Early
  <2>2. CASE round.plans # 0
    BY <1>0, <1>9, <1>10, <2>2, WorseIs DEF Landed
  <2> QED  BY <1>0, <2>1, <2>2
<1>12. PICK heard \in Words, word \in Words :
         /\ heard = (IF round.plans > 0 /\ answer = "silent" THEN round.answer ELSE answer)
         /\ word = (IF answer = "silent" THEN round.word ELSE answer)
  BY <1>1, TickParts
<1>13. round' = [left EXCEPT !.outcome = outcome, !.answer = heard, !.word = word]
  <2>0. r = [round EXCEPT !.unasked = @ \union round.chunk.roms]
    BY <1>4, <1>5
  <2>3. Unplanned(error) =
          IF round.plans = 0
          THEN [left EXCEPT !.outcome = failed, !.answer = answer,
                            !.word = IF answer = "silent" THEN @ ELSE answer]
          ELSE [left EXCEPT !.outcome = Worse(@, why), !.answer = IF answer = "silent" THEN @ ELSE answer,
                            !.word = IF answer = "silent" THEN @ ELSE answer]
    BY <1>1, <1>2, <1>7, <1>9, <2>0, Zenon DEF Unplanned
  <2>1. CASE round.plans = 0
    BY <1>8, <1>10, <1>12, <2>1, <2>3
  <2>2. CASE round.plans # 0
    <3>1. round' = [left EXCEPT !.outcome = Worse(left.outcome, why),
                                !.answer = IF answer = "silent" THEN left.answer ELSE answer,
                                !.word = IF answer = "silent" THEN left.word ELSE answer]
      BY <2>2, <2>3, Zenon
    <3>2. Worse(left.outcome, why) = outcome
      BY <1>8, <1>10, <2>2
    <3>3. /\ heard = (IF answer = "silent" THEN left.answer ELSE answer)
          /\ word = (IF answer = "silent" THEN left.word ELSE answer)
      BY <1>0, <1>8, <1>12, <2>2
    <3> QED  BY <3>1, <3>2, <3>3, Zenon
  <2> QED  BY <2>1, <2>2
<1>14. /\ round' \in Round /\ round'.at = "end" /\ round'.plans = round.plans
       /\ round'.outcome = outcome /\ round'.answer = heard /\ round'.word = word
       /\ round'.unreported = round.unreported /\ round'.unstored = round.unstored
       /\ round'.pending = left.pending /\ round'.unasked = left.unasked
       /\ round'.scoped = left.scoped /\ round'.scope = left.scope
       /\ round'.restoring = left.restoring /\ round'.planned = left.planned
  <2>1. PICK w : w = [left EXCEPT !.outcome = outcome, !.answer = heard, !.word = word]
    OBVIOUS
  <2>2. w \in Round
    BY <1>8, <1>11, <1>12, <2>1, ZenonT(60) DEF Round
  <2>3. w.outcome = outcome /\ w.answer = heard /\ w.word = word
    BY <1>8, <2>1 DEF Round
  <2>4. /\ w.at = left.at /\ w.plans = left.plans
        /\ w.unreported = left.unreported /\ w.unstored = left.unstored
    BY <1>8, <2>1 DEF Round
  <2>5. /\ w.pending = left.pending /\ w.unasked = left.unasked
        /\ w.scoped = left.scoped /\ w.scope = left.scope
        /\ w.restoring = left.restoring /\ w.planned = left.planned
    BY <1>8, <2>1 DEF Round
  <2>6. round' = w
    BY <1>13, <2>1
  <2> QED  BY <1>8, <2>2, <2>3, <2>4, <2>5, <2>6
<1>15. /\ left.pending = <<>> /\ left.unasked = unasked \cup RomsIn(round.pending)
       /\ left.scoped = round.scoped /\ left.scope = round.scope
       /\ left.restoring = round.restoring /\ left.planned = round.planned
  BY <1>6, <1>7, StoppedIs
<1>16. /\ TickTyped' /\ UNCHANGED <<weight, present, saved, fresh, said, ticked, cancel, playing>>
       /\ (fresh \subseteq present)'
  BY <1>14, TickFrame
<1>17. FreshIsInScope' /\ WholeIsPlanned'
  BY <1>14, <1>15, <1>16 DEF TickInv, FreshIsInScope, WholeIsPlanned, Busy, Over
<1>18. ScopeIsParted'
  <2>1. SUFFICES ASSUME round.scoped PROVE ScopeIsParted'
    BY <1>14, <1>15 DEF ScopeIsParted
  <2>2. /\ round.scope \subseteq round.planned \cup round.unasked \cup Ahead
        /\ round.planned \cap round.unasked = {} /\ (round.planned \cup round.unasked) \cap Ahead = {}
    BY <2>1 DEF TickInv, ScopeIsParted, Busy
  <2>3. round'.unasked = round.unasked \cup Ahead
    BY <1>4, <1>14, <1>15, TickParts
  <2>4. DOMAIN round'.pending = {} /\ Ahead' = {}
    BY <1>14, <1>15, NoChunks DEF Ahead
  <2> QED  BY <1>14, <1>15, <2>2, <2>3, <2>4 DEF ScopeIsParted, Apart, Carrying
<1>19. OutcomeFollows'
  <2>1. CASE round.plans = 0
    BY <1>3, <1>10, <1>14, <2>1 DEF OutcomeFollows
  <2>2. CASE round.plans # 0
    <3>1. /\ outcome # "completed" /\ outcome \in {round.outcome, "unauthorized", "canceled", "partial"}
          /\ outcome \notin {"offline", "refused", "server_disabled"}
      BY <1>0, <1>9, <1>11, <2>2 DEF Landed
    <3> QED  BY <1>14, <2>2, <3>1 DEF TickInv, OutcomeFollows
  <2> QED  BY <2>1, <2>2
<1>20. WordFollows'
  BY <1>0, <1>12, <1>14 DEF WordFollows
<1> QED  BY <1>16, <1>17, <1>18, <1>19, <1>20 DEF TickInv

(* The answer to a negotiation: none, too large a plan, or a plan.          *)
LEMMA AskKeeps ==
    ASSUME TickInv, NegotiateFails \/ PlanTooLarge \/ PlanArrives
    PROVE  TickInv'
<1>0. /\ round \in Round /\ round.at = "ask" /\ round.chunk \in Chunks /\ round.pending \in Seq(Chunks)
      /\ UNCHANGED <<outside, between, cancel, playing>> /\ turns' \in 0 .. MaxTurns
      /\ round.unasked \in RomSets /\ round.planned \in RomSets /\ round.oversized \in RomSets
      /\ saved \in RomSets
  BY TickParts DEF NegotiateFails, PlanTooLarge, PlanArrives, Round
<1>1. round.scoped =>
        /\ round.scope \subseteq round.planned \cup round.unasked \cup Ahead
        /\ round.planned \cap round.unasked = {} /\ (round.planned \cup round.unasked) \cap Ahead = {}
        /\ Apart(round.pending) /\ Carrying(round.pending)
        /\ round.chunk.roms \cap RomsIn(round.pending) = {} /\ round.chunk.carries = saved \cap round.chunk.roms
        /\ Ahead = RomsIn(round.pending) \cup round.chunk.roms
  BY <1>0, TickParts DEF TickInv, ScopeIsParted, Busy
<1>2. ASSUME NEW error \in NegotiateErrors \cup {"plan_too_large"}, round' = Unplanned(error)
      PROVE  TickInv'
  BY <1>0, <1>2, UnplannedKeeps
<1>3. CASE round' = [round EXCEPT !.tries = @ + 1]
  <2>1. PICK tries \in Nat : tries = round.tries + 1
    BY <1>0 DEF Round
  <2>2. round' = [round EXCEPT !.tries = tries]
    BY <1>3, <2>1
  <2>3. /\ round' \in Round /\ round'.at = round.at /\ round'.pending = round.pending
        /\ round'.scoped = round.scoped /\ round'.scope = round.scope /\ round'.run = round.run
        /\ round'.plans = round.plans /\ round'.outcome = round.outcome /\ round'.answer = round.answer
        /\ round'.unasked = round.unasked /\ round'.oversized = round.oversized
        /\ round'.restoring = round.restoring /\ round'.planned = round.planned
        /\ round'.word = round.word /\ round'.unstored = round.unstored
        /\ round'.unreported = round.unreported /\ round'.failures = round.failures
        /\ round'.chunk = round.chunk
    BY <1>0, <2>1, <2>2 DEF Round
  <2>4. /\ TickTyped' /\ UNCHANGED <<weight, present, saved, fresh, said, ticked, cancel, playing>>
        /\ (fresh \subseteq present)'
    BY <1>0, <2>3, TickFrame
  <2>5. FreshIsInScope' /\ WholeIsPlanned' /\ OutcomeFollows' /\ WordFollows'
    BY <1>0, <2>3, <2>4 DEF TickInv, FreshIsInScope, WholeIsPlanned, OutcomeFollows, WordFollows, Busy, Over
  <2>6. Ahead' = Ahead /\ RomsIn(round'.pending) = RomsIn(round.pending)
    BY <1>0, <2>3, TickParts DEF Ahead
  <2>7. ScopeIsParted'
    BY <1>0, <1>1, <2>3, <2>4, <2>6 DEF ScopeIsParted, Apart, Carrying
  <2> QED  BY <2>4, <2>5, <2>7 DEF TickInv
<1>4. CASE round.scoped /\ round' = [round EXCEPT !.at = "next", !.pending = Halve(round.chunk) \o @]
  <2>1. PICK halves \in Seq(Chunks) :
          /\ halves = Halve(round.chunk) /\ RomsIn(halves) = round.chunk.roms /\ Apart(halves) /\ Carrying(halves)
    BY <1>0, <1>1, <1>4, HalvesAre
  <2>2. PICK pending \in Seq(Chunks) :
          /\ pending = halves \o round.pending /\ RomsIn(pending) = RomsIn(halves) \cup RomsIn(round.pending)
          /\ Apart(pending) /\ Carrying(pending)
    BY <1>0, <1>1, <1>4, <2>1, RowOfChunks
  <2>3. round' = [round EXCEPT !.at = "next", !.pending = pending]
    BY <1>4, <2>1, <2>2
  <2>4. /\ round' \in Round /\ round'.at = "next" /\ round'.pending = pending
        /\ round'.scoped = round.scoped /\ round'.scope = round.scope /\ round'.run = round.run
        /\ round'.plans = round.plans /\ round'.outcome = round.outcome /\ round'.answer = round.answer
        /\ round'.unasked = round.unasked /\ round'.oversized = round.oversized
        /\ round'.restoring = round.restoring /\ round'.planned = round.planned
        /\ round'.word = round.word /\ round'.unstored = round.unstored
        /\ round'.unreported = round.unreported /\ round'.failures = round.failures
    BY <1>0, <2>2, <2>3 DEF Round, Stages
  <2>5. /\ TickTyped' /\ UNCHANGED <<weight, present, saved, fresh, said, ticked, cancel, playing>>
        /\ (fresh \subseteq present)'
    BY <1>0, <2>4, TickFrame
  <2>6. FreshIsInScope' /\ WholeIsPlanned' /\ OutcomeFollows' /\ WordFollows'
    BY <1>0, <2>4, <2>5 DEF TickInv, FreshIsInScope, WholeIsPlanned, OutcomeFollows, WordFollows, Busy, Over
  <2>7. Ahead' = Ahead
    BY <1>1, <1>4, <2>1, <2>2, <2>4 DEF Ahead
  <2>8. ScopeIsParted'
    <3>1. Apart(round.pending)'
      BY <2>2, <2>4 DEF Apart
    <3>2. Carrying(pending) /\ saved' = saved
      BY <2>2, <2>5
    <3>3. Carrying(round.pending)'
      BY <2>4, <3>2 DEF Carrying
    <3>4. /\ round'.scope \subseteq round'.planned \cup round'.unasked \cup Ahead'
          /\ round'.planned \cap round'.unasked = {}
          /\ (round'.planned \cup round'.unasked) \cap Ahead' = {}
      BY <1>1, <1>4, <2>4, <2>7
    <3>6. round'.at # "ask"
      BY <2>4
    <3> QED  BY <3>1, <3>3, <3>4, <3>6 DEF ScopeIsParted
  <2> QED  BY <2>5, <2>6, <2>8 DEF TickInv
<1>5. CASE round.scoped /\ round' = [round EXCEPT !.at = "next", !.oversized = @ \union round.chunk.roms,
                                                 !.unasked = @ \union round.chunk.roms]
  <2>1. PICK oversized \in RomSets, unasked \in RomSets :
          oversized = round.oversized \cup round.chunk.roms /\ unasked = round.unasked \cup round.chunk.roms
    BY <1>0 DEF Chunks, RomSets
  <2>2. round' = [round EXCEPT !.at = "next", !.oversized = oversized, !.unasked = unasked]
    BY <1>5, <2>1
  <2>3. /\ round' \in Round /\ round'.at = "next" /\ round'.pending = round.pending
        /\ round'.scoped = round.scoped /\ round'.scope = round.scope /\ round'.run = round.run
        /\ round'.plans = round.plans /\ round'.outcome = round.outcome /\ round'.answer = round.answer
        /\ round'.unasked = unasked /\ round'.oversized = oversized
        /\ round'.restoring = round.restoring /\ round'.planned = round.planned
        /\ round'.word = round.word /\ round'.unstored = round.unstored
        /\ round'.unreported = round.unreported /\ round'.failures = round.failures
    BY <1>0, <2>1, <2>2, ZenonT(60) DEF Round, Stages
  <2>4. /\ TickTyped' /\ UNCHANGED <<weight, present, saved, fresh, said, ticked, cancel, playing>>
        /\ (fresh \subseteq present)'
    BY <1>0, <2>3, TickFrame
  <2>5. FreshIsInScope' /\ WholeIsPlanned' /\ WordFollows'
    BY <1>0, <2>3, <2>4 DEF TickInv, FreshIsInScope, WholeIsPlanned, WordFollows, Busy, Over
  <2>6. OutcomeFollows'
    <3>1. round.unasked \subseteq round.oversized
      BY <1>0 DEF TickInv, OutcomeFollows
    <3>2. unasked \subseteq oversized
      BY <2>1, <3>1
    <3> QED  BY <1>0, <2>3, <3>2 DEF TickInv, OutcomeFollows
  <2>7. Ahead' = RomsIn(round.pending)
    BY <2>3 DEF Ahead
  <2>8. ScopeIsParted'
    <3>1. /\ round.scope \subseteq round.planned \cup unasked \cup RomsIn(round.pending)
          /\ round.planned \cap unasked = {} /\ (round.planned \cup unasked) \cap RomsIn(round.pending) = {}
      BY <1>1, <1>5, <2>1
    <3> QED  BY <1>1, <1>5, <2>3, <2>4, <2>7, <3>1 DEF ScopeIsParted, Apart, Carrying
  <2> QED  BY <2>4, <2>5, <2>6, <2>8 DEF TickInv
<1>6. CASE round' = [round EXCEPT !.at = "run", !.word = "accepted", !.planned = @ \union Covers(round.chunk)]
  <2>1. PICK planned \in RomSets : planned = round.planned \cup Covers(round.chunk)
    BY <1>0, CoversAre DEF RomSets
  <2>2. round' = [round EXCEPT !.at = "run", !.word = "accepted", !.planned = planned]
    BY <1>6, <2>1
  <2>3. /\ round' \in Round /\ round'.at = "run" /\ round'.pending = round.pending
        /\ round'.scoped = round.scoped /\ round'.scope = round.scope /\ round'.run = round.run
        /\ round'.plans = round.plans /\ round'.outcome = round.outcome /\ round'.answer = round.answer
        /\ round'.unasked = round.unasked /\ round'.oversized = round.oversized
        /\ round'.restoring = round.restoring /\ round'.planned = planned
        /\ round'.word = "accepted" /\ round'.unstored = round.unstored
        /\ round'.unreported = round.unreported /\ round'.failures = round.failures
    BY <1>0, <2>1, <2>2, ZenonT(60) DEF Round, Stages, Words
  <2>4. /\ TickTyped' /\ UNCHANGED <<weight, present, saved, fresh, said, ticked, cancel, playing>>
        /\ (fresh \subseteq present)'
    BY <1>0, <2>3, TickFrame
  <2>5. FreshIsInScope' /\ OutcomeFollows' /\ WordFollows'
    BY <1>0, <2>3, <2>4 DEF TickInv, FreshIsInScope, OutcomeFollows, WordFollows, Busy, Over
  <2>6. WholeIsPlanned'
    BY <1>0, <2>1, <2>3, CoversAre DEF WholeIsPlanned, RomSets
  <2>7. Ahead' = RomsIn(round.pending)
    BY <2>3 DEF Ahead
  <2>8. ScopeIsParted'
    <3>1. SUFFICES ASSUME round.scoped PROVE ScopeIsParted'
      BY <2>3 DEF ScopeIsParted
    <3>2. Covers(round.chunk) = round.chunk.roms
      BY <1>0, <1>1, <3>1, CoversAre
    <3>3. /\ round.scope \subseteq planned \cup round.unasked \cup RomsIn(round.pending)
          /\ planned \cap round.unasked = {} /\ (planned \cup round.unasked) \cap RomsIn(round.pending) = {}
      BY <1>1, <2>1, <3>1, <3>2
    <3> QED  BY <1>1, <2>3, <2>4, <2>7, <3>1, <3>3 DEF ScopeIsParted, Apart, Carrying
  <2> QED  BY <2>4, <2>5, <2>6, <2>8 DEF TickInv
<1>7. NegotiateFails => round' = [round EXCEPT !.tries = @ + 1] \/ \E error \in NegotiateErrors : round' = Unplanned(error)
  BY DEF NegotiateFails, NegotiateErrors
<1>8. PlanTooLarge => \/ round' = Unplanned("plan_too_large")
                      \/ round.scoped /\ round' = [round EXCEPT !.at = "next", !.pending = Halve(round.chunk) \o @]
                      \/ round.scoped /\ round' = [round EXCEPT !.at = "next", !.oversized = @ \union round.chunk.roms,
                                                   !.unasked = @ \union round.chunk.roms]
  BY Zenon DEF PlanTooLarge
<1>9. PlanArrives => round' = [round EXCEPT !.at = "run", !.word = "accepted", !.planned = @ \union Covers(round.chunk)]
  BY Zenon DEF PlanArrives
<1> QED  BY <1>2, <1>3, <1>4, <1>5, <1>6, <1>7, <1>8, <1>9

(* A plan was carried out, or as far as it went.                            *)
LEMMA RanKeeps ==
    ASSUME TickInv, round.at = "run", NEW did \in Runs, NEW declined \in RomSets, Ran(did, declined),
           did.refused = "none" => did.last \in {"silent", "accepted"},
           did.refused # "none" => did.last = AnswerOf(did.refused),
           turns' \in 0 .. MaxTurns, UNCHANGED <<outside, fresh, ticked, cancel, playing>>
    PROVE  TickInv'
<1>0. /\ round \in Round /\ round.chunk \in Chunks /\ said \in RomSets
      /\ did.failed \in RomSets /\ did.again \in RomSets /\ did.reached \in RomSets
      /\ did.refused \in {"none", "unauthorized", "forbidden"}
      /\ round.met \in RomSets /\ round.again \in RomSets /\ round.unreached \in RomSets
      /\ round.failures \in BOOLEAN /\ round.word = "accepted"
  BY TickParts DEF Runs, Round, TickInv, WordFollows
<1>1. PICK met \in RomSets, again \in RomSets, unreached \in RomSets :
        /\ met = round.met \cup declined /\ again = round.again \cup did.again
        /\ unreached = round.unreached \cup (Covers(round.chunk) \ did.reached)
  BY <1>0, CoversAre DEF RomSets
<1>2. PICK failures \in BOOLEAN : failures = (round.failures \/ did.failed # {})
  BY <1>0
<1>3. PICK word \in Words : word = IF did.refused = "none" THEN round.word ELSE AnswerOf(did.refused)
  BY <1>0, WordIs DEF Words
<1>4. round' = [round EXCEPT !.at = "finish", !.run = did, !.met = met, !.again = again,
                             !.failures = failures, !.unreached = unreached, !.word = word]
  BY <1>1, <1>2, <1>3, Zenon DEF Ran
<1>5. /\ round' \in Round /\ round'.at = "finish" /\ round'.pending = round.pending /\ round'.run = did
      /\ round'.scoped = round.scoped /\ round'.scope = round.scope
      /\ round'.plans = round.plans /\ round'.outcome = round.outcome /\ round'.answer = round.answer
      /\ round'.unasked = round.unasked /\ round'.oversized = round.oversized
      /\ round'.restoring = round.restoring /\ round'.planned = round.planned
      /\ round'.word = word /\ round'.unstored = round.unstored
      /\ round'.unreported = round.unreported /\ round'.failures = failures
  <2>1. PICK r : r = [round EXCEPT !.at = "finish", !.run = did, !.met = met, !.again = again]
    OBVIOUS
  <2>2. r \in Round /\ r.at = "finish" /\ r.run = did
        /\ r.pending = round.pending /\ r.scoped = round.scoped /\ r.scope = round.scope
        /\ r.plans = round.plans /\ r.outcome = round.outcome /\ r.answer = round.answer
        /\ r.unasked = round.unasked /\ r.oversized = round.oversized
        /\ r.restoring = round.restoring /\ r.planned = round.planned
        /\ r.unstored = round.unstored /\ r.unreported = round.unreported
    BY <1>0, <1>1, <2>1, ZenonT(60) DEF Round, Stages
  <2>3. round' = [r EXCEPT !.failures = failures, !.unreached = unreached, !.word = word]
    BY <1>0, <1>4, <2>1 DEF Round
  <2>4. /\ round' \in Round /\ round'.failures = failures /\ round'.word = word
        /\ round'.at = r.at /\ round'.run = r.run /\ round'.pending = r.pending
        /\ round'.scoped = r.scoped /\ round'.scope = r.scope /\ round'.plans = r.plans
        /\ round'.outcome = r.outcome /\ round'.answer = r.answer /\ round'.unasked = r.unasked
        /\ round'.oversized = r.oversized /\ round'.restoring = r.restoring /\ round'.planned = r.planned
        /\ round'.unstored = r.unstored /\ round'.unreported = r.unreported
    <3>1. round' \in Round
      <4>1. PICK told : told = [r EXCEPT !.failures = failures]
        OBVIOUS
      <4>2. told \in Round
        BY <1>2, <2>2, <4>1, ZenonT(60) DEF Round
      <4>3. round' = [told EXCEPT !.unreached = unreached, !.word = word]
        BY <2>2, <2>3, <4>1 DEF Round
      <4> QED  BY <1>1, <1>3, <4>2, <4>3, ZenonT(30) DEF Round
    <3>2. round'.failures = failures
      BY <2>2, <2>3 DEF Round
    <3>3. round'.word = word
      BY <2>2, <2>3 DEF Round
    <3> QED  BY <2>2, <2>3, <3>1, <3>2, <3>3 DEF Round
  <2> QED  BY <2>2, <2>4
<1>6. UNCHANGED <<weight, present, saved, fresh, ticked, cancel, playing>>
  BY DEF outside
<1>7. said' \in RomSets /\ Cardinality(said') <= kMaxDeclines
  <2>1. PICK kept : kept = said \ (did.reached \ (declined \union did.failed))
    OBVIOUS
  <2>2. PICK new \in SUBSET (declined \ kept) : said' = kept \union new /\ Cardinality(kept \union new) <= kMaxDeclines
    BY <2>1 DEF Ran
  <2> QED  BY <1>0, <2>1, <2>2 DEF RomSets
<1>8. TickTyped' /\ (fresh \subseteq present)'
  BY <1>5, <1>6, <1>7 DEF TickInv, TickTyped, FreshIsInScope
<1>9. FreshIsInScope' /\ WholeIsPlanned'
  BY <1>5, <1>6, <1>8 DEF TickInv, FreshIsInScope, WholeIsPlanned, Busy, Over
<1>10. ScopeIsParted'
  <2>1. Ahead' = Ahead
    BY <1>5, TickParts DEF Ahead
  <2> QED  BY <1>5, <1>6, <2>1 DEF TickInv, ScopeIsParted, Busy, Over, Apart, Carrying
<1>11. OutcomeFollows'
  <2>1. round.outcome = "completed" => ~round.unstored /\ ~round.unreported /\ (failures => did.failed # {})
    BY <1>2 DEF TickInv, OutcomeFollows
  <2> QED  BY <1>5, <2>1 DEF TickInv, OutcomeFollows
<1>12. WordFollows'
  <2>1. round.answer \in {"silent", "accepted"}
    BY DEF TickInv, WordFollows
  <2> QED  BY <1>0, <1>3, <1>5, <2>1 DEF WordFollows
<1> QED  BY <1>8, <1>9, <1>10, <1>11, <1>12 DEF TickInv

LEMMA ExecuteKeeps ==
    ASSUME TickInv, ExecuteAll \/ ExecuteStops
    PROVE  TickInv'
<1>0. /\ round.at = "run" /\ turns' \in 0 .. MaxTurns /\ UNCHANGED <<outside, fresh, ticked, cancel, playing>>
      /\ round.chunk \in Chunks
  BY TickParts DEF ExecuteAll, ExecuteStops
<1>1. PICK all \in RomSets : all = Covers(round.chunk)
  BY <1>0, CoversAre
<1>2. PICK none \in RomSets : none = {}
  BY DEF RomSets
<1>3. PICK empty : empty = [canceled |-> FALSE, refused |-> "none", failed |-> none, again |-> none,
                            reached |-> none, last |-> "silent"]
  OBVIOUS
<1>4. empty = NoRun
  BY <1>2, <1>3 DEF NoRun
<1>5. ASSUME NEW rom \in all PROVE {rom} \in RomSets
  BY <1>1 DEF RomSets
<1>6. CASE ExecuteAll
  <2>1. CASE Ran([NoRun EXCEPT !.reached = all, !.last = IF all = {} THEN "silent" ELSE "accepted"], {})
    <3>1. PICK last \in {"silent", "accepted"} : last = IF all = {} THEN "silent" ELSE "accepted"
      OBVIOUS
    <3>2. PICK did : did = [empty EXCEPT !.reached = all, !.last = last]
      OBVIOUS
    <3>3. Ran(did, none)
      BY <1>2, <1>4, <2>1, <3>1, <3>2
    <3>4. did \in Runs /\ did.refused = "none" /\ did.last \in {"silent", "accepted"}
      BY <1>1, <1>2, <1>3, <3>1, <3>2 DEF Runs, Words
    <3> QED  BY <1>0, <1>2, <3>3, <3>4, RanKeeps
  <2>2. CASE \E rom \in all : Ran([NoRun EXCEPT !.reached = all], {rom})
    <3>1. PICK rom \in all : Ran([NoRun EXCEPT !.reached = all], {rom})
      BY <2>2
    <3>2. PICK did : did = [empty EXCEPT !.reached = all]
      OBVIOUS
    <3>3. Ran(did, {rom})
      BY <1>4, <3>1, <3>2
    <3>4. did \in Runs /\ did.refused = "none" /\ did.last \in {"silent", "accepted"}
      BY <1>1, <1>2, <1>3, <3>2 DEF Runs, Words
    <3> QED  BY <1>0, <1>5, <3>3, <3>4, RanKeeps
  <2>3. CASE \E rom \in all : \E again \in {{}, {rom}}, last \in {"silent", "accepted"} :
               Ran([NoRun EXCEPT !.reached = all, !.failed = {rom}, !.again = again, !.last = last], {})
    <3>1. PICK rom \in all : \E again \in {{}, {rom}}, last \in {"silent", "accepted"} :
            Ran([NoRun EXCEPT !.reached = all, !.failed = {rom}, !.again = again, !.last = last], {})
      BY <2>3
    <3>2. PICK again \in {{}, {rom}}, last \in {"silent", "accepted"} :
            Ran([NoRun EXCEPT !.reached = all, !.failed = {rom}, !.again = again, !.last = last], {})
      BY <3>1
    <3>3. PICK one \in RomSets : one = {rom}
      BY <1>5
    <3>4. again \in RomSets
      BY <1>2, <3>2, <3>3
    <3>5. PICK did : did = [empty EXCEPT !.reached = all, !.failed = one, !.again = again, !.last = last]
      OBVIOUS
    <3>6. Ran(did, none)
      BY <1>2, <1>4, <3>2, <3>3, <3>5
    <3>7. did \in Runs /\ did.refused = "none" /\ did.last \in {"silent", "accepted"}
      BY <1>1, <1>2, <1>3, <3>2, <3>4, <3>5 DEF Runs, Words
    <3> QED  BY <1>0, <1>2, <3>6, <3>7, RanKeeps
  <2> QED  BY <1>1, <1>6, <2>1, <2>2, <2>3 DEF ExecuteAll
<1>7. CASE ExecuteStops
  <2>1. CASE \E rom \in all, error \in {"unauthorized", "forbidden"} : \E reached \in {s \in SUBSET all : rom \in s} :
               Ran([NoRun EXCEPT !.refused = error, !.failed = {rom}, !.again = {rom},
                                 !.reached = reached, !.last = AnswerOf(error)], {})
    <3>1. PICK rom \in all, error \in {"unauthorized", "forbidden"} :
            \E reached \in {s \in SUBSET all : rom \in s} :
               Ran([NoRun EXCEPT !.refused = error, !.failed = {rom}, !.again = {rom},
                                 !.reached = reached, !.last = AnswerOf(error)], {})
      BY <2>1
    <3>2. PICK reached \in SUBSET all :
            Ran([NoRun EXCEPT !.refused = error, !.failed = {rom}, !.again = {rom},
                              !.reached = reached, !.last = AnswerOf(error)], {})
      BY <3>1
    <3>3. PICK last \in Words : last = AnswerOf(error)
      BY <3>1, WordIs DEF Words
    <3>4. PICK one \in RomSets : one = {rom}
      BY <1>5
    <3>5. PICK did : did = [empty EXCEPT !.refused = error, !.failed = one, !.again = one,
                                         !.reached = reached, !.last = last]
      OBVIOUS
    <3>6. Ran(did, none)
      BY <1>2, <1>4, <3>2, <3>3, <3>4, <3>5
    <3>7. reached \in RomSets
      BY <1>1, <3>2 DEF RomSets
    <3>8. did \in Runs /\ did.refused = error /\ did.last = last
      BY <1>2, <1>3, <3>1, <3>3, <3>4, <3>5, <3>7 DEF Runs
    <3> QED  BY <1>0, <1>2, <3>1, <3>3, <3>6, <3>8, RanKeeps
  <2>2. CASE \E reached \in SUBSET all : Ran([NoRun EXCEPT !.canceled = TRUE, !.reached = reached], {})
    <3>1. PICK reached \in SUBSET all : Ran([NoRun EXCEPT !.canceled = TRUE, !.reached = reached], {})
      BY <2>2
    <3>2. PICK did : did = [empty EXCEPT !.canceled = TRUE, !.reached = reached]
      OBVIOUS
    <3>3. Ran(did, none)
      BY <1>2, <1>4, <3>1, <3>2
    <3>4. reached \in RomSets
      BY <1>1, <3>1 DEF RomSets
    <3>5. did \in Runs /\ did.refused = "none" /\ did.last = "silent"
      BY <1>2, <1>3, <3>2, <3>4 DEF Runs, Words
    <3> QED  BY <1>0, <1>2, <3>3, <3>5, RanKeeps
  <2> QED  BY <1>1, <1>7, <2>1, <2>2 DEF ExecuteStops
<1> QED  BY <1>6, <1>7

(* What a plan's end makes of it.                                           *)
LEMMA AfterIs ==
    ASSUME NEW did \in Runs, NEW stored \in BOOLEAN, NEW reported \in CompleteErrors \cup {"canceled"},
           NEW o, o = OutcomeAfter(did, stored, reported)
    PROVE  /\ o \in Landed \cup {"unauthorized", "canceled"}
           /\ o = "completed" => stored /\ reported \in {"none", "gone"} /\ did.failed = {}
           /\ o = "unreported" => stored /\ reported \notin {"none", "gone"}
           /\ o \in Landed => did.refused = "none" /\ reported \notin {"unauthorized", "forbidden"}
<1> QED  BY DEF OutcomeAfter, Landed, Runs

(* A plan's finish: the baseline's write and the completion, then the next. *)
LEMMA PlanFinishedKeeps ==
    ASSUME TickInv, round.at = "finish", NEW stored \in BOOLEAN, NEW reported \in CompleteErrors \cup {"canceled"},
           round' = PlanFinished(stored, reported), turns' \in 0 .. MaxTurns,
           UNCHANGED <<outside, between, cancel, playing>>
    PROVE  TickInv'
<1>0. /\ round \in Round /\ round.run \in Runs /\ round.outcome \in Landed /\ round.plans \in Nat
      /\ round.answer \in {"silent", "accepted"} /\ round.unstored \in BOOLEAN /\ round.unreported \in BOOLEAN
      /\ round.run.refused \in {"none", "unauthorized", "forbidden"}
      /\ IF round.run.refused = "none"
         THEN round.word = "accepted" /\ round.run.last \in {"silent", "accepted"}
         ELSE round.word = AnswerOf(round.run.refused) /\ round.run.last = round.word
  BY TickParts DEF TickInv, OutcomeFollows, WordFollows, Round, Runs
<1>1. PICK o : o = OutcomeAfter(round.run, stored, reported)
  OBVIOUS
<1>2. /\ o \in Landed \cup {"unauthorized", "canceled"}
      /\ o = "completed" => stored /\ reported \in {"none", "gone"} /\ round.run.failed = {}
      /\ o = "unreported" => stored /\ reported \notin {"none", "gone"}
      /\ o \in Landed => round.run.refused = "none" /\ reported \notin {"unauthorized", "forbidden"}
  BY <1>0, <1>1, AfterIs
<1>3. PICK outcome : outcome = Worse(round.outcome, o)
  OBVIOUS
<1>4. /\ outcome \in {round.outcome, o} /\ outcome \in Outcomes
      /\ outcome = "completed" => round.outcome = "completed" /\ o = "completed"
      /\ round.outcome = "completed" => outcome = o
      /\ o \notin Landed => outcome = o
  BY <1>0, <1>2, <1>3, WorseIs
<1>5. PICK told \in Words : told = AnswerOf(reported)
  <2>1. reported \in {"none", "gone", "unauthorized", "forbidden", "unreachable", "rejected", "canceled"}
    BY DEF CompleteErrors
  <2> QED  BY <2>1, WordIs DEF Words
<1>6. reported \notin {"unauthorized", "forbidden"} => told \in {"accepted", "silent"}
  <2>1. reported \in {"none", "gone", "unauthorized", "forbidden", "unreachable", "rejected", "canceled"}
    BY DEF CompleteErrors
  <2> QED  BY <1>5, <2>1, WordIs
<1>7. PICK answer : answer = AnswerAfter(round.run, reported)
  OBVIOUS
<1>8. answer = IF told # "silent" THEN told ELSE IF round.run.last # "silent" THEN round.run.last ELSE "accepted"
  BY <1>5, <1>7, WordIs DEF AnswerAfter
<1>9. PICK word : word = IF told = "silent" THEN round.word ELSE told
  OBVIOUS
<1>10. /\ answer \in Words /\ word \in Words /\ answer # "silent"
       /\ answer = word \/ {answer, word} \subseteq {"silent", "accepted"}
       /\ o \in Landed => answer = "accepted" /\ word = "accepted"
  <2>1. round.run.refused # "none" => round.word \in {"rejected", "forbidden"}
    BY <1>0, WordIs
  <2> QED  BY <1>0, <1>2, <1>5, <1>6, <1>8, <1>9, <2>1 DEF Words
<1>11. PICK unstored \in BOOLEAN, unreported \in BOOLEAN :
         /\ unstored = (round.unstored \/ ~stored)
         /\ unreported = (round.unreported \/ reported \notin {"none", "gone"})
  BY <1>0
<1>12. PICK plans \in Nat : plans = round.plans + 1
  BY <1>0
<1>13. PICK done : done = [round EXCEPT !.at = "next", !.plans = plans, !.outcome = outcome, !.answer = answer,
                                        !.word = word, !.unstored = unstored, !.unreported = unreported]
  OBVIOUS
<1>14. /\ done \in Round /\ done.at = "next" /\ done.plans = plans /\ done.outcome = outcome
       /\ done.answer = answer /\ done.word = word
       /\ done.pending = round.pending /\ done.scoped = round.scoped /\ done.scope = round.scope
       /\ done.unasked = round.unasked /\ done.oversized = round.oversized /\ done.restoring = round.restoring
       /\ done.planned = round.planned /\ done.failures = round.failures
       /\ done.unstored = unstored /\ done.unreported = unreported
  <2>1. PICK r : r = [round EXCEPT !.at = "next", !.plans = plans, !.outcome = outcome, !.answer = answer,
                                   !.word = word]
    OBVIOUS
  <2>2. /\ r \in Round /\ r.at = "next" /\ r.plans = plans /\ r.outcome = outcome
        /\ r.answer = answer /\ r.word = word
        /\ r.pending = round.pending /\ r.scoped = round.scoped /\ r.scope = round.scope
        /\ r.unasked = round.unasked /\ r.oversized = round.oversized /\ r.restoring = round.restoring
        /\ r.planned = round.planned /\ r.failures = round.failures
    BY <1>0, <1>4, <1>10, <2>1 DEF Round, Stages
  <2>3. PICK s : s = [r EXCEPT !.unstored = unstored]
    OBVIOUS
  <2>4. s \in Round
    BY <2>2, <2>3 DEF Round
  <2>5. /\ s.unstored = unstored /\ s.at = "next" /\ s.plans = plans /\ s.outcome = outcome
        /\ s.answer = answer /\ s.word = word
        /\ s.pending = round.pending /\ s.scoped = round.scoped /\ s.scope = round.scope
        /\ s.unasked = round.unasked /\ s.oversized = round.oversized /\ s.restoring = round.restoring
        /\ s.planned = round.planned /\ s.failures = round.failures
    BY <2>2, <2>3 DEF Round
  <2>6. done = [s EXCEPT !.unreported = unreported]
    BY <1>0, <1>13, <2>1, <2>3 DEF Round
  <2>7. done \in Round
    BY <2>4, <2>6 DEF Round
  <2>8. done.unreported = unreported
    BY <2>4, <2>6 DEF Round
  <2>9. /\ done.at = s.at /\ done.plans = s.plans /\ done.outcome = s.outcome
        /\ done.answer = s.answer /\ done.word = s.word /\ done.unstored = s.unstored
        /\ done.pending = s.pending /\ done.scoped = s.scoped /\ done.scope = s.scope
        /\ done.unasked = s.unasked /\ done.oversized = s.oversized /\ done.restoring = s.restoring
        /\ done.planned = s.planned /\ done.failures = s.failures
    BY <2>4, <2>6 DEF Round
  <2> QED  BY <2>5, <2>7, <2>8, <2>9
<1>15. round' = IF o \in {"unauthorized", "canceled"} THEN StoppedHere(done) ELSE done
  <2>1. PlanFinished(stored, reported) =
          IF o \in {"unauthorized", "canceled"}
          THEN StoppedHere([round EXCEPT !.at = "next", !.plans = @ + 1, !.outcome = Worse(@, o),
                    !.answer = IF answer = "silent" THEN @ ELSE answer,
                    !.word = IF told = "silent" THEN @ ELSE told,
                    !.unstored = @ \/ ~stored,
                    !.unreported = @ \/ reported \notin {"none", "gone"}])
          ELSE [round EXCEPT !.at = "next", !.plans = @ + 1, !.outcome = Worse(@, o),
                    !.answer = IF answer = "silent" THEN @ ELSE answer,
                    !.word = IF told = "silent" THEN @ ELSE told,
                    !.unstored = @ \/ ~stored,
                    !.unreported = @ \/ reported \notin {"none", "gone"}]
    BY <1>1, <1>5, <1>7, Zenon DEF PlanFinished
  <2>2. done = [round EXCEPT !.at = "next", !.plans = @ + 1, !.outcome = Worse(@, o),
                    !.answer = IF answer = "silent" THEN @ ELSE answer,
                    !.word = IF told = "silent" THEN @ ELSE told,
                    !.unstored = @ \/ ~stored,
                    !.unreported = @ \/ reported \notin {"none", "gone"}]
    BY <1>3, <1>9, <1>10, <1>11, <1>12, <1>13, Zenon
  <2> QED  BY <2>1, <2>2
<1>16. UNCHANGED <<weight, present, saved, fresh, said, ticked, cancel, playing>>
  BY DEF outside, between
<1>17. CASE o \in {"unauthorized", "canceled"}
  <2>1. round' = StoppedHere(done)
    BY <1>15, <1>17
  <2>2. TickTyped' /\ FreshIsInScope' /\ ScopeIsParted' /\ WholeIsPlanned'
    BY <1>14, <1>16, <2>1, StopKeeps
  <2>3. /\ round'.at = "end" /\ round'.plans = plans /\ round'.outcome = outcome
        /\ round'.answer = answer /\ round'.word = word
    BY <1>14, <2>1, StoppedIs
  <2>4. outcome \in {"unauthorized", "canceled"}
    BY <1>4, <1>17 DEF Landed
  <2>5. OutcomeFollows' /\ WordFollows'
    BY <1>10, <2>3, <2>4 DEF OutcomeFollows, WordFollows
  <2> QED  BY <2>2, <2>5 DEF TickInv
<1>18. CASE o \notin {"unauthorized", "canceled"}
  <2>1. round' = done /\ o \in Landed
    BY <1>2, <1>15, <1>18
  <2>2. /\ TickTyped' /\ (fresh \subseteq present)'
    BY <1>14, <2>1, TickFrame
  <2>3. FreshIsInScope' /\ WholeIsPlanned'
    BY <1>14, <1>16, <2>1, <2>2 DEF TickInv, FreshIsInScope, WholeIsPlanned, Busy, Over
  <2>4. ScopeIsParted'
    <3>1. Ahead' = Ahead
      BY <1>14, <2>1, TickParts DEF Ahead
    <3> QED  BY <1>14, <1>16, <2>1, <3>1 DEF TickInv, ScopeIsParted, Busy, Over, Apart, Carrying
  <2>5. OutcomeFollows'
    <3>1. plans # 0 /\ (plans = 1 => round.plans = 0) /\ outcome \in Landed
      BY <1>0, <1>4, <1>12, <2>1
    <3>2. outcome = "completed" => ~unstored /\ ~unreported /\ ~round.failures
      BY <1>2, <1>4, <1>11 DEF TickInv, OutcomeFollows
    <3>3. round.unasked \subseteq round.oversized
      BY DEF TickInv, OutcomeFollows
    <3>4. outcome = "unreported" => unreported /\ (plans = 1 => ~unstored)
      <4>1. CASE o = "unreported"
        BY <1>2, <1>11, <3>1, <4>1 DEF TickInv, OutcomeFollows
      <4>2. CASE o # "unreported" /\ round.outcome = "unreported"
        BY <1>11, <3>1, <4>2 DEF TickInv, OutcomeFollows
      <4> QED  BY <1>4, <4>1, <4>2
    <3> QED  BY <1>14, <2>1, <3>1, <3>2, <3>3, <3>4 DEF OutcomeFollows, Landed
  <2>6. WordFollows'
    <3>1. plans # 0
      BY <1>0, <1>12
    <3> QED  BY <1>10, <1>14, <2>1, <3>1 DEF WordFollows
  <2> QED  BY <2>2, <2>3, <2>4, <2>5, <2>6 DEF TickInv
<1> QED  BY <1>17, <1>18

LEMMA FinishPlanKeeps ==
    ASSUME TickInv, FinishPlan
    PROVE  TickInv'
<1>1. PICK stored \in BOOLEAN, reported \in CompleteErrors \cup {"canceled"} : round' = PlanFinished(stored, reported)
  BY DEF FinishPlan, CompleteErrors
<1>2. /\ round.at = "finish" /\ turns' \in 0 .. MaxTurns /\ UNCHANGED <<outside, between, cancel, playing>>
  BY TickParts DEF FinishPlan
<1> QED  BY <1>1, <1>2, PlanFinishedKeeps

(* A smaller set has no more roms.                                          *)
LEMMA FewerRoms ==
    ASSUME NEW a \in RomSets, NEW b \in RomSets, a \subseteq b, NEW n \in Nat, Cardinality(b) <= n
    PROVE  Cardinality(a) <= n
<1>1. IsFiniteSet(b) /\ Cardinality(b) \in Nat /\ Cardinality(a) \in Nat
  BY TickFacts
<1>2. Cardinality(a) <= Cardinality(b)
  BY <1>1, FS_Subset
<1> QED  BY <1>1, <1>2

(* The tick is over, and what it owes is kept.                              *)
LEMMA TickEndsKeeps ==
    ASSUME TickInv, TickEnds
    PROVE  TickInv'
<1>0. /\ round \in Round /\ round.at = "end" /\ round.outcome \in Outcomes /\ round.pending = <<>>
      /\ UNCHANGED <<weight, present, saved, playing, ticked, turns>> /\ cancel' = FALSE
      /\ fresh \in RomSets /\ said \in RomSets
  BY TickParts DEF TickEnds, outside, TickInv, FreshIsInScope
<1>1. PICK ended : ended = [round EXCEPT !.at = "idle",
                              !.outcome = IF round.oversized = {} THEN @
                                          ELSE IF @ \in DOMAIN Severity THEN Worse(@, "partial") ELSE @]
  OBVIOUS
<1>2. /\ round' = [ended EXCEPT !.met = IF Sweeps(ended) THEN {} ELSE @]
      /\ said' = EndTick(ended) /\ fresh' = StillFresh(ended)
  BY <1>1 DEF TickEnds
<1>3. PICK outcome : outcome = IF round.oversized = {} THEN round.outcome
                               ELSE IF round.outcome \in DOMAIN Severity THEN Worse(round.outcome, "partial")
                               ELSE round.outcome
  OBVIOUS
<1>4. outcome \in {round.outcome, "partial"} /\ outcome \in Outcomes
      /\ (outcome = "completed" => round.outcome = "completed" /\ round.oversized = {})
  <2>1. Worse(round.outcome, "partial") \in {round.outcome, "partial"}
    BY Zenon DEF Worse
  <2>2. "partial" \in Outcomes /\ "completed" \in DOMAIN Severity
    BY DEF Outcomes, Landed, Severity
  <2>3. Worse("completed", "partial") = "partial"
    BY DEF Worse, Severity
  <2> QED  BY <1>0, <1>3, <2>1, <2>2, <2>3
<1>5. ended = [round EXCEPT !.at = "idle", !.outcome = outcome]
  BY <1>1, <1>3, Zenon
<1>6. /\ ended \in Round /\ ended.at = "idle" /\ ended.outcome = outcome
      /\ ended.pending = round.pending /\ ended.scoped = round.scoped /\ ended.scope = round.scope
      /\ ended.plans = round.plans /\ ended.answer = round.answer /\ ended.word = round.word
      /\ ended.unasked = round.unasked /\ ended.oversized = round.oversized /\ ended.met = round.met
      /\ ended.restoring = round.restoring /\ ended.planned = round.planned /\ ended.again = round.again
      /\ ended.failures = round.failures
      /\ ended.unstored = round.unstored /\ ended.unreported = round.unreported
  BY <1>0, <1>4, <1>5 DEF Round, Stages
<1>7. PICK met \in RomSets : met = IF Sweeps(ended) THEN {} ELSE ended.met
  <2>1. ended.met \in RomSets /\ {} \in RomSets
    BY <1>6 DEF Round, RomSets
  <2> QED  BY <2>1
<1>8. round' = [ended EXCEPT !.met = met]
  BY <1>2, <1>7, Zenon
<1>9. /\ round' \in Round /\ round'.at = "idle" /\ round'.outcome = outcome
      /\ round'.pending = round.pending /\ round'.scoped = round.scoped /\ round'.scope = round.scope
      /\ round'.plans = round.plans /\ round'.answer = round.answer /\ round'.word = round.word
      /\ round'.unasked = round.unasked /\ round'.oversized = round.oversized
      /\ round'.restoring = round.restoring /\ round'.planned = round.planned
      /\ round'.failures = round.failures
      /\ round'.unstored = round.unstored /\ round'.unreported = round.unreported
  BY <1>6, <1>7, <1>8 DEF Round
<1>10. fresh' \subseteq fresh /\ said' \subseteq said
  BY <1>2 DEF EndTick, StillFresh
<1>11. /\ fresh' \in RomSets /\ said' \in RomSets
       /\ Cardinality(fresh') <= kMaxNegotiateRomIds /\ Cardinality(said') <= kMaxDeclines
  <2>1. fresh' \in RomSets /\ said' \in RomSets
    BY <1>0, <1>10 DEF RomSets
  <2> QED  BY <1>0, <1>10, <2>1, TickFacts, FewerRoms DEF TickInv, TickTyped
<1>12. TickTyped' /\ FreshIsInScope' /\ WholeIsPlanned'
  BY <1>0, <1>9, <1>10, <1>11 DEF TickInv, TickTyped, FreshIsInScope, WholeIsPlanned, Busy, Over
<1>13. ScopeIsParted'
  <2>1. Ahead' = Ahead
    BY <1>0, <1>9, TickParts DEF Ahead
  <2> QED  BY <1>0, <1>9, <2>1 DEF TickInv, ScopeIsParted, Busy, Over, Apart, Carrying
<1>14. OutcomeFollows'
  <2>1. round.plans > 0 /\ round.outcome = "completed" =>
          round.unasked \subseteq round.oversized /\ ~round.unstored /\ ~round.unreported /\ ~round.failures
    BY <1>0 DEF TickInv, OutcomeFollows
  <2>2. /\ round.outcome = "unreported" => round.unreported /\ (round.plans = 1 => ~round.unstored)
        /\ round.outcome \in {"offline", "refused", "server_disabled"} => round.plans = 0
    BY DEF TickInv, OutcomeFollows
  <2>3. round.plans > 0 /\ outcome = "completed" =>
          round.unasked = {} /\ ~round.unstored /\ ~round.unreported /\ ~round.failures
    BY <1>4, <2>1
  <2>4. /\ outcome = "unreported" => round.unreported /\ (round.plans = 1 => ~round.unstored)
        /\ outcome \in {"offline", "refused", "server_disabled"} => round.plans = 0
    BY <1>4, <2>2
  <2> QED  BY <1>9, <2>3, <2>4 DEF OutcomeFollows
<1>15. WordFollows'
  BY <1>0, <1>9 DEF TickInv, WordFollows
<1> QED  BY <1>12, <1>13, <1>14, <1>15 DEF TickInv

(* A tick as it sets out.                                                   *)
SetsOut(r, scoped, chunks, restoring) ==
    /\ r \in Round /\ r.at = "next" /\ r.scoped = scoped /\ r.scope = present \cup saved
    /\ r.pending = chunks /\ r.plans = 0 /\ r.outcome = "completed" /\ r.answer = "silent"
    /\ r.unasked = {} /\ r.oversized = {} /\ r.restoring = restoring /\ r.planned = {}
    /\ r.word = "silent" /\ r.unstored = FALSE /\ r.unreported = FALSE /\ r.failures = FALSE

LEMMA BegunIs ==
    ASSUME present \in RomSets, saved \in RomSets
    PROVE  \A scoped \in BOOLEAN, chunks \in Seq(Chunks), restoring \in RomSets :
             SetsOut(Begun(scoped, chunks, restoring), scoped, chunks, restoring)
<1>0. SUFFICES ASSUME NEW scoped \in BOOLEAN, NEW chunks \in Seq(Chunks), NEW restoring \in RomSets,
                      NEW r, r = Begun(scoped, chunks, restoring)
               PROVE  SetsOut(r, scoped, chunks, restoring)
  BY Zenon
<1>1. PICK none \in RomSets : none = {}
  BY DEF RomSets
<1>2. PICK scope \in RomSets : scope = present \cup saved
  BY DEF RomSets
<1>3. PICK chunk \in Chunks : chunk = NoChunk
  <2>1. PICK c : c = [roms |-> none, carries |-> none, restore |-> FALSE]
    OBVIOUS
  <2>2. c \in Chunks
    BY <1>1, <2>1 DEF Chunks
  <2> QED  BY <1>1, <2>1, <2>2 DEF NoChunk, Chunk
<1>4. PICK did \in Runs : did = NoRun
  <2>1. PICK d : d = [canceled |-> FALSE, refused |-> "none", failed |-> none, again |-> none,
                      reached |-> none, last |-> "silent"]
    OBVIOUS
  <2>2. d \in Runs
    BY <1>1, <2>1 DEF Runs, Words
  <2> QED  BY <1>1, <2>1, <2>2 DEF NoRun
<1>5. r = [at |-> "next", scoped |-> scoped, scope |-> scope,
           pending |-> chunks, chunk |-> chunk, tries |-> 0, run |-> did,
           plans |-> 0, asks |-> 0, outcome |-> "completed", answer |-> "silent", unasked |-> none,
           oversized |-> none, held |-> FALSE, again |-> none, met |-> none,
           restoring |-> restoring, planned |-> none, word |-> "silent", unstored |-> FALSE,
           unreported |-> FALSE, unreached |-> none, failures |-> FALSE]
  BY <1>0, <1>1, <1>2, <1>3, <1>4 DEF Begun
<1>6. "next" \in Stages /\ "completed" \in Outcomes /\ "silent" \in Words
  BY DEF Stages, Outcomes, Landed, Words
<1>7. r \in Round
  BY <1>1, <1>2, <1>3, <1>4, <1>5, <1>6 DEF Round
<1> QED  BY <1>1, <1>2, <1>5, <1>7 DEF SetsOut

(* A tick begins, or ends before it asks anything.                          *)
LEMMA TickBeginsKeeps ==
    ASSUME TickInv, TickBegins \/ TickEndsEarly
    PROVE  TickInv'
<1>0. /\ round \in Round /\ round.at = "idle" /\ round.met \in RomSets
      /\ present \in RomSets /\ saved \in RomSets /\ fresh \in RomSets /\ fresh \subseteq present
      /\ UNCHANGED <<weight, present, saved, fresh, said, cancel, playing, turns>>
      /\ ticked' \in 0 .. MaxTicks
  <2>1. ticked' \in 0 .. MaxTicks
    <3>1. ticked \in 0 .. MaxTicks /\ MaxTicks \in Nat
      BY TickFacts DEF TickInv, TickTyped
    <3>2. ticked < MaxTicks /\ ticked' = ticked + 1
      BY Zenon DEF TickBegins, TickEndsEarly
    <3> QED  BY <3>1, <3>2
  <2> QED  BY <2>1, TickParts DEF TickBegins, TickEndsEarly, outside, Round, TickInv, FreshIsInScope
<1>1. PICK none \in RomSets : none = {}
  BY DEF RomSets
<1>2. TickTyped' <=> round' \in Round
  BY <1>0 DEF TickInv, TickTyped
<1>3. ASSUME NEW scoped \in BOOLEAN, NEW chunks \in Seq(Chunks), scoped => RomsIn(chunks) = present \cup saved,
             scoped => Apart(chunks) /\ Carrying(chunks),
             round' = [Begun(scoped, chunks, fresh) EXCEPT !.met = round.met]
      PROVE  TickInv'
  <2>1. PICK begun : begun = Begun(scoped, chunks, fresh)
    OBVIOUS
  <2>2. SetsOut(begun, scoped, chunks, fresh)
    BY <1>0, <1>3, <2>1, BegunIs, Zenon
  <2>3. round' = [begun EXCEPT !.met = round.met]
    BY <1>3, <2>1
  <2>4. /\ round' \in Round /\ round'.at = "next" /\ round'.scoped = scoped /\ round'.scope = present \cup saved
        /\ round'.pending = chunks /\ round'.plans = 0 /\ round'.outcome = "completed" /\ round'.answer = "silent"
        /\ round'.unasked = {} /\ round'.oversized = {} /\ round'.restoring = fresh /\ round'.planned = {}
        /\ round'.word = "silent" /\ round'.unstored = FALSE /\ round'.unreported = FALSE /\ round'.failures = FALSE
    BY <1>0, <2>2, <2>3 DEF Round, SetsOut
  <2>5. FreshIsInScope' /\ WholeIsPlanned'
    BY <1>0, <2>4 DEF FreshIsInScope, WholeIsPlanned, Busy, Over
  <2>6. OutcomeFollows' /\ WordFollows'
    BY <2>4 DEF OutcomeFollows, WordFollows, Landed
  <2>7. Ahead' = RomsIn(chunks)
    BY <2>4 DEF Ahead
  <2>8. ScopeIsParted'
    BY <1>0, <1>3, <2>4, <2>7 DEF ScopeIsParted, Apart, Carrying
  <2> QED  BY <1>2, <2>4, <2>5, <2>6, <2>8 DEF TickInv
<1>4. CASE TickBegins
  <2>1. CASE round' = [Begun(FALSE, <<NoChunk>>, fresh) EXCEPT !.met = round.met]
    <3>1. PICK chunk \in Chunks : chunk = NoChunk
      <4>1. PICK c : c = [roms |-> none, carries |-> none, restore |-> FALSE]
        OBVIOUS
      <4>2. c \in Chunks
        BY <1>1, <4>1 DEF Chunks
      <4> QED  BY <1>1, <4>1, <4>2 DEF NoChunk, Chunk
    <3>2. <<NoChunk>> \in Seq(Chunks)
      BY <3>1, OneChunk
    <3> QED  BY <1>3, <2>1, <3>2
  <2>2. ASSUME NEW restoring \in {fresh, {}},
               round' = [Begun(TRUE, ChunkScope(saved, present, restoring), fresh) EXCEPT !.met = round.met]
        PROVE  TickInv'
    <3>1. restoring \in RomSets /\ present \cup saved \cup restoring = present \cup saved
      BY <1>0, <1>1, <2>2
    <3>2. PICK chunks : chunks = ChunkScope(saved, present, restoring)
      OBVIOUS
    <3>3. /\ chunks \in Seq(Chunks) /\ RomsIn(chunks) = present \cup saved /\ Apart(chunks) /\ Carrying(chunks)
      BY <1>0, <3>1, <3>2, ScopeIs
    <3> QED  BY <1>3, <2>2, <3>2, <3>3
  <2>3. \/ round' = [Begun(FALSE, <<NoChunk>>, fresh) EXCEPT !.met = round.met]
        \/ \E restoring \in {fresh, {}} :
             round' = [Begun(TRUE, ChunkScope(saved, present, restoring), fresh) EXCEPT !.met = round.met]
    BY <1>4, Zenon DEF TickBegins
  <2> QED  BY <2>1, <2>2, <2>3
<1>5. CASE TickEndsEarly
  <2>1. PICK outcome \in Early :
          round' = [Begun(TRUE, <<>>, {}) EXCEPT !.at = "idle", !.scope = {}, !.outcome = outcome, !.met = round.met]
    BY <1>5 DEF TickEndsEarly, Early
  <2>2. PICK begun : begun = Begun(TRUE, <<>>, {})
    OBVIOUS
  <2>3. /\ begun \in Round /\ begun.pending = <<>> /\ begun.plans = 0 /\ begun.answer = "silent"
        /\ begun.word = "silent"
    <3>1. PICK none0 \in Seq(Chunks) : none0 = <<>>
      BY EmptySeq
    <3>2. PICK yes \in BOOLEAN : yes = TRUE
      OBVIOUS
    <3>3. begun = Begun(yes, none0, none)
      BY <1>1, <2>2, <3>1, <3>2
    <3>4. SetsOut(begun, yes, none0, none)
      BY <1>0, <3>3, BegunIs, Zenon
    <3> QED  BY <3>1, <3>4 DEF SetsOut
  <2>4. round' = [begun EXCEPT !.at = "idle", !.scope = none, !.outcome = outcome, !.met = round.met]
    BY <1>1, <2>1, <2>2
  <2>5. outcome \in Outcomes /\ outcome \notin {"completed", "unreported", "offline", "refused", "server_disabled"}
    BY <2>1 DEF Outcomes, Early
  <2>6. /\ round' \in Round /\ round'.at = "idle" /\ round'.outcome = outcome
        /\ round'.pending = <<>> /\ round'.plans = 0 /\ round'.answer = "silent" /\ round'.word = "silent"
    BY <1>0, <1>1, <2>3, <2>4, <2>5 DEF Round, Stages
  <2>7. FreshIsInScope' /\ WholeIsPlanned' /\ ScopeIsParted' /\ OutcomeFollows' /\ WordFollows'
    BY <1>0, <2>5, <2>6
    DEF FreshIsInScope, WholeIsPlanned, ScopeIsParted, OutcomeFollows, WordFollows, Busy, Over
  <2> QED  BY <1>2, <2>6, <2>7 DEF TickInv
<1> QED  BY <1>4, <1>5

(* Adding one rom to a list with room keeps it within its bound.            *)
LEMMA OneMoreRom ==
    ASSUME NEW roms \in RomSets, NEW rom \in LibraryRoms
    PROVE  roms \cup {rom} \in RomSets /\ Cardinality(roms \cup {rom}) <= Cardinality(roms) + 1
<1>1. IsFiniteSet(roms) /\ Cardinality(roms) \in Nat
  BY TickFacts
<1>2. Cardinality(roms \cup {rom}) = IF rom \in roms THEN Cardinality(roms) ELSE Cardinality(roms) + 1
  BY <1>1, FS_AddElement
<1> QED  BY <1>1, <1>2 DEF RomSets

(* What happens around a tick leaves its own record alone.                  *)
LEMMA AroundKeeps ==
    ASSUME TickInv, DownloadArrives \/ ServerReplaced \/ CancelFires \/ GameStarts \/ GameStops
    PROVE  TickInv'
<1>0. /\ round' = round /\ saved' = saved /\ weight' = weight /\ said' = said /\ ticked' = ticked
      /\ present \in RomSets /\ fresh \in RomSets /\ fresh \subseteq present
      /\ Cardinality(fresh) <= kMaxNegotiateRomIds
  BY DEF DownloadArrives, ServerReplaced, CancelFires, GameStarts, GameStops, outside, between,
         TickInv, TickTyped, FreshIsInScope
<1>1. turns' \in 0 .. MaxTurns
  <2>1. turns \in 0 .. MaxTurns /\ MaxTurns \in Nat
    BY TickFacts DEF TickInv, TickTyped
  <2>2. turns' = turns \/ (turns < MaxTurns /\ turns' = turns + 1)
    BY Zenon DEF DownloadArrives, ServerReplaced, CancelFires, GameStarts, GameStops, Turn
  <2> QED  BY <2>1, <2>2
<1>2. cancel' \in BOOLEAN /\ playing' \in BOOLEAN
  <2>1. cancel \in BOOLEAN /\ playing \in BOOLEAN
    BY Zenon DEF TickInv, TickTyped
  <2>2. (cancel' = cancel \/ cancel' = TRUE) /\ (playing' = playing \/ playing' = TRUE \/ playing' = FALSE)
    BY Zenon DEF DownloadArrives, ServerReplaced, CancelFires, GameStarts, GameStops, between
  <2> QED  BY <2>1, <2>2, Zenon
<1>3. /\ present' \in RomSets /\ fresh' \in RomSets /\ fresh' \subseteq present'
      /\ Cardinality(fresh') <= kMaxNegotiateRomIds
  <2>1. CASE DownloadArrives
    <3>1. PICK rom \in LibraryRoms :
            /\ present' = present \cup {rom}
            /\ fresh' = IF Cardinality(fresh) < kMaxNegotiateRomIds THEN fresh \cup {rom} ELSE fresh
      BY <2>1 DEF DownloadArrives
    <3>2. PICK more \in RomSets : more = fresh \cup {rom} /\ Cardinality(more) <= Cardinality(fresh) + 1
      BY <1>0, OneMoreRom
    <3>3. Cardinality(fresh) \in Nat /\ kMaxNegotiateRomIds \in Nat /\ Cardinality(more) \in Nat
      BY <1>0, TickFacts
    <3>4. fresh' = IF Cardinality(fresh) < kMaxNegotiateRomIds THEN more ELSE fresh
      BY <3>1, <3>2
    <3>5. Cardinality(fresh') <= kMaxNegotiateRomIds
      BY <1>0, <3>2, <3>3, <3>4
    <3> QED  BY <1>0, <3>1, <3>2, <3>4, <3>5 DEF RomSets
  <2>2. CASE ServerReplaced
    <3>1. present' = present /\ fresh' = {}
      BY <2>2 DEF ServerReplaced, outside
    <3>2. Cardinality(fresh') = 0 /\ kMaxNegotiateRomIds \in Nat
      BY <3>1, FS_EmptySet, TickFacts
    <3> QED  BY <1>0, <3>1, <3>2 DEF RomSets
  <2>3. CASE CancelFires \/ GameStarts \/ GameStops
    BY <1>0, <2>3 DEF CancelFires, GameStarts, GameStops, outside, between
  <2> QED  BY <2>1, <2>2, <2>3
<1>4. TickTyped'
  BY <1>0, <1>1, <1>2, <1>3 DEF TickInv, TickTyped
<1>5. FreshIsInScope'
  BY <1>0, <1>3 DEF TickInv, FreshIsInScope, Busy, Over
<1>6. ScopeIsParted'
  BY <1>0 DEF TickInv, ScopeIsParted, Busy, Over, Ahead, Apart, Carrying, RomsIn
<1>7. WholeIsPlanned' /\ OutcomeFollows' /\ WordFollows'
  BY <1>0 DEF TickInv, WholeIsPlanned, OutcomeFollows, WordFollows
<1> QED  BY <1>4, <1>5, <1>6, <1>7 DEF TickInv

(* A console as the first tick finds it.                                    *)
LEMMA TickBegun == TickInit => TickInv
<1> SUFFICES ASSUME TickInit PROVE TickInv
  OBVIOUS
<1>1. PICK none \in RomSets : none = {}
  BY DEF RomSets
<1>2. present \in RomSets /\ saved \in RomSets /\ fresh = none /\ said = none
  BY <1>1 DEF TickInit, RomSets
<1>3. PICK chunks \in Seq(Chunks) : chunks = <<>>
  BY EmptySeq
<1>4. PICK yes \in BOOLEAN : yes = TRUE
  OBVIOUS
<1>5. PICK begun : begun = Begun(yes, chunks, none)
  OBVIOUS
<1>6. SetsOut(begun, yes, chunks, none)
  BY <1>2, <1>5, BegunIs, Zenon
<1>7. round = [begun EXCEPT !.at = "idle", !.scope = none]
  BY <1>1, <1>3, <1>4, <1>5 DEF TickInit
<1>8. /\ round \in Round /\ round.at = "idle" /\ round.pending = <<>> /\ round.plans = 0
      /\ round.outcome = "completed" /\ round.answer = "silent" /\ round.word = "silent"
  BY <1>3, <1>6, <1>7 DEF SetsOut, Round, Stages
<1>9. weight \in [LibraryRoms -> Nat]
  <2>1. kMaxPlanOperations + 1 \in Nat
    BY TickFacts
  <2> QED  BY <2>1 DEF TickInit
<1>10. Cardinality(none) = 0
  BY <1>1, FS_EmptySet
<1>11. TickTyped
  <2>1. cancel = FALSE /\ playing = FALSE /\ ticked = 0 /\ turns = 0
    BY DEF TickInit
  <2>2. ticked \in 0 .. MaxTicks /\ turns \in 0 .. MaxTurns
    BY <2>1, TickFacts
  <2>3. Cardinality(fresh) <= kMaxNegotiateRomIds /\ Cardinality(said) <= kMaxDeclines
    BY <1>2, <1>10, TickFacts
  <2> QED  BY <1>2, <1>8, <1>9, <2>1, <2>2, <2>3 DEF TickTyped
<1>12. FreshIsInScope /\ ScopeIsParted /\ WholeIsPlanned /\ OutcomeFollows /\ WordFollows
  BY <1>1, <1>2, <1>8 DEF FreshIsInScope, ScopeIsParted, WholeIsPlanned, OutcomeFollows, WordFollows, Busy, Over
<1> QED  BY <1>11, <1>12 DEF TickInv

(* Each step of a tick keeps its invariant.                                 *)
LEMMA TickSteps == TickInv /\ [TickNext]_tickVars => TickInv'
<1> SUFFICES ASSUME TickInv, [TickNext]_tickVars PROVE TickInv'
  OBVIOUS
<1>1. CASE TickBegins \/ TickEndsEarly
  BY <1>1, TickBeginsKeeps
<1>2. CASE NextChunk
  BY <1>2, NextChunkKeeps
<1>3. CASE LastChunk
  BY <1>3, LastChunkKeeps
<1>4. CASE NegotiateFails \/ PlanTooLarge \/ PlanArrives
  BY <1>4, AskKeeps
<1>5. CASE ExecuteAll \/ ExecuteStops
  BY <1>5, ExecuteKeeps
<1>6. CASE FinishPlan
  BY <1>6, FinishPlanKeeps
<1>7. CASE TickEnds
  BY <1>7, TickEndsKeeps
<1>8. CASE DownloadArrives \/ ServerReplaced \/ CancelFires \/ GameStarts \/ GameStops
  BY <1>8, AroundKeeps
<1>9. CASE UNCHANGED tickVars
  BY <1>9 DEF tickVars, TickInv, TickTyped, FreshIsInScope, ScopeIsParted, WholeIsPlanned, OutcomeFollows,
              WordFollows, Busy, Over, Ahead, Apart, Carrying, RomsIn
<1> QED  BY <1>1, <1>2, <1>3, <1>4, <1>5, <1>6, <1>7, <1>8, <1>9 DEF TickNext

(* Whatever goes wrong on a tick, its invariant holds.                      *)
THEOREM TickInvariance == TickSpec => []TickInv
  BY TickBegun, TickSteps, PTL DEF TickSpec

(* Every rom of the scope is planned once or named as unasked, however the  *)
(* chunks were halved and whatever stopped the tick, and every save travels *)
(* with its rom (ChunkScope, Halve, stop).                                  *)
THEOREM NoRomIsPlannedTwice == TickSpec => []EveryRomOnce
<1>1. ASSUME TickInv PROVE EveryRomOnce
  <2>1. Over => Ahead = {}
    <3>1. round.at = "idle" => round.pending = <<>>
      BY <1>1 DEF TickInv, FreshIsInScope, Busy
    <3> QED  BY <3>1, NoChunks DEF Over, Ahead
  <2> QED  BY <1>1, <2>1 DEF TickInv, ScopeIsParted, EveryRomOnce, Apart, Carrying
<1> QED  BY <1>1, TickInvariance, PTL

(* A tick that says it completed did, and the only plan of one that says    *)
(* its report was lost has its baseline on the card; of a tick of several   *)
(* plans that says so it is not claimed (OutcomeAfter, Worse).              *)
THEOREM OutcomesAreTrue == TickSpec => []OutcomeIsTrue
<1>1. ASSUME TickInv PROVE OutcomeIsTrue
  <2>1. round \in Round
    BY <1>1 DEF TickInv, TickTyped
  <2> QED  BY <1>1, <2>1 DEF TickInv, OutcomeFollows, OutcomeIsTrue, Busy
<1> QED  BY <1>1, TickInvariance, PTL

(* The gate hears the last word on the token, and no other (AnswerAfter).   *)
THEOREM TheLastWordIsHeard == TickSpec => []GateHearsTheLastWord
<1>1. ASSUME TickInv PROVE GateHearsTheLastWord
  BY <1>1 DEF TickInv, WordFollows, GateHearsTheLastWord, Busy
<1> QED  BY <1>1, TickInvariance, PTL

(* Only the end of a tick leaves its last stage.                            *)
LEMMA OnlyEndsIdle ==
    ASSUME TickInv, [TickNext]_tickVars, round.at = "end", round'.at = "idle"
    PROVE  TickEnds
<1>1. CASE NextChunk \/ LastChunk \/ NegotiateFails \/ PlanTooLarge \/ PlanArrives \/ ExecuteAll
             \/ ExecuteStops \/ FinishPlan \/ TickBegins \/ TickEndsEarly
  BY <1>1 DEF NextChunk, LastChunk, NegotiateFails, PlanTooLarge, PlanArrives, ExecuteAll,
              ExecuteStops, FinishPlan, TickBegins, TickEndsEarly
<1>2. CASE DownloadArrives \/ ServerReplaced \/ CancelFires \/ GameStarts \/ GameStops \/ UNCHANGED tickVars
  BY <1>2 DEF DownloadArrives, ServerReplaced, CancelFires, GameStarts, GameStops, tickVars
<1> QED  BY <1>1, <1>2 DEF TickNext

(* What the lists let go of at a tick's end.                                *)
LEMMA OwedSteps == TickInv /\ [TickNext]_tickVars =>
    (round.at = "end" /\ round'.at = "idle" =>
       /\ fresh \ fresh' \subseteq round.planned \ round.again
       /\ said \ said' \subseteq LibraryRoms \ round.unasked)
<1> SUFFICES ASSUME TickInv, [TickNext]_tickVars, round.at = "end", round'.at = "idle"
             PROVE  /\ fresh \ fresh' \subseteq round.planned \ round.again
                    /\ said \ said' \subseteq LibraryRoms \ round.unasked
  OBVIOUS
<1>1. TickEnds
  BY OnlyEndsIdle
<1>2. /\ round \in Round /\ round.pending = <<>> /\ said \in RomSets
      /\ round.restoring \subseteq round.scope /\ round.scope \in RomSets
  BY DEF TickInv, TickTyped, FreshIsInScope, Busy, Round
<1>3. Ahead = {}
  BY <1>2, NoChunks DEF Ahead
<1>4. PICK ended : ended = [round EXCEPT !.at = "idle",
                              !.outcome = IF round.oversized = {} THEN @
                                          ELSE IF @ \in DOMAIN Severity THEN Worse(@, "partial") ELSE @]
  OBVIOUS
<1>5. said' = EndTick(ended) /\ fresh' = StillFresh(ended)
  BY <1>1, <1>4 DEF TickEnds
<1>6. PICK outcome : ended = [round EXCEPT !.at = "idle", !.outcome = outcome]
  BY <1>4, Zenon
<1>7. /\ ended.plans = round.plans /\ ended.restoring = round.restoring /\ ended.again = round.again
      /\ ended.unasked = round.unasked /\ ended.met = round.met
  BY <1>2, <1>6 DEF Round
<1>8. ASSUME NEW rom \in fresh \ fresh'
      PROVE  round.plans > 0 /\ rom \in round.restoring /\ rom \notin round.again /\ rom \notin round.unasked
  BY <1>5, <1>7 DEF StillFresh
<1>9. ASSUME NEW rom \in fresh \ fresh' PROVE rom \in round.planned
  <2>1. CASE round.scoped
    BY <1>2, <1>3, <1>8, <2>1 DEF TickInv, ScopeIsParted, Busy
  <2>2. CASE ~round.scoped
    BY <1>2, <1>8, <2>2 DEF TickInv, WholeIsPlanned, RomSets
  <2> QED  BY <2>1, <2>2
<1>10. ASSUME NEW rom \in said \ said' PROVE rom \notin round.unasked /\ rom \in LibraryRoms
  BY <1>2, <1>5, <1>7 DEF EndTick, RomSets
<1> QED  BY <1>8, <1>9, <1>10

(* What one tick owes the next stays on its lists: a rom just downloaded    *)
(* until a plan has come to it, a decline unless a plan came to its rom     *)
(* (RunSavesHalf, Declines::EndTick).                                       *)
THEOREM WhatIsOwedIsKept == TickSpec => OwedIsKept
<1>1. ASSUME TickInv, [TickNext]_tickVars
      PROVE  [round.at = "end" /\ round'.at = "idle" =>
                /\ fresh \ fresh' \subseteq round.planned \ round.again
                /\ said \ said' \subseteq LibraryRoms \ round.unasked]_tickVars
  BY <1>1, OwedSteps
<1> QED  BY <1>1, TickInvariance, PTL DEF TickSpec, OwedIsKept

-----------------------------------------------------------------------------
(* The console.                                                             *)

LEMMA ConsoleBegins == ConsoleInit => StateInit /\ PlayInit /\ WireInit /\ TickInit
  BY Zenon DEF ConsoleInit

(* Whatever one component does leaves the others' variables alone.          *)
LEMMA ConsoleStep ==
    ASSUME [ConsoleNext]_consoleVars
    PROVE  [StateNext]_stateVars /\ [PlayNext]_playVars /\ [WireNext]_wireVars /\ [TickNext]_tickVars
<1>1. StateNext \/ UNCHANGED stateVars
  BY Zenon DEF ConsoleNext, consoleVars
<1>2. PlayNext \/ UNCHANGED playVars
  BY Zenon DEF ConsoleNext, consoleVars
<1>3. WireNext \/ UNCHANGED wireVars
  BY Zenon DEF ConsoleNext, consoleVars
<1>4. TickNext \/ UNCHANGED tickVars
  BY Zenon DEF ConsoleNext, consoleVars
<1> QED  BY <1>1, <1>2, <1>3, <1>4

(* Nothing is thrown away for something lesser, in the console as a whole:  *)
(* a state is backed up before it is replaced, but for a write after the    *)
(* last comparison, and replaced on the server only by one who held it, but *)
(* for a post the listing did not show; a session leaves once answered for, *)
(* a download is put in place whole, and what a tick owes the next stays on *)
(* its lists (StateSync::Run, Reconcile, Download, RunSavesHalf,            *)
(* Declines::EndTick).                                                      *)
THEOREM NothingIsLost == ConsoleSpec => NothingIsThrownAway
<1>1. ConsoleSpec => StateSpec /\ PlaySpec /\ TickSpec /\ WireInit /\ [][WireNext]_wireVars
  BY ConsoleBegins, ConsoleStep, PTL DEF ConsoleSpec, StateSpec, PlaySpec, TickSpec
<1> QED
  BY <1>1, StatesAreBackedUp, StatesOverwriteTheirOwn, SessionsLeaveAnswered, WholeFilesLand, WhatIsOwedIsKept, PTL
  DEF NothingIsThrownAway

\* What holds of the one subject a run looks at, of those that rest in the others.
OverlooksInv == (subject = "scan" => ScanInv) /\ (subject = "index" => RomInv)

(* The subject is the one the run began with, and only it moves.            *)
LEMMA TheSubjectStays ==
    ASSUME [ConsoleNext]_consoleVars
    PROVE  /\ subject' = subject
           /\ subject = "scan" => [SaveScanNext]_scanVars
           /\ subject = "index" => [RomIndexNext]_indexVars
           /\ [StateDbNext]_dbVars
<1>1. subject' = subject
  BY Zenon DEF ConsoleNext, consoleVars
<1>2. SaveScanNext \/ UNCHANGED scanVars
  BY Zenon DEF ConsoleNext, consoleVars
<1>3. RomIndexNext \/ UNCHANGED indexVars
  BY Zenon DEF ConsoleNext, consoleVars
<1>4. StateDbNext \/ UNCHANGED dbVars
  BY Zenon DEF ConsoleNext, consoleVars
<1> QED  BY <1>1, <1>2, <1>3, <1>4

LEMMA OverlooksStep == OverlooksInv /\ [ConsoleNext]_consoleVars => OverlooksInv'
<1> SUFFICES ASSUME OverlooksInv, [ConsoleNext]_consoleVars PROVE OverlooksInv'
  OBVIOUS
<1>1. subject' = subject
  BY TheSubjectStays
<1>2. subject = "scan" => ScanInv'
  BY TheSubjectStays, ScanStep, Zenon DEF OverlooksInv
<1>3. subject = "index" => RomInv'
  BY TheSubjectStays, RomStep, Zenon DEF OverlooksInv
<1> QED  BY <1>1, <1>2, <1>3, Zenon DEF OverlooksInv

(* What a tick sets out from is what is there: the scan syncs the copy that *)
(* is played and names every save that stayed, an index that is not marked  *)
(* truncated has every rom that was there all along unless one was removed, *)
(* every rom of the scope is in one plan or named as not asked about, and a *)
(* baseline is read whole or as far as the heap holds it (ScanSaves,        *)
(* FetchRomIndex, ChunkScope, MakeRoom).                                    *)
THEOREM EverythingIsHeard == ConsoleSpec => []NothingIsOverlooked
<1>1. ConsoleInit => OverlooksInv
  <2> SUFFICES ASSUME ConsoleInit PROVE OverlooksInv
    OBVIOUS
  <2>1. (subject = "scan" => SaveScanInit) /\ (subject = "index" => RomIndexInit)
    BY Zenon DEF ConsoleInit
  <2> QED  BY <2>1, ScanInit, RomInit, Zenon DEF OverlooksInv
<1>2. ConsoleInit => StateDbInit
  BY Zenon DEF ConsoleInit
<1>3. [ConsoleNext]_consoleVars => [StateDbNext]_dbVars
  BY TheSubjectStays, Zenon
<1>4. ConsoleSpec => []OverlooksInv /\ TickSpec /\ StateDbSpec
  BY <1>1, <1>2, <1>3, OverlooksStep, ConsoleBegins, ConsoleStep, PTL DEF ConsoleSpec, TickSpec, StateDbSpec
<1>5. OverlooksInv /\ EveryRomOnce /\ FirstRowsAreKept => NothingIsOverlooked
  BY NoKeyTwice, NothingUnsaid, TheLibraryIsHeld, Zenon DEF OverlooksInv, NothingIsOverlooked
<1> QED  BY <1>4, <1>5, NoRomIsPlannedTwice, TheFirstRowsAreKept, PTL

(* What the console holds stays true and stays its own, in the console as a *)
(* whole: no hour is counted twice, the token goes to no other origin and   *)
(* no answer outgrows the heap, a tick that says it completed, never began  *)
(* or, with one plan, only went unreported did that, and it passes on the   *)
(* server's last word, and the baseline found is the last one stored        *)
(* (Buffer, Exchange, RunTick, SaveBaseline).                               *)
THEOREM ItStaysTrueAndHome == ConsoleSpec => []StaysTrueAndHome
<1>1. ConsoleInit => StateDbInit
  BY Zenon DEF ConsoleInit
<1>2. [ConsoleNext]_consoleVars => [StateDbNext]_dbVars
  BY TheSubjectStays, Zenon
<1>3. ConsoleSpec => PlaySpec /\ TickSpec /\ StateDbSpec /\ WireInit /\ [][WireNext]_wireVars
  BY <1>1, <1>2, ConsoleBegins, ConsoleStep, PTL DEF ConsoleSpec, PlaySpec, TickSpec, StateDbSpec
<1>4. WireInv => TokenStaysHome /\ AnswerFitsHeap
  BY DEF WireInv
<1>5. NoHourTwice /\ TokenStaysHome /\ AnswerFitsHeap /\ OutcomeIsTrue /\ GateHearsTheLastWord
        /\ LastStoredIsFound => StaysTrueAndHome
  BY Zenon DEF StaysTrueAndHome
<1> QED
  BY <1>3, <1>4, <1>5, WireKeeps, NoHourIsCountedTwice, OutcomesAreTrue, TheLastWordIsHeard,
     TheLastStoredIsFound, PTL

=============================================================================
