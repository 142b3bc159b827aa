----------------------------- MODULE ProxyRelay -----------------------------
(***************************************************************************)
(* One connection to the proxies: the SOCKS5 handler (internal/proxy/      *)
(* socks.go), and the CONNECT and the plain handler of the HTTP proxy      *)
(* (internal/proxy/http.go).                                               *)
(*                                                                         *)
(* A handler reads a request, dials, answers and then relays: two          *)
(* goroutines run io.Copy, one per direction, and put their result into a  *)
(* channel; the handler takes one result and closes both connections.  A   *)
(* plain request is answered by copying one response in the handler        *)
(* itself.                                                                 *)
(*                                                                         *)
(* A direction is named by the end its data comes from.  Data is counted:  *)
(* piece n of a direction is the n-th its source sent.                     *)
(***************************************************************************)
EXTENDS Integers, Sequences

CONSTANT MaxData   \* bound: pieces each end sends

Ends == {"client", "server"}

ASSUME MaxDataAssumption == MaxData \in [Ends -> Nat]

VARIABLES
    request,   \* what the client asks for, and how a plain response is framed
    handler,   \* where the handler is
    told,      \* the proxy's answer to the client
    peer,      \* what each end does with its side of its connection
    socket,    \* the proxy's sockets; "shut" when http.Server.Close closed one in use
    sent,      \* pieces each end has sent
    read,      \* pieces the proxy has read from each end
    written,   \* pieces from each end it has written to the other
    skipped,   \* the client's first pieces that were read and thrown away
    copier,    \* the goroutines, by direction
    results,   \* errChan
    seen       \* what the client takes a plain response for

relayVars == <<request, handler, told, peer, socket, sent, read, written, skipped,
               copier, results, seen>>

-----------------------------------------------------------------------------
Other(e) == IF e = "client" THEN "server" ELSE "client"

\* "unsupported" is another command or address type of SOCKS5.
Requests == [kind : {"socks"}, dest : {"host", "ipv6", "unsupported"}, framing : {"none"}]
            \cup [kind : {"connect"}, dest : {"host", "ipv6"}, framing : {"none"}]
            \cup [kind : {"plain"}, dest : {"host"}, framing : {"length", "chunked"}]

NoRequest == [kind |-> "none", dest |-> "none", framing |-> "none"]

Zero == [e \in Ends |-> 0]

RelayInit ==
    /\ request = NoRequest
    /\ handler = "none"
    /\ told = "nothing"
    /\ peer = [e \in Ends |-> "open"]
    /\ socket = [e \in Ends |-> "none"]
    /\ sent = Zero /\ read = Zero /\ written = Zero
    /\ skipped = 0
    /\ copier = [e \in Ends |-> "none"]
    /\ results = <<>>
    /\ seen = "nothing"

Move(from, to) == handler = from /\ handler' = to

-----------------------------------------------------------------------------
(* The two ends *)

\* Accept: a goroutine handles the connection.
Accept(r) ==
    /\ Move("none", "reading")
    /\ request' = r
    /\ socket' = [socket EXCEPT !["client"] = "open"]
    /\ UNCHANGED <<told, peer, sent, read, written, skipped, copier, results, seen>>

\* An end sends; a client may do so before it is told that it can.
PeerSends(e) ==
    /\ socket[e] = "open"
    /\ peer[e] = "open"
    /\ sent[e] < MaxData[e]
    /\ sent' = [sent EXCEPT ![e] = @ + 1]
    /\ UNCHANGED <<request, handler, told, peer, socket, read, written, skipped, copier,
                   results, seen>>

\* It ends its direction, in a plain exchange the response, or resets the connection.
PeerEnds(e) ==
    /\ socket[e] = "open"
    /\ \E how \in {"eof", "reset"} :
            /\ peer[e] # how /\ peer[e] # "reset"
            /\ peer' = [peer EXCEPT ![e] = how]
    /\ UNCHANGED <<request, handler, told, socket, sent, read, written, skipped, copier,
                   results, seen>>

-----------------------------------------------------------------------------
(* The request and the answer *)

\* A client that breaks off, or that does not speak the protocol, gets no answer.
Abandon ==
    /\ Move("reading", "closing")
    /\ request' = NoRequest
    /\ UNCHANGED <<told, peer, socket, sent, read, written, skipped, copier, results, seen>>

\* What is read with the request and never relayed.  io.ReadFull takes no byte more
\* than the SOCKS5 request has; the reader Hijack returns, with what the HTTP server
\* has read after the CONNECT request, is dropped.
ThrownAway == IF request.kind = "connect" THEN 0..sent["client"] ELSE {0}

\* The request is complete: the handler goes on to dial.
ReadRequest ==
    /\ Move("reading", "dialling")
    /\ request.dest # "unsupported"
    /\ peer["client"] # "reset" /\ socket["client"] = "open"
    /\ skipped' \in ThrownAway
    /\ read' = [read EXCEPT !["client"] = skipped']
    /\ written' = [written EXCEPT !["client"] = skipped']
    /\ UNCHANGED <<request, told, peer, socket, sent, copier, results, seen>>

\* sendReply and its like: a client that cannot be reached is told nothing, and the
\* error is dropped.
Unreachable == peer["client"] = "reset" \/ socket["client"] = "shut"

Tell(answer) == told' = IF Unreachable THEN told ELSE answer

Refuse(from) ==
    /\ Move(from, IF request.kind = "plain" THEN "done" ELSE "closing")
    /\ Tell("refused")
    /\ UNCHANGED <<request, peer, socket, sent, read, written, skipped, copier, results, seen>>

RefuseUnsupported == request.dest = "unsupported" /\ Refuse("reading")

\* The pairs of brackets around an IPv6 destination in the address that is dialled:
\* the SOCKS5 handler writes one and JoinHostPort another; CONNECT passes the
\* client's on.
Brackets == IF request.dest # "ipv6" THEN 0 ELSE IF request.kind = "socks" THEN 2 ELSE 1

\* The dialler's SplitHostPort takes one pair at most.
Dialable == Brackets <= 1

\* Mutated: an error of the dial is not looked at.
DialFailsUnnoticed ==
    /\ Move("dialling", "answering")
    /\ UNCHANGED <<request, told, peer, socket, sent, read, written, skipped, copier,
                   results, seen>>

\* DialContext fails: SOCKS5 reply 4, or status 502.
DialFails == Refuse("dialling")

DialSucceeds ==
    /\ Dialable
    /\ Move("dialling", "answering")
    /\ socket' = [socket EXCEPT !["server"] = "open"]
    /\ UNCHANGED <<request, told, peer, sent, read, written, skipped, copier, results, seen>>

\* The client is told of the success, and the copiers start.  Only CONNECT looks
\* whether that could be written.
Answer ==
    /\ request.kind # "plain"
    /\ LET broken == request.kind = "connect" /\ peer["client"] = "reset" IN
        /\ Move("answering", IF broken THEN "ending" ELSE "relaying")
        /\ copier' = [e \in Ends |-> IF broken THEN "none" ELSE "copying"]
    /\ Tell("ok")
    /\ UNCHANGED <<request, peer, socket, sent, read, written, skipped, results, seen>>

-----------------------------------------------------------------------------
(* The relay: io.Copy in both directions *)

Connected == \A e \in Ends : socket[e] = "open"

CopyReads(e) ==
    /\ copier[e] = "copying"
    /\ socket[e] = "open" /\ peer[e] # "reset"
    /\ read[e] = written[e]
    /\ \E n \in (read[e] + 1)..sent[e] : read' = [read EXCEPT ![e] = n]
    /\ UNCHANGED <<request, handler, told, peer, socket, sent, written, skipped, copier,
                   results, seen>>

\* The other end takes what was read; it need not ever.
CopyWrites(e) ==
    /\ copier[e] = "copying"
    /\ socket[Other(e)] = "open" /\ peer[Other(e)] # "reset"
    /\ written[e] < read[e]
    /\ written' = [written EXCEPT ![e] = read[e]]
    /\ UNCHANGED <<request, handler, told, peer, socket, sent, read, skipped, copier,
                   results, seen>>

CopyReturns(e, result) ==
    /\ copier' = [copier EXCEPT ![e] = result]
    /\ results' = Append(results, result)
    /\ UNCHANGED <<request, handler, told, peer, socket, sent, read, written, skipped, seen>>

\* Everything has been copied and the source has ended.
CopyEnds(e) ==
    /\ copier[e] = "copying"
    /\ socket[e] = "open" /\ peer[e] = "eof"
    /\ written[e] = read[e] /\ read[e] = sent[e]
    /\ CopyReturns(e, "clean")

\* A read or a write fails: a reset, or a socket the handler has closed.
CopyFails(e) ==
    /\ copier[e] = "copying"
    /\ LET broken(end) == socket[end] = "closed" \/ peer[end] = "reset" IN
        IF written[e] = read[e] THEN broken(e) ELSE broken(Other(e))
    /\ CopyReturns(e, "failed")

\* Mutated: the handler waits for both directions.
TakeResultOfBoth ==
    /\ Len(results) = 2
    /\ Move("relaying", "ending")
    /\ results' = <<>>
    /\ UNCHANGED <<request, told, peer, socket, sent, read, written, skipped, copier, seen>>

\* <-errChan: the first direction that ends is enough.
TakeResult ==
    /\ results # <<>>
    /\ Move("relaying", "ending")
    /\ results' = Tail(results)
    /\ UNCHANGED <<request, told, peer, socket, sent, read, written, skipped, copier, seen>>

\* The deferred calls, the last one first.
CloseServer ==
    /\ Move("ending", "closing")
    /\ socket' = [socket EXCEPT !["server"] = "closed"]
    /\ UNCHANGED <<request, told, peer, sent, read, written, skipped, copier, results, seen>>

CloseClient ==
    /\ Move("closing", "done")
    /\ socket' = [socket EXCEPT !["client"] = "closed"]
    /\ UNCHANGED <<request, told, peer, sent, read, written, skipped, copier, results, seen>>

-----------------------------------------------------------------------------
(* A plain request *)

\* net/http cancels a request's context when it reads the end of the client's data,
\* even if the client only ended its own direction.
Cancelled == peer["client"] # "open" \/ socket["client"] = "shut"

\* The response's headers, its first piece, have come, or client.Do fails after all.
\* One server answers: redirects, which client.Do follows, are left out, and so is gzip,
\* which the transport may undo, to pass a response with a Content-Length on as chunked.
RoundTrip ==
    \/ /\ sent["server"] > 0 /\ peer["server"] # "reset"
       /\ Move("answering", "responding")
       /\ Tell("ok")
       /\ UNCHANGED socket
    \/ /\ \/ peer["server"] = "eof" /\ sent["server"] = 0
          \/ peer["server"] = "reset" \/ Cancelled
       /\ Move("answering", "done")
       /\ Tell("refused")
       /\ socket' = [socket EXCEPT !["server"] = "closed"]

PlainAnswer ==
    /\ request.kind = "plain"
    /\ RoundTrip
    /\ UNCHANGED <<request, peer, sent, read, written, skipped, copier, results, seen>>

\* io.Copy(w, resp.Body) goes on.
PlainCopies ==
    /\ handler = "responding"
    /\ peer["server"] # "reset" /\ ~Unreachable
    /\ written["server"] < sent["server"]
    /\ read' = [read EXCEPT !["server"] = @ + 1]
    /\ written' = [written EXCEPT !["server"] = @ + 1]
    /\ UNCHANGED <<request, handler, told, peer, socket, sent, skipped, copier, results, seen>>

\* Mutated: the response's Content-Length is not passed on.
TakenForUnframed(whole) == "whole"

\* What a client takes a response for that ends here: net/http closes the connection
\* when fewer bytes were written than Content-Length said, but ends a chunked
\* response as if it were complete, for the error of io.Copy is dropped.
TakenFor(whole) == IF whole \/ request.framing = "chunked" THEN "whole" ELSE "cut"

\* The handler returns: at the end of the response, when the server has reset the
\* connection, or when the request is cancelled.  After a whole response the transport,
\* which is this request's own, keeps the connection for the next one if the server
\* does; nobody will ever use it.
PlainEnds ==
    LET whole == peer["server"] = "eof" /\ written["server"] = sent["server"] IN
    /\ Move("responding", "done")
    /\ whole \/ peer["server"] = "reset" \/ Cancelled
    /\ seen' = IF Unreachable THEN "nothing" ELSE TakenFor(whole)
    /\ \E after \in {"idle", "closed"} :
            /\ whole \/ after = "closed"
            /\ socket' = [socket EXCEPT !["server"] = after]
    /\ UNCHANGED <<request, told, peer, sent, read, written, skipped, copier, results>>

\* IdleConnTimeout.
IdleEnds ==
    /\ socket["server"] = "idle"
    /\ socket' = [socket EXCEPT !["server"] = "closed"]
    /\ UNCHANGED <<request, handler, told, peer, sent, read, written, skipped, copier,
                   results, seen>>

-----------------------------------------------------------------------------
\* http.Server.Close closes the connections it still has: not those it handed over to
\* a CONNECT.
ServerCloses ==
    LET owned == request.kind = "plain" \/ (request.kind = "connect" /\ handler = "reading")
        open == socket["client"] = "open"
    IN /\ socket' = IF owned /\ open THEN [socket EXCEPT !["client"] = "shut"] ELSE socket
       /\ UNCHANGED <<request, handler, told, peer, sent, read, written, skipped, copier,
                      results, seen>>

\* The process has gone, its goroutines and sockets with it.
RelayKilled ==
    /\ handler' = "gone"
    /\ request' = NoRequest
    /\ told' = "nothing" /\ seen' = "nothing"
    /\ peer' = [e \in Ends |-> "open"]
    /\ socket' = [e \in Ends |-> "closed"]
    /\ sent' = Zero /\ read' = Zero /\ written' = Zero
    /\ skipped' = 0
    /\ copier' = [e \in Ends |-> "none"]
    /\ results' = <<>>

\* What the handler and the transport do without waiting for an end.
Prompt ==
    \/ DialFails \/ DialSucceeds \/ Answer \/ TakeResult \/ CloseServer \/ CloseClient
    \/ RefuseUnsupported \/ PlainAnswer \/ PlainEnds \/ IdleEnds

CopierStep(e) == CopyReads(e) \/ CopyEnds(e) \/ CopyFails(e)

PeerStep ==
    \/ \E e \in Ends : PeerSends(e) \/ PeerEnds(e) \/ CopyWrites(e)
    \/ Abandon \/ ReadRequest \/ PlainCopies

RelayStep == PeerStep \/ Prompt \/ \E e \in Ends : CopierStep(e)

-----------------------------------------------------------------------------
(* Properties *)

\* The client is told of a success only when the proxy is connected to what was asked
\* for, and of a failure only when it is not; no data reaches it before the answer,
\* and whoever sends a whole request and stays gets one.  (For a plain request "what
\* was asked for" is the first server: http.Client follows redirects from there.)
ReplyTruthful ==
    /\ told = "ok" => socket["server"] # "none" /\ Dialable
    /\ told = "refused" => written["server"] = 0 /\ socket["server"] # "open"
    /\ written["server"] > 0 => told = "ok" \/ peer["client"] = "reset"
    /\ handler = "done" /\ request # NoRequest /\ ~Unreachable => told # "nothing"

\* The end of a stream is the end of what was sent: a relay ends because a direction
\* that ended is complete at the other end, or because an end broke its connection,
\* never because a side was slow; and a response with a Content-Length is never taken
\* for whole when it is not.  What a client sent before its CONNECT was answered may
\* be missing.  (Of the other direction of a relay, which may have data on its way,
\* nothing is promised: a client that only ends its own direction loses the answer.
\* Neither is a chunked response that broke off told from a whole one.)
EndMeansComplete ==
    /\ handler \in {"ending", "closing", "done"} /\ request.kind # "plain" /\ told = "ok" =>
        \E e \in Ends :
            \/ /\ copier[e] = "clean" /\ peer[e] # "open"
               /\ written[e] = sent[e]
               /\ e = "client" /\ skipped > 0 => request.kind = "connect"
            \/ peer[e] = "reset"
    /\ seen = "whole" /\ request.framing = "length" =>
        peer["server"] # "open" /\ written["server"] = sent["server"]

\* When a direction has ended, both connections are closed and both goroutines have
\* returned in the end, whatever the two peers do or leave undone; a connection kept
\* for another request is closed as well.
RelayReleased ==
    (\E e \in Ends : copier[e] \in {"clean", "failed"}) \/ socket["server"] = "idle"
    ~> \/ handler = "gone"
       \/ /\ socket["server"] = "closed"
          /\ \A e \in Ends : copier[e] # "copying"
          /\ request.kind # "plain" => socket["client"] = "closed"
=============================================================================
