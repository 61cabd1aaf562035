---------------------------- MODULE BrowserBridge ----------------------------
(***************************************************************************)
(* The embedded browser: the guest's web views (shims/appkit/browser.m and *)
(* webview.inc) and the GTK host (browser/host.cpp), which owns the pages, *)
(* joined by one Unix socket that carries a JSON object per line.  The     *)
(* guest reconnects when the connection breaks; lines that were inside it  *)
(* are lost, and so is the rest of a line that was cut.  View 0 is the     *)
(* page of NSWorkspace openURL: it has no guest object and no delegate.    *)
(***************************************************************************)
EXTENDS Integers, Sequences, FiniteSets

CONSTANTS
    Views,      \* guest web views, positive numbers
    MaxOutput,  \* lines the host queues for its peer (128)
    SocketLines,\* lines the socket holds before the host's send would block
    MaxOps,     \* bound: operations the guest sends on its own
    MaxAsks,    \* bound: navigations that need the delegate, and launch links
    MaxBreaks,  \* bound: broken connections
    None

VARIABLES
    guest,  \* [fd, out, cut, stale, views, calls, asks, loaded, ops]
    host,   \* [out, page, current, decisions, asked, evals, breaks]
    peer,   \* the connection the host has accepted, or None
    next,   \* a connection waiting in the listener's backlog, or None
    answers \* history: [count, wrong]: answers WebKit got per navigation, and
            \* whether one was meant for another

vars == <<guest, host, peer, next, answers>>

Pages == Views \cup {0}
Line(op, v, n) == [op |-> op, v |-> v, n |-> n, nav |-> 0]
Garbage == Line("garbage", 0, 0)
NewLink == [up |-> <<>>, down |-> <<>>, hup |-> FALSE, eof |-> FALSE]

\* The host starts with no page and a listening socket, the guest unconnected.
Init ==
    /\ guest = [fd |-> "none", out |-> <<>>, cut |-> "no", stale |-> FALSE,
                views |-> Views, calls |-> {}, asks |-> {}, loaded |-> {0}, ops |-> 0]
    /\ host = [out |-> <<>>, page |-> [v \in Pages |-> "none"], current |-> None,
               decisions |-> {}, asked |-> 0, evals |-> {}, breaks |-> 0]
    /\ peer = None /\ next = None /\ answers = [count |-> [i \in 1..MaxAsks |-> 0], wrong |-> FALSE]

-----------------------------------------------------------------------------
(* Guest: operations of the application *)

sendMessage(m) == [guest EXCEPT !.out = Append(@, m), !.ops = @ + 1]

\* Also for a view that was closed since, but not for the first time then.
loadRequest(v) ==
    /\ guest.ops < MaxOps /\ v \in guest.views \cup guest.loaded
    /\ \E n \in {0, 1} : guest' = [sendMessage(Line("load", v, n)) EXCEPT !.loaded = @ \cup {v}]
    /\ UNCHANGED <<host, peer, next, answers>>

\* evaluateJavaScript, or with view 0 the cookie store.
request(v) ==
    /\ guest.ops < MaxOps /\ v \in guest.views \cup {0}
    /\ guest' = [sendMessage(Line("eval", v, guest.ops)) EXCEPT !.calls = @ \cup {guest.ops}]
    /\ UNCHANGED <<host, peer, next, answers>>

rbxCloseHostedView(v) ==
    /\ v \in guest.views
    /\ guest' = [guest EXCEPT !.out = Append(@, Line("close", v, 0)), !.views = @ \ {v}]
    /\ UNCHANGED <<host, peer, next, answers>>

\* The delegate calls its decision handler, now, later or never.
decide(a) ==
    /\ a \in guest.asks
    /\ guest' = [guest EXCEPT !.asks = @ \ {a}, !.out = Append(@, [Line("policy", a.v, a.n) EXCEPT !.nav = a.nav])]
    /\ UNCHANGED <<host, peer, next, answers>>

-----------------------------------------------------------------------------
(* Guest: the 20 ms tick *)

connect ==
    /\ guest.fd = "none" /\ next = None
    /\ guest' = [guest EXCEPT !.fd = "next"] /\ next' = NewLink
    /\ UNCHANGED <<host, peer, answers>>

Held == IF guest.fd = "peer" THEN peer ELSE next
SetHeld(l) ==
    IF guest.fd = "peer" THEN peer' = l /\ next' = next ELSE next' = l /\ peer' = peer

\* A whole line goes out, or the rest of one whose start went out before; on
\* another connection that rest is no JSON object.
write ==
    /\ guest.fd \in {"peer", "next"} /\ guest.out # <<>> /\ ~Held.eof
    /\ SetHeld([Held EXCEPT !.up = Append(@, IF guest.cut = "lost" THEN Garbage ELSE Head(guest.out))])
    /\ guest' = [guest EXCEPT !.out = Tail(@), !.cut = "no"]
    /\ UNCHANGED <<host, answers>>
partialWrite ==
    /\ guest.fd \in {"peer", "next"} /\ guest.out # <<>> /\ guest.cut = "no" /\ ~Held.eof
    /\ guest' = [guest EXCEPT !.cut = "here"]
    /\ UNCHANGED <<host, peer, next, answers>>

\* A write error closes the connection but leaves what was received of a line.
writeError ==
    /\ guest.fd \in {"peer", "next"} /\ guest.out # <<>> /\ Held.eof
    /\ \E s \in BOOLEAN :
        guest' = [guest EXCEPT !.fd = "none", !.cut = IF @ = "here" THEN "lost" ELSE @, !.stale = @ \/ s]
    /\ IF guest.fd = "peer" THEN peer' = None /\ next' = next ELSE next' = None /\ peer' = peer
    /\ UNCHANGED <<host, answers>>

\* End of file, or more than a megabyte received: close and forget.
readEOF ==
    /\ guest.fd \in {"peer", "next"}
    /\ \/ Held.eof /\ UNCHANGED host
       \/ ~Held.eof /\ host.breaks < MaxBreaks /\ host' = [host EXCEPT !.breaks = @ + 1]
    /\ guest' = [guest EXCEPT !.fd = "none", !.cut = IF @ = "here" THEN "lost" ELSE @, !.stale = FALSE]
    /\ IF Held.eof
       THEN IF guest.fd = "peer" THEN peer' = None /\ next' = next ELSE next' = None /\ peer' = peer
       ELSE SetHeld([Held EXCEPT !.hup = TRUE])
    /\ UNCHANGED answers

\* receiveMessage; the first line after a stale start does not parse.
receiveMessage ==
    /\ guest.fd = "peer" /\ peer.down # <<>>
    /\ LET m == Head(peer.down)
           g == [guest EXCEPT !.stale = FALSE]
       IN guest' = CASE guest.stale -> g
                     [] ~guest.stale /\ m.op = "launch-url" -> [g EXCEPT !.out = Append(@, Line("return-to-game", 0, 0))]
                     [] ~guest.stale /\ m.op = "reply" -> [g EXCEPT !.calls = @ \ {m.n}]
                     [] ~guest.stale /\ m.op = "navigation" /\ m.v \in g.views -> [g EXCEPT !.asks = @ \cup {[v |-> m.v, n |-> m.n, nav |-> m.nav]}]
                     [] OTHER -> g
    /\ peer' = [peer EXCEPT !.down = Tail(@)]
    /\ UNCHANGED <<host, next, answers>>

-----------------------------------------------------------------------------
(* Host: the socket *)

\* Queue for the peer unless there is none or its queue is full.
send_object(h, m) == IF peer # None /\ ~peer.eof /\ Len(h.out) < MaxOutput THEN [h EXCEPT !.out = Append(@, m)] ELSE h

\* A second client is turned away while the first is not known to be gone.
Released(p) == None
accept_peer ==
    /\ next # None /\ ~next.eof
    /\ IF peer = None
       THEN /\ peer' = next /\ next' = None /\ UNCHANGED host
            /\ guest' = IF guest.fd = "next" THEN [guest EXCEPT !.fd = "peer"] ELSE guest
       ELSE /\ next' = IF next.hup THEN None ELSE [next EXCEPT !.eof = TRUE]
            /\ UNCHANGED <<guest, peer, host>>
    /\ UNCHANGED answers

flush_output ==
    /\ peer # None /\ ~peer.eof /\ host.out # <<>> /\ (Len(peer.down) < SocketLines \/ peer.hup)
    /\ IF peer.hup THEN host' = [host EXCEPT !.out = <<>>] /\ peer' = peer
       ELSE /\ host' = [host EXCEPT !.out = Tail(@)]
            /\ peer' = [peer EXCEPT !.down = Append(@, Head(host.out))]
    /\ UNCHANGED <<guest, next, answers>>

\* WebKit's decision objects in D are told to use or ignore the navigation.
Answer(D, nav) ==
    [count |-> [i \in 1..MaxAsks |-> answers.count[i] + Cardinality({d \in D : d.nav = i})],
     wrong |-> answers.wrong \/ \E d \in D : nav \notin {None, d.nav}]

\* The peer hung up, or its line is too long: every open decision is ignored.
hangup ==
    /\ peer # None /\ ~peer.eof
    /\ \/ peer.hup /\ peer.up = <<>> /\ peer' = Released(peer) /\ UNCHANGED guest
          /\ host' = [host EXCEPT !.decisions = {}, !.out = <<>>]
       \/ ~peer.hup /\ host.breaks < MaxBreaks /\ peer' = [peer EXCEPT !.eof = TRUE, !.up = <<>>]
          /\ host' = [host EXCEPT !.decisions = {}, !.out = <<>>, !.breaks = @ + 1] /\ UNCHANGED guest
    /\ answers' = Answer(host.decisions, None)
    /\ UNCHANGED next

-----------------------------------------------------------------------------
(* Host: handle *)

returnToGame(h) ==
    [IF h.current # None THEN send_object(h, Line("closed", h.current, 0)) ELSE h EXCEPT !.current = None]

closePage(h, v) ==
    [h EXCEPT !.current = IF @ = v THEN None ELSE @,
              !.page = [@ EXCEPT ![v] = IF @ = "alive" THEN "closed" ELSE @]]

\* Found or created; a destroyed view stays destroyed and its lines do nothing.
page(h, v) == [h EXCEPT !.page[v] = IF @ = "none" THEN "alive" ELSE @]
\* A load shows the page if its URL is http or https.
web_url(n) == n = 1
show(h, v, n) ==
    IF h.page[v] # "closed" /\ web_url(n) THEN [page(h, v) EXCEPT !.current = v] ELSE page(h, v)
evaluate(h, v, n) ==
    IF h.page[v] = "closed" THEN h ELSE [page(h, v) EXCEPT !.evals = @ \cup {n}]

\* The decision named by a "policy" line, if it is still open.
Mut_KeepDecision(n) == {}
Settled(n) == {d \in host.decisions : d.n = n}
handle ==
    /\ peer # None /\ ~peer.eof /\ peer.up # <<>>
    /\ peer' = [peer EXCEPT !.up = Tail(@)]
    /\ LET m == Head(peer.up)
       IN /\ host' = CASE m.op = "return-to-game" -> returnToGame(host)
                       [] m.op = "policy" -> [host EXCEPT !.decisions = @ \ Settled(m.n)]
                       [] m.op = "close" -> closePage(host, m.v)
                       [] m.op = "load" -> show(host, m.v, m.n)
                       [] m.op = "eval" -> evaluate(host, m.v, m.n)
                       [] OTHER -> host
          /\ answers' = IF m.op = "policy" THEN Answer({d \in host.decisions : d.n = m.n}, m.nav) ELSE answers
    /\ UNCHANGED <<guest, next>>

-----------------------------------------------------------------------------
(* Host: the pages and the user *)

return_to_game ==
    /\ host.current # None /\ host' = returnToGame(host)
    /\ UNCHANGED <<guest, peer, next, answers>>

\* A navigation of a page with a delegate waits for the guest's decision.
NextDecision == host.asked + 1
policy(v) ==
    /\ host.asked < MaxAsks /\ v # 0 /\ host.page[v] = "alive"
    /\ LET d == [n |-> NextDecision, v |-> v, nav |-> host.asked + 1]
       IN host' = send_object([host EXCEPT !.asked = @ + 1, !.decisions = @ \cup {d}],
                              [Line("navigation", v, d.n) EXCEPT !.nav = d.nav])
    /\ UNCHANGED <<guest, peer, next, answers>>

\* A roblox: link is handed to the guest and never navigated to.
launchUrl(v) ==
    /\ host.asked < MaxAsks /\ host.page[v] = "alive"
    /\ host' = send_object([host EXCEPT !.asked = @ + 1], Line("launch-url", v, 0))
    /\ UNCHANGED <<guest, peer, next, answers>>

\* Fifteen seconds after it was asked.
Mut_NoTimer(d) == d \notin host.decisions
Expires(d) == d \in host.decisions
expire_policy(d) ==
    /\ Expires(d) /\ host' = [host EXCEPT !.decisions = @ \ {d}]
    /\ answers' = Answer({d}, None)
    /\ UNCHANGED <<guest, peer, next>>

evaluated(n) ==
    /\ n \in host.evals
    /\ host' = send_object([host EXCEPT !.evals = @ \ {n}], Line("reply", 0, n))
    /\ UNCHANGED <<guest, peer, next, answers>>

\* "state", "load", "error" and "message": nothing but a line for the guest.
pageEvent(v) ==
    /\ host.page[v] = "alive" /\ Len(host.out) = MaxOutput - 1
    /\ host' = send_object(host, Line("state", v, 0))
    /\ UNCHANGED <<guest, peer, next, answers>>

-----------------------------------------------------------------------------
Next ==
    \/ \E v \in Pages : loadRequest(v) \/ request(v) \/ rbxCloseHostedView(v) \/ policy(v) \/ launchUrl(v) \/ pageEvent(v)
    \/ \E a \in guest.asks : decide(a)
    \/ connect \/ write \/ partialWrite \/ writeError \/ readEOF \/ receiveMessage
    \/ accept_peer \/ flush_output \/ hangup \/ handle \/ return_to_game
    \/ \E d \in host.decisions : expire_policy(d)
    \/ \E n \in host.evals : evaluated(n)

Spec == Init /\ [][Next]_vars

-----------------------------------------------------------------------------
(* Properties *)

\* WebKit gets exactly one answer for every navigation it asked about: from
\* the guest, from the timeout or from the broken connection.
DecisionsAnsweredOnce ==
    \A i \in 1..MaxAsks : answers.count[i] + Cardinality({d \in host.decisions : d.nav = i}) <= 1

\* An answer that arrives late, over another connection even, is not taken for
\* the answer to another navigation.
AnswersMatch == ~answers.wrong

\* The page the host shows, and whose view its buttons use, is not destroyed.
CurrentAlive == host.current # None => host.page[host.current] = "alive"

Safety == DecisionsAnsweredOnce /\ AnswersMatch /\ CurrentAlive

=============================================================================
