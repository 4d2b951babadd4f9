------------------------------ MODULE WebFetch ------------------------------
(***************************************************************************)
(* Outgoing requests of the tools: fetch_url, http_request and ping_url    *)
(* share one HTTPFetcher; http_fetch and the webhook tool build a client   *)
(* per call.  A target is checked when it is named (before the request and *)
(* at every redirect) and again when a connection to it is dialled, and    *)
(* what a name resolves to can change in between.  net/http is external:   *)
(* it follows redirects, and keeps a connection for the next request.      *)
(***************************************************************************)
EXTENDS Integers, Sequences, FiniteSets

CONSTANTS Fetches,      \* callers; each makes one call after the other
          Clients,      \* the kinds of calls
          Hosts,        \* host names
          Allowlist,    \* hosts HTTPFetcher is limited to ({}: no limit)
          Blocklist,    \* hosts HTTPFetcher refuses
          MaxHops,      \* MaxHops[k]: requests in one call of kind k
          MaxBody       \* bytes of a body that are kept

ASSUME FetchConstants ==
  /\ Clients \subseteq {"fetch_url", "http_request", "ping_url", "http_fetch", "webhook"}
  /\ "ping_url" \in Clients   \* the kind of a caller that has not called yet
  /\ MaxHops \in [Clients -> Nat \ {0}]
  /\ MaxBody \in Nat

VARIABLES dns,          \* dns[h]: the addresses h resolves to now
          conns,        \* open connections: [pool, host, addr]
          fetch         \* fetch[c]: the call that c makes

fetchVars == <<dns, conns, fetch>>

Addresses == {"public", "private"}

Urls == [scheme : {"http", "other"}, host : Hosts]

NoFetch == [at |-> "done", kind |-> "ping_url", url |-> [scheme |-> "other"],
            hops |-> <<>>, status |-> "none", bytes |-> 0, marked |-> FALSE]

FetchInit ==
  /\ dns = [h \in Hosts |-> {"public"}]
  /\ conns = {}
  /\ fetch = [c \in Fetches |-> NoFetch]

\* The clients that are built on the shared HTTPFetcher.
ByFetcher(k) == k \in {"fetch_url", "http_request", "ping_url"}

\* ResolveHost and IsPrivateIP: the name resolves, and to no private address.
Public(h) == dns[h] # {} /\ "private" \notin dns[h]

DomainAllowed(h) == h \notin Blocklist /\ (Allowlist # {} => h \in Allowlist)

ValidateURL(u) == u.scheme = "http" /\ Public(u.host) /\ DomainAllowed(u.host)

ValidateFetchTarget(u) == u.scheme = "http" /\ Public(u.host)

\* What each client checks before the first request.  The webhook tool only
\* looks at the scheme of its configured URL.
Checked(k, u) ==
  CASE ByFetcher(k)     -> ValidateURL(u)
    [] k = "http_fetch" -> ValidateFetchTarget(u)
    [] k = "webhook"    -> u.scheme = "http"

\* An empty or malformed argument, and an HTTP method that Request does not
\* know, are refused like an unacceptable URL.
Call(c) ==
  /\ fetch[c].at = "done"
  /\ \E k \in Clients, u \in Urls :
       fetch' = [fetch EXCEPT ![c] =
                   [NoFetch EXCEPT !.at = IF Checked(k, u) THEN "send" ELSE "done",
                                   !.kind = k, !.url = u]]
  \* The transport of a finished call is not used again.
  /\ conns' = {x \in conns : x.pool # c}
  /\ UNCHANGED dns

\* The connections a call may use: those of the shared fetcher, or its own.
Pool(c) == IF ByFetcher(fetch[c].kind) THEN "shared" ELSE c

Contact(c) ==
  fetch' = [fetch EXCEPT ![c].at = "sent", ![c].hops = Append(@, fetch[c].url)]

\* The transport reuses an idle connection without dialling.
Reuse(c) ==
  /\ fetch[c].at = "send"
  /\ \E x \in conns : x.pool = Pool(c) /\ x.host = fetch[c].url.host
  /\ Contact(c)
  /\ UNCHANGED <<dns, conns>>

DialUnchecked(c) ==
  LET h == fetch[c].url.host
  IN /\ fetch[c].at = "send" /\ dns[h] # {}
     /\ \E a \in dns[h] : conns' = conns \union {[pool |-> Pool(c), host |-> h, addr |-> a]}
     /\ Contact(c)
     /\ UNCHANGED dns

\* safeDialContext resolves once more, refuses a private address among the
\* answers, and dials the first of the addresses it has just looked at.
Dial(c) ==
  LET h == fetch[c].url.host
  IN /\ fetch[c].at = "send" /\ Public(h)
     /\ \E a \in dns[h] : conns' = conns \union {[pool |-> Pool(c), host |-> h, addr |-> a]}
     /\ Contact(c)
     /\ UNCHANGED dns

FetchError(c) == fetch' = [fetch EXCEPT ![c].at = "done", ![c].status = "error"]

\* The dial is refused, the request times out, or the body cannot be read.
FetchFails(c) ==
  /\ fetch[c].at \in {"send", "sent"}
  /\ FetchError(c)
  /\ UNCHANGED <<dns, conns>>

\* checkRedirect; a webhook client has net/http's default limit, and follows
\* what its transport can (http and https).
CheckRedirect(c, u) ==
  LET k == fetch[c].kind
  IN Len(fetch[c].hops) < MaxHops[k] /\ Checked(k, u)

Redirected(c) ==
  /\ fetch[c].at = "sent"
  /\ \E u \in Urls :
       IF CheckRedirect(c, u)
       THEN fetch' = [fetch EXCEPT ![c].at = "send", ![c].url = u]
       ELSE FetchError(c)
  /\ UNCHANGED <<dns, conns>>

\* One byte more than the limit is read, to see that there is more.
Kept(size) ==
  LET read == IF size > MaxBody + 1 THEN MaxBody + 1 ELSE size
  IN IF read > MaxBody THEN MaxBody ELSE read

\* The final answer.  The fetcher marks a cut body after it has converted it
\* (HTML to markdown, indented JSON); the agent tools cut it silently; a ping
\* reads no body.
Respond(c) ==
  LET k == fetch[c].kind
  IN /\ fetch[c].at = "sent"
     /\ \E size \in 0..MaxBody + 2 :
          fetch' = [fetch EXCEPT
                      ![c].at = "done", ![c].status = "ok",
                      ![c].bytes = IF k = "ping_url" THEN 0 ELSE Kept(size),
                      ![c].marked = k \in {"fetch_url", "http_request"} /\ size > MaxBody]
     /\ UNCHANGED <<dns, conns>>

NameChanges ==
  \E h \in Hosts, addrs \in SUBSET Addresses :
    dns' = [dns EXCEPT ![h] = addrs] /\ UNCHANGED <<conns, fetch>>

ConnectionCloses ==
  \E x \in conns : conns' = conns \ {x} /\ UNCHANGED <<dns, fetch>>

FetchNext ==
  \/ \E c \in Fetches :
       \/ Call(c) \/ Reuse(c) \/ Dial(c) \/ FetchFails(c) \/ Redirected(c) \/ Respond(c)
  \/ NameChanges \/ ConnectionCloses

FetchSpec == FetchInit /\ [][FetchNext]_fetchVars

\* Type invariant of the calls and connections.
FetchTypeOK ==
  /\ dns \in [Hosts -> SUBSET Addresses]
  /\ \A x \in conns : x.host \in Hosts /\ x.addr \in Addresses
  /\ \A c \in Fetches : fetch[c].at \in {"done", "send", "sent"}

\* Whatever names resolve to, and however they change between the check of a
\* URL and its use, no connection leads to a private address (safeDialContext
\* dials what it has checked); every request of a call, redirects included,
\* was to a target its client accepts, and there are no more than the client
\* allows (checkRedirect); no more than the limit of a body is returned, and
\* fetch_url and http_request mark what they have cut.
FetchesAreVetted ==
  /\ \A x \in conns : x.addr = "public"
  /\ \A c \in Fetches :
       LET f == fetch[c]
       IN /\ Len(f.hops) <= MaxHops[f.kind]
          /\ \A i \in DOMAIN f.hops :
               /\ f.hops[i].scheme = "http"
               /\ ByFetcher(f.kind) => DomainAllowed(f.hops[i].host)
          /\ f.bytes <= MaxBody
          /\ f.marked => f.bytes = MaxBody

=============================================================================
