------------------------------- MODULE Front -------------------------------
(***************************************************************************)
(* The way of a request into the server: the process that reads its        *)
(* configuration, serves and shuts down (cmd/megapetd/main.go, internal/   *)
(* config), the routes (internal/server), and the client's address, found  *)
(* behind proxies (internal/netutil), whose budget of streams the limiter  *)
(* keeps (Limiter.tla).                                                    *)
(***************************************************************************)
EXTENDS Limiter, Sequences

CONSTANTS Visitor, \* the addresses of clients
          Proxy,   \* the addresses of proxies
          Junk,    \* what is not an address
          Paths,   \* the proxies a request may come through, the nearest to the client first
          Headers, \* what a client may send as X-Forwarded-For
          RealIPs, \* what may arrive as X-Real-IP
          Sources  \* what a file, the environment or the flags may set

ASSUME FrontAssumption ==
    /\ Addr = Visitor \cup Proxy
    /\ Visitor \cap Proxy = {}
    /\ Junk \notin Client
    /\ Paths \subseteq Seq(Proxy)
    /\ Headers \subseteq Seq(Addr \cup {Junk})
    /\ Junk \in RealIPs /\ RealIPs \subseteq Addr \cup {Junk}
    \* An operator trusts addresses, those of visitors within his prefixes among
    \* them, or writes something that is no address.
    /\ \A source \in Sources :
          "trusted_proxies" \in DOMAIN source => source.trusted_proxies \subseteq Addr \cup {Junk}

VARIABLES process, \* "down", "serving", or "draining" in http.Server.Shutdown
          config,  \* the configuration of this process
          origin   \* history: who holds each slot, and whether every proxy on the way was named

front == <<process, config, origin>>
fvars == <<vars, front>>

-----------------------------------------------------------------------------
(* Configuration.  Fields no definition below looks at are left out.       *)

Default ==
    [listen |-> "any", trusted_proxies |-> {}, cert |-> FALSE, key |-> FALSE,
     direct_enabled |-> FALSE, direct_url |-> "", grace_seconds |-> 2,
     download_seconds |-> 10, upload_seconds |-> 10, streams |-> 6,
     store_enabled |-> TRUE, store_path |-> "megapet.db",
     metrics_enabled |-> TRUE, metrics_path |-> "/metrics"]

Over(f, g) == [x \in DOMAIN f \cup DOMAIN g |-> IF x \in DOMAIN f THEN f[x] ELSE g[x]]

\* The nearer source wins: flags, then the environment, then the file.
Effective(file, env, flags) == Over(flags, Over(env, Over(file, Default)))

Slashed(path) ==
    CASE path = ""        -> "/metrics"
      [] path = "metrics" -> "/metrics"
      [] OTHER            -> path

\* The checks of Normalize.
Valid(c) ==
    /\ c.listen # ""
    /\ c.streams \in 1..32
    /\ c.download_seconds > 0 /\ c.download_seconds <= 120
    /\ c.upload_seconds > 0 /\ c.upload_seconds <= 120
    /\ c.grace_seconds >= 0 /\ c.grace_seconds < c.download_seconds
    /\ c.store_enabled => c.store_path # ""
    /\ c.cert = c.key
    /\ c.direct_url \in {"", "http", "https"}

\* netutil.DirectURL, as the scheme of what it returns.
DirectURL(c) ==
    IF c.listen = "loopback" THEN ""
    ELSE IF c.cert THEN "https" ELSE "http"

\* The end of Normalize, and what run derives from it.
Normalized(c) ==
    [c EXCEPT !.metrics_path = Slashed(@),
              !.direct_url = IF c.direct_enabled /\ @ = "" THEN DirectURL(c) ELSE @]

-----------------------------------------------------------------------------
(* Routes.                                                                 *)

Get == {"GET", "HEAD"} \* a pattern for GET also takes HEAD

Routes ==
    (Get \X {"/api/ping", "/empty.php"}) \cup (Get \X {"/api/download", "/garbage.php"})
    \cup ({"POST"} \X {"/api/upload", "/empty.php", "/api/runs", "/api/runs/id/close"})
    \cup (Get \X {"/api/config", "/api/ip", "/api/results", "/api/results/id",
                  "/api/results/id/card.svg", "/api/summary", "/healthz"})

BareApi == "/api/"

Api == {"/api/ping", "/api/download", "/api/upload", "/api/runs", "/api/runs/id/close",
        "/api/config", "/api/ip", "/api/results", "/api/results/id",
        "/api/results/id/card.svg", "/api/summary", "/api/gone", BareApi}

\* What still begins with "api/" once path.Clean has taken the last slash off.
Prefixed == Api \ {BareApi}

Files == {"/", "/assets/app.js"}
Dotted == {"/assets/app.js", "/assets/gone.js", "/garbage.php", "/empty.php"}

NotBuiltAsPage(path) == \* mutant: the placeholder answers for every path without a dot
    IF path # "/" /\ path \in Dotted THEN "not found" ELSE "page"

NotBuilt(path) ==
    IF path \in Prefixed \/ (path # "/" /\ path \in Dotted) THEN "not found" ELSE "page"

\* staticHandler, with the frontend that may be missing from the build.
Static(path) ==
    IF "frontend" \notin DOMAIN config THEN NotBuilt(path)
    ELSE IF path \in Files THEN "file"
    ELSE IF path \in Prefixed \cup Dotted THEN "not found"
    ELSE "page"

\* withCORS comes before the routes.
Answer(method, path, preflight) ==
    IF method = "OPTIONS" /\ preflight THEN "preflight"
    ELSE IF <<method, path>> \in Routes THEN "endpoint"
    ELSE IF config.metrics_enabled /\ method \in Get /\ path = config.metrics_path THEN "metrics"
    ELSE Static(path)

\* What may be wrong around the process: the database, the certificate's files or
\* the address to listen on.
Broken == {"nothing", "store", "cert", "listen"}

\* ServeMux panics on a pattern that is registered twice, before anything listens.
Starts(c, broken) ==
    /\ Valid(c)
    /\ ~(c.store_enabled /\ broken = "store")
    /\ Junk \notin c.trusted_proxies
    /\ ~(c.metrics_enabled /\ <<"GET", Slashed(c.metrics_path)>> \in Routes)
    /\ ~(c.cert /\ broken = "cert")
    /\ broken # "listen"

-----------------------------------------------------------------------------
(* The client's address.                                                   *)

Trusted(a) == a \in config.trusted_proxies

\* Where X-Forwarded-For has an address; what does not parse is left out.
Hops(header) == {i \in DOMAIN header : header[i] # Junk}

Closest(hops) == CHOOSE i \in hops : \A j \in hops : j <= i
Farthest(hops) == CHOOSE i \in hops : \A j \in hops : i <= j

\* mutant: the client's own claim is believed
ClientIPLeftmost(peer, header, real) ==
    IF ~Trusted(peer) \/ Hops(header) = {} THEN peer ELSE header[Farthest(Hops(header))]

\* mutant: the header is read whoever sends it
ClientIPUnasked(peer, header, real) ==
    LET untrusted == {i \in Hops(header) : ~Trusted(header[i])}
    IN  IF untrusted # {} THEN header[Closest(untrusted)] ELSE peer

\* Resolver.ClientIP: the last hop that is not a proxy of ours.
ClientIP(peer, header, real) ==
    LET untrusted == {i \in Hops(header) : ~Trusted(header[i])}
    IN  IF peer = Invalid \/ ~Trusted(peer) THEN peer
        ELSE IF untrusted # {} THEN header[Closest(untrusted)]
        ELSE IF real # Junk THEN real
        ELSE IF Hops(header) # {} THEN header[Farthest(Hops(header))]
        ELSE peer

Unknown == [client |-> Invalid, named |-> FALSE]

InitFront ==
    /\ Init
    /\ process = "down"
    /\ config = Default
    /\ origin = [s \in Stream |-> Unknown]

(***************************************************************************)
(* A request to one of the endpoints the limiter guards.  Each proxy of    *)
(* `path` appends the address it was called from to the header, so what    *)
(* the client made up comes first.  Only a proxy itself sends a request    *)
(* from a proxy's address; a peer without an address is one, too.          *)
(***************************************************************************)
Transfer(s, client, path, made, real) ==
    LET hops   == <<client>> \o path
        header == made \o SubSeq(hops, 1, Len(hops) - 1)
        a      == ClientIP(hops[Len(hops)], header, real)
    IN  /\ process = "serving"
        /\ client \notin Visitor => path = <<>> /\ made = <<>> /\ real = Junk
        /\ \/ /\ Acquire(s, a)
              /\ origin' = [origin EXCEPT ![s] =
                    [client |-> client, named |-> \A i \in DOMAIN path : Trusted(path[i])]]
           \/ Refuse(s, a) /\ UNCHANGED origin
        /\ UNCHANGED <<process, config>>

\* The handler returns, by itself or because the server closed its connection.
Return(s) ==
    /\ Release(s)
    /\ origin' = [origin EXCEPT ![s] = Unknown]
    /\ UNCHANGED <<process, config>>

Forgotten(s) == Forget(s) /\ UNCHANGED front

-----------------------------------------------------------------------------
(* The process.                                                            *)

\* What ran before has gone, and its limiter with it.
Start(file, env, flags, built, broken) ==
    LET c == Effective(file, env, flags)
    IN  /\ IF Starts(c, broken)
           THEN /\ process' = "serving"
                /\ config' = IF built THEN Over(Normalized(c), [frontend |-> TRUE]) ELSE Normalized(c)
           ELSE UNCHANGED <<process, config>>
        /\ UNCHANGED <<vars, origin>>

StartAnew ==
    /\ process = "down"
    /\ \A s \in Stream : phase[s] = "idle"
    /\ \E file, env, flags \in Sources, built \in BOOLEAN, broken \in Broken :
          Start(file, env, flags, built, broken)

\* SIGTERM: Shutdown closes the listener and waits for the requests.
Shutdown ==
    /\ process = "serving"
    /\ process' = "draining"
    /\ UNCHANGED <<vars, config, origin>>

\* They are through, or the ten seconds are over.
Close ==
    /\ process = "draining"
    /\ process' = "down"
    /\ UNCHANGED <<vars, config, origin>>

NextFront ==
    \/ \E s \in Stream :
          \/ \E client \in Client, path \in Paths, made \in Headers, real \in RealIPs :
                Transfer(s, client, path, made, real)
          \/ Return(s)
          \/ Forgotten(s)
    \/ StartAnew
    \/ Shutdown
    \/ Close

SpecFront == InitFront /\ [][NextFront]_fvars

-----------------------------------------------------------------------------
(***************************************************************************)
(* A client the operator has not trusted holds no slot in another's name,  *)
(* whatever it sends and whichever proxies are trusted: "CIDRs allowed to  *)
(* set X-Forwarded-For" (docs/configuration.md:17, netutil.go:11-12).  One *)
(* whose own address lies in those CIDRs may name anybody, as every        *)
(* visitor of a LAN may under configs/megapet.example.json:4.              *)
(***************************************************************************)
SlotsAreOwn ==
    \A s \in Held : addr[s] \in Visitor =>
        origin[s].client = addr[s] \/ Trusted(origin[s].client)

(***************************************************************************)
(* Behind proxies the operator has named, and without any, the bound per   *)
(* address is a bound per client for every client not itself trusted,      *)
(* whatever X-Forwarded-For and X-Real-IP it makes up ("the closest        *)
(* untrusted hop", netutil.go:43-44; speed.go:48-53).                      *)
(***************************************************************************)
ClientWithinLimit ==
    PerIP > 0 =>
        \A v \in Visitor : ~Trusted(v) =>
            Cardinality({s \in Held : origin[s] = [client |-> v, named |-> TRUE]}) <= PerIP

(***************************************************************************)
(* Of the paths of the API, known and unknown, exactly the bare one is     *)
(* answered with the page, in both builds and wherever the metrics are     *)
(* put.  The comments have it that /api/ "is never a page" (static.go:     *)
(* 63, 77); path.Clean takes its slash, and the prefix no longer matches.  *)
(***************************************************************************)
OnlyBareApiIsAPage ==
    process # "down" =>
        \A path \in Api :
            path = BareApi <=>
                \E method \in Get \cup {"POST", "OPTIONS", "DELETE"}, preflight \in BOOLEAN :
                    Answer(method, path, preflight) \in {"page", "file"}
=============================================================================
