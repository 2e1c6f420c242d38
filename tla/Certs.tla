------------------------------- MODULE Certs -------------------------------
(***************************************************************************)
(* The certificate reloader (internal/certs/reloader.go): handshakes on    *)
(* their own goroutines look at the files, reload the pair when the        *)
(* certificate file is newer than the one loaded, and serve what is        *)
(* installed, while another program renews the files underneath.           *)
(*                                                                         *)
(* Times are abstracted to what the reloader compares.  A modification     *)
(* time is the number of the write that set it, so later writes have later *)
(* times; whether checkInterval has passed since the last check is a flag  *)
(* that Interval lowers.                                                   *)
(***************************************************************************)
EXTENDS Integers

CONSTANTS Handshake,  \* concurrent TLS handshakes
          MaxVersion, \* bound on the renewals
          MaxWrites   \* bound on the writes of the certificate file

ASSUME CertsAssumption == MaxVersion \in Nat /\ MaxWrites \in Nat

VARIABLES cert,     \* the certificate file: its content and time
          key,      \* the key file: the version of its key
          renewing, \* where the renewal is
          current,  \* Reloader.current: the version of the pair
          modified, \* Reloader.modified
          recent,   \* time.Since(Reloader.checked) < checkInterval
          hs,       \* where each handshake is
          issued,   \* history: the versions that were on disk as a whole pair
          missed    \* history: the certificate file was replaced between the load of
                    \* the pair installed and the stat whose time stands for it

disk == <<cert, key, renewing, issued>>
reloader == <<current, modified, recent, missed>>
cvars == <<disk, reloader, hs>>

File == [state : {"whole", "partial", "missing"}, version : 0..MaxVersion, mtime : Nat]

(***************************************************************************)
(* "stat": stale() is past the throttle; "readCert" and "readKey":         *)
(* LoadX509KeyPair; "restat": the stat after the load; "install": the      *)
(* write lock; "serve": the read lock.                                     *)
(***************************************************************************)
PC == {"idle", "stat", "readCert", "readKey", "restat", "install", "serve"}

Fresh == [pc |-> "idle", seen |-> 0, loaded |-> 0, mtime |-> 0, overtaken |-> FALSE]

\* New has loaded the first pair.
InitCerts ==
    /\ cert = [state |-> "whole", version |-> 0, mtime |-> 0]
    /\ key = 0
    /\ renewing = "no"
    /\ current = 0
    /\ modified = 0
    /\ recent = TRUE
    /\ hs = [h \in Handshake |-> Fresh]
    /\ issued = {0}
    /\ missed = FALSE

-----------------------------------------------------------------------------
(* The program that renews the pair, in the order it writes the files.     *)

\* The file is rewritten in place, or removed before its successor is there.
StartRenewal(state) ==
    /\ renewing = "no"
    /\ cert.version < MaxVersion
    /\ cert.mtime + 2 <= MaxWrites
    /\ cert' = [cert EXCEPT !.state = state, !.mtime = @ + 1]
    /\ renewing' = "certificate"
    /\ UNCHANGED <<key, issued, reloader, hs>>

WriteCert ==
    /\ renewing = "certificate"
    /\ cert' = [state |-> "whole", version |-> cert.version + 1, mtime |-> cert.mtime + 1]
    /\ renewing' = "key"
    /\ UNCHANGED <<key, issued, reloader, hs>>

WriteKey ==
    /\ renewing = "key"
    /\ key' = cert.version
    /\ issued' = issued \cup {cert.version}
    /\ renewing' = "no"
    /\ UNCHANGED <<cert, reloader, hs>>

Interval ==
    /\ recent
    /\ recent' = FALSE
    /\ UNCHANGED <<disk, current, modified, missed, hs>>

-----------------------------------------------------------------------------
(* getCertificate, one handshake's steps.                                  *)

Goto(h, pc) == hs' = [hs EXCEPT ![h].pc = pc]

\* The throttle in stale(), and what it read of the Reloader under its lock.
Begin(h) ==
    /\ hs[h].pc = "idle"
    /\ hs' = [hs EXCEPT ![h].pc = IF recent THEN "serve" ELSE "stat",
                        ![h].seen = modified]
    /\ UNCHANGED <<disk, reloader>>

Newer(seen) == cert.state # "missing" /\ cert.mtime > seen

\* os.Stat in stale(), whose result does not move Reloader.checked.
Stat(h) ==
    /\ hs[h].pc = "stat"
    /\ Goto(h, IF Newer(hs[h].seen) THEN "readCert" ELSE "serve")
    /\ UNCHANGED <<disk, reloader>>

\* LoadX509KeyPair reads the certificate, then the key ...
ReadCert(h) ==
    /\ hs[h].pc = "readCert"
    /\ hs' = [hs EXCEPT ![h].pc = IF cert.state = "whole" THEN "readKey" ELSE "serve",
                        ![h].loaded = cert.version]
    /\ UNCHANGED <<disk, reloader>>

MatchesAny(version) == TRUE \* mutant: the key is not compared with the certificate

\* ... and fails unless they belong together.
Matches(version) == key = version

ReadKeyRemembering(h) == \* mutant: a failed load counts as a look at the files
    /\ hs[h].pc = "readKey"
    /\ Goto(h, IF Matches(hs[h].loaded) THEN "restat" ELSE "serve")
    /\ modified' = cert.mtime
    /\ UNCHANGED <<disk, current, recent, missed>>

ReadKey(h) ==
    /\ hs[h].pc = "readKey"
    /\ Goto(h, IF Matches(hs[h].loaded) THEN "restat" ELSE "serve")
    /\ UNCHANGED <<disk, reloader>>

\* os.Stat in reload(), after the load.
Restat(h) ==
    /\ hs[h].pc = "restat"
    /\ hs' = [hs EXCEPT ![h].pc = IF cert.state = "missing" THEN "serve" ELSE "install",
                        ![h].mtime = cert.mtime,
                        ![h].overtaken = cert.version # hs[h].loaded]
    /\ UNCHANGED <<disk, reloader>>

Install(h) ==
    /\ hs[h].pc = "install"
    /\ current' = hs[h].loaded
    /\ modified' = hs[h].mtime
    /\ recent' = TRUE
    /\ missed' = hs[h].overtaken
    /\ Goto(h, "serve")
    /\ UNCHANGED disk

Serve(h) ==
    /\ hs[h].pc = "serve"
    /\ hs' = [hs EXCEPT ![h] = Fresh]
    /\ UNCHANGED <<disk, reloader>>

-----------------------------------------------------------------------------
Step(h) ==
    \/ Stat(h) \/ ReadCert(h) \/ ReadKey(h) \/ Restat(h) \/ Install(h) \/ Serve(h)

NextCerts ==
    \/ \E state \in {"partial", "missing"} : StartRenewal(state)
    \/ WriteCert
    \/ WriteKey
    \/ Interval
    \/ \E h \in Handshake : Begin(h) \/ Step(h)

SpecCerts == InitCerts /\ [][NextCerts]_cvars

\* Time passes, goroutines run, a renewal once begun is finished, and
\* handshakes keep coming.
Fairness ==
    /\ WF_cvars(Interval)
    /\ WF_cvars(WriteKey)
    /\ WF_cvars(WriteCert)
    /\ \A h \in Handshake : WF_cvars(Step(h)) /\ WF_cvars(Begin(h))

FairSpecCerts == SpecCerts /\ Fairness
-----------------------------------------------------------------------------
TypeCerts ==
    /\ cert \in File
    /\ key \in 0..MaxVersion
    /\ renewing \in {"no", "certificate", "key"}
    /\ current \in 0..MaxVersion
    /\ modified \in Nat
    /\ recent \in BOOLEAN
    /\ hs \in [Handshake -> [pc : PC, seen : Nat, loaded : 0..MaxVersion, mtime : Nat,
                             overtaken : BOOLEAN]]
    /\ issued \subseteq 0..MaxVersion
    /\ missed \in BOOLEAN

(***************************************************************************)
(* Whatever moment of a renewal a handshake catches, and however reloads   *)
(* race, the certificate installed is one that was on disk together with   *)
(* its own key (reloader.go:53-63, 81-97).                                 *)
(***************************************************************************)
ServesWholePair == current \in issued

(***************************************************************************)
(* "Reloader hands out a certificate, re-reading it when the files change" *)
(* (reloader.go:18), "picked up without a restart" (main.go:107-109): once *)
(* a renewal is complete and is the last, its certificate is installed and *)
(* stays.                                                                  *)
(***************************************************************************)
EveryRenewalPickedUp ==
    \A v \in 0..MaxVersion :
        <>[](renewing = "no" /\ cert.version = v) => <>[](current = v)

(***************************************************************************)
(* What the code keeps of it.  However renewals, failed loads and reloads  *)
(* interleave, the last certificate is served in the end unless the file   *)
(* was replaced between the load of the pair now installed and the stat    *)
(* that dates it (reloader.go:82-95).                                      *)
(***************************************************************************)
RenewalPickedUp ==
    \A v \in 0..MaxVersion :
        <>[](renewing = "no" /\ cert.version = v) => <>[](current = v \/ missed)
=============================================================================
