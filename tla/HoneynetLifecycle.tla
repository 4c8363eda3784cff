--------------------------- MODULE HoneynetLifecycle ---------------------------
(***************************************************************************)
(* start.sh brings up a honeynet (network, HTTP listener, DNS sinkhole),   *)
(* run-sandboxed.sh puts a sample on its network, cleanup.sh removes what  *)
(* is labelled as managed.  The scripts run with set -e and no trap: what  *)
(* a failed start made stays until cleanup.  Containers run with --rm and  *)
(* may end at any time; docker and the listener's process are other actors.*)
(*                                                                         *)
(* A start is a number, which stands for its run id in the names of what   *)
(* it makes.  The CA file of the log directory of the latest start holds   *)
(* the number of the listener that wrote it, 0 when missing or empty.      *)
(***************************************************************************)
EXTENDS Naturals

CONSTANTS
    MaxStarts,     \* bound: starts
    MaxPolls       \* looks for the CA certificate (50)

ASSUME LifecycleBoundsAreNaturals == MaxStarts \in Nat /\ MaxPolls \in Nat

VARIABLES
    script,        \* the step start.sh is at, or "idle"
    start,         \* the latest start
    origin,        \* the start that made its log directory
    polls,
    networks,      \* starts whose network exists
    containers,    \* [kind, of] of the containers that exist
    published,     \* starts whose listener wrote its CA certificate
    caFile,
    env,           \* the start whose values were written last, or 0
    cleanup,       \* the step cleanup.sh is at, "idle", "done" or "failed"
    listed,        \* containers or networks it listed
    unlisted,      \* history: kinds of things it got no list of
    since          \* what exists that was started since it asked for each list

scripts == <<script, start, origin, polls, env>>
docker == <<networks, containers, published, caFile>>
cleaning == <<cleanup, listed, unlisted>>
lifecycleVars == <<scripts, docker, cleaning, since>>

Steps == {"network", "http", "inspectHttp", "waitCA", "dns", "inspectDns", "env"}
Kinds == {"http", "dns", "sample"}
\* Without a honeynet a sample runs with --network none: of start 0.
Alone == 0
This(kind) == [kind |-> kind, of |-> start]

-----------------------------------------------------------------------------
LifecycleInit ==
    /\ script = "idle" /\ start = 0 /\ origin = 0 /\ polls = 0 /\ env = 0
    /\ networks = {} /\ containers = {} /\ published = {} /\ caFile = 0
    /\ cleanup = "idle" /\ listed = {} /\ unlisted = {}
    /\ since = [containers |-> {}, networks |-> {}]

StartContainer(c) ==
    containers' = containers \cup {c} /\ since' = [since EXCEPT !.containers = @ \cup {c}]

(* start.sh up to the first docker command, on a new log directory or on   *)
(* one that was used before.                                               *)
Start(new) ==
    /\ script = "idle" /\ start < MaxStarts /\ (start = 0 => new)
    /\ script' = "network" /\ start' = start + 1 /\ polls' = 0
    /\ origin' = IF new THEN start' ELSE origin
    /\ caFile' = IF new THEN 0 ELSE caFile
    /\ UNCHANGED <<env, networks, containers, published, cleaning, since>>

To(step) == script' = step /\ UNCHANGED <<start, origin, env, cleaning>>
Fail == script' = "idle" /\ UNCHANGED <<start, origin, polls, env, docker, cleaning, since>>

CreateNetwork ==
    /\ script = "network"
    /\ \/ /\ networks' = networks \cup {start} /\ To("http")
          /\ since' = [since EXCEPT !.networks = @ \cup {start}]
          /\ UNCHANGED <<polls, containers, published, caFile>>
       \/ Fail

(* docker run -d of a service on the network of this start.                *)
RunService(kind, next) ==
    \/ /\ start \in networks
       /\ StartContainer(This(kind)) /\ To(next)
       /\ UNCHANGED <<polls, networks, published, caFile>>
    \/ Fail

RunHttp == script = "http" /\ RunService("http", "inspectHttp")
RunDns == script = "dns" /\ RunService("dns", "inspectDns")

(* docker inspect of a container that is gone fails, and with it start.sh. *)
Inspect(kind, next) ==
    IF This(kind) \in containers THEN To(next) /\ UNCHANGED <<polls, docker, since>> ELSE Fail

InspectHttp == script = "inspectHttp" /\ Inspect("http", "waitCA")
InspectDns == script = "inspectDns" /\ Inspect("dns", "env")

(* Mutants: the turns of the loop are not counted; there is one too many.  *)
PollCA_Forever ==
    /\ script = "waitCA"
    /\ \/ caFile # 0 /\ To("dns") /\ UNCHANGED <<polls, docker, since>>
       \/ caFile = 0 /\ polls' = 1 - polls /\ To("waitCA")
          /\ UNCHANGED <<docker, since>>
(* Mutant: after the last turn the start goes on.                          *)
PollCA_Untested ==
    /\ script = "waitCA"
    /\ \/ (caFile # 0 \/ polls = MaxPolls) /\ To("dns") /\ UNCHANGED <<polls, docker, since>>
       \/ caFile = 0 /\ polls < MaxPolls /\ polls' = polls + 1 /\ To("waitCA")
          /\ UNCHANGED <<docker, since>>

(* The loop over [[ -s "$ca_cert" ]] and the test after it.                *)
PollCA ==
    /\ script = "waitCA"
    /\ \/ caFile # 0 /\ To("dns") /\ UNCHANGED <<polls, docker, since>>
       \/ caFile = 0 /\ polls < MaxPolls /\ polls' = polls + 1 /\ To("waitCA")
          /\ UNCHANGED <<docker, since>>
       \/ caFile = 0 /\ polls = MaxPolls /\ Fail

WriteEnv ==
    /\ script = "env" /\ script' = "idle" /\ env' = start
    /\ UNCHANGED <<start, origin, polls, docker, cleaning, since>>

(* newCertificateAuthority in the listener's process: os.WriteFile empties *)
(* the file of its log directory before it writes the certificate.         *)
PublishCA(n) ==
    /\ [kind |-> "http", of |-> n] \in containers /\ n \notin published
    /\ \/ caFile' = (IF n >= origin THEN 0 ELSE caFile) /\ UNCHANGED published
       \/ caFile' = (IF n >= origin THEN n ELSE caFile) /\ published' = published \cup {n}
    /\ UNCHANGED <<scripts, networks, containers, cleaning, since>>

(* A container ends and --rm removes it.                                   *)
End(c) ==
    /\ c \in containers /\ containers' = containers \ {c}
    /\ since' = [since EXCEPT !.containers = @ \ {c}]
    /\ UNCHANGED <<scripts, networks, published, caFile, cleaning>>

(* run-sandboxed.sh with the values of the environment file, or without a  *)
(* honeynet.                                                               *)
RunSample ==
    \E of \in {env, Alone} :
        /\ of \in networks \cup {Alone} /\ [kind |-> "sample", of |-> of] \notin containers
        /\ StartContainer([kind |-> "sample", of |-> of])
        /\ UNCHANGED <<scripts, networks, published, caFile, cleaning>>

(* cleanup.sh: docker ps, docker rm -f, docker network ls, network rm.     *)
MayBegin == cleanup \in {"idle", "done", "failed"}

(* Where no docker is found the script ends with success.                  *)
NoDocker ==
    /\ MayBegin /\ cleanup' = "done"
    /\ unlisted' = {"containers", "networks"}
    /\ UNCHANGED <<scripts, docker, listed, since>>

(* An error of a listing reads as an empty list (|| true).                 *)
ListContainers ==
    /\ MayBegin /\ cleanup' = "rm"
    /\ since' = [since EXCEPT !.containers = {}]
    /\ \/ listed' = containers /\ unlisted' = {}
       \/ listed' = {} /\ unlisted' = {"containers"}
    /\ UNCHANGED <<scripts, docker>>

(* docker ps -q lists ids: what was started since is not what was listed,  *)
(* though it has the name.  Of a listed container that is gone by now      *)
(* docker may or may not report an error; the others are removed all the   *)
(* same.                                                                   *)
RemoveContainers ==
    LET old == containers \ since.containers
    IN  /\ cleanup = "rm" /\ containers' = containers \ (listed \cap old)
        /\ \/ cleanup' = "list"
           \/ ~(listed \subseteq old) /\ cleanup' = "failed"
        /\ listed' = {}
        /\ UNCHANGED <<scripts, networks, published, caFile, unlisted, since>>

(* Mutant: only the network of the latest start is asked for.              *)
ListNetworks_Latest ==
    /\ cleanup = "list" /\ cleanup' = "rmNetworks"
    /\ since' = [since EXCEPT !.networks = {}]
    /\ \/ listed' = networks \cap {start} /\ UNCHANGED unlisted
       \/ listed' = {} /\ unlisted' = unlisted \cup {"networks"}
    /\ UNCHANGED <<scripts, docker>>

ListNetworks ==
    /\ cleanup = "list" /\ cleanup' = "rmNetworks"
    /\ since' = [since EXCEPT !.networks = {}]
    /\ \/ listed' = networks /\ UNCHANGED unlisted
       \/ listed' = {} /\ unlisted' = unlisted \cup {"networks"}
    /\ UNCHANGED <<scripts, docker>>

(* docker refuses to remove a network with a container on it.              *)
RemoveNetworks ==
    LET busy == {n \in listed : \E c \in containers : c.of = n}
    IN  /\ cleanup = "rmNetworks"
        /\ networks' = networks \ (listed \ busy)
        /\ cleanup' = IF busy = {} THEN "done" ELSE "failed"
        /\ listed' = {}
        /\ UNCHANGED <<scripts, containers, published, caFile, unlisted, since>>

StartScript ==
    CreateNetwork \/ RunHttp \/ InspectHttp \/ PollCA \/ RunDns \/ InspectDns \/ WriteEnv

LifecycleNext ==
    \/ \E new \in BOOLEAN : Start(new)
    \/ StartScript
    \/ \E n \in 1..MaxStarts : PublishCA(n)
    \/ \E c \in containers : End(c)
    \/ RunSample
    \/ NoDocker \/ ListContainers \/ RemoveContainers \/ ListNetworks \/ RemoveNetworks

LifecycleSpec == LifecycleInit /\ [][LifecycleNext]_lifecycleVars

(* A script is one process and goes on with its next command.              *)
FairLifecycleSpec == LifecycleSpec /\ WF_lifecycleVars(StartScript)

-----------------------------------------------------------------------------
(* What cleanup.sh leaves when it succeeds, also of starts that failed     *)
(* half way and with containers that end, or are started, while it works.  *)
(* If docker listed the networks, only starts whose network was created    *)
(* since then have a network or a container: what was missed of an older   *)
(* start keeps its network busy, and the script fails.  If docker listed   *)
(* the containers, those that are left were started since then.  A sample  *)
(* without a honeynet has no network to tell of it: it is left where the   *)
(* containers were not listed.  Without docker anything may be left.       *)
LeftoversAreNew ==
    cleanup = "done" =>
        /\ "networks" \notin unlisted =>
               networks \cup {c.of : c \in containers} \subseteq since.networks \cup {Alone}
        /\ "containers" \notin unlisted => containers \subseteq since.containers

(* With a new log directory the values are written only when the file they *)
(* name holds the certificate of this start's listener, whatever listeners *)
(* of earlier starts, which still run after a failure, write meanwhile.    *)
NewDirectoryNewCA == script = "env" /\ origin = start => caFile = start

(* start.sh ends, also when the listener never publishes a certificate or  *)
(* a container is gone.                                                    *)
StartEnds == script # "idle" ~> script = "idle"
=============================================================================
