--------------------------- MODULE ServerIdentity ---------------------------
(***************************************************************************)
(* The server's long-term identity (identity.rs, and main.rs up to the     *)
(* publication of the verifying key): the seed file, the key in memory,    *)
(* and the key handed to clients, which pin it for good.                   *)
(*                                                                         *)
(* A seed, the signing key made from it and the verifying key clients pin  *)
(* are one value. fs::write creates and truncates the file before it       *)
(* writes: in between, and for good if the process dies there, the file is *)
(* "short", and load_or_create refuses it.                                 *)
(***************************************************************************)
CONSTANTS
    Keys,      \* the identities a generation may yield
    NoKey      \* no identity in memory, none published, none pinned

ASSUME KeysAssumption == Keys # {} /\ NoKey \notin Keys /\ {"absent", "short"} \cap Keys = {}

VARIABLES
    seed,       \* the seed file: "absent", "short", or a key
    identity,   \* the key the process holds, NoKey before it has one
    published   \* the key in the .pub file and on the console

idVars == <<seed, identity, published>>

IdTypeOK ==
    /\ seed \in Keys \cup {"absent", "short"}
    /\ identity \in Keys \cup {NoKey}
    /\ published \in Keys \cup {NoKey}

IdInit == seed = "absent" /\ identity = NoKey /\ published = NoKey

\* Bug: a fresh identity at every start.
BugLoad ==
    /\ identity = NoKey /\ seed \in Keys
    /\ \E k \in Keys : identity' = k /\ seed' = k
    /\ UNCHANGED published

\* load_or_create with a whole file.
Load ==
    /\ identity = NoKey /\ seed \in Keys
    /\ identity' = seed
    /\ UNCHANGED <<seed, published>>

\* load_or_create without a file: a key is generated and its file opened.
Create ==
    /\ identity = NoKey /\ seed = "absent"
    /\ identity' \in Keys
    /\ seed' = "short"
    /\ UNCHANGED published

\* The write of the 32 bytes.
save ==
    /\ identity \in Keys /\ seed = "short"
    /\ seed' = identity
    /\ UNCHANGED <<identity, published>>

\* The .pub file, written at every start (its failure is ignored: the key is
\* printed as well).
Publish ==
    /\ identity \in Keys /\ seed = identity /\ published # identity
    /\ published' = identity
    /\ UNCHANGED <<seed, identity>>

\* The key is in memory, on disk and published: main goes on.
Ready == identity \in Keys /\ seed = identity /\ published = identity

\* The process dies.
Forget == identity' = NoKey /\ UNCHANGED <<seed, published>>

Boot == Load \/ Create \/ save \/ Publish
=============================================================================
