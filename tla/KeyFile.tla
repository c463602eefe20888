------------------------------ MODULE KeyFile ------------------------------
(***************************************************************************)
(* secure.LoadOrCreateKey (internal/secure/crypto.go) run by several        *)
(* processes that share a data directory, each of which may be killed at   *)
(* any step and started again, and the mailbox passwords that a process    *)
(* which got a key seals with it.                                          *)
(*                                                                         *)
(* A key is 32 random bytes, drawn at most once.  File operations are      *)
(* single steps; link(2) is atomic and fails when the name exists.         *)
(***************************************************************************)
EXTENDS Naturals, FiniteSets

CONSTANTS
    Processes,   \* processes that share the data directory
    Keys,        \* random keys
    NoKey,       \* no key
    Invalid,     \* content that is not a key: a file without 32 bytes
    MaxFaults    \* bound: file operations that fail and processes killed

ASSUME KeyAssumption == NoKey \notin Keys /\ Invalid \notin Keys /\ Invalid # NoKey
ASSUME FaultAssumption == MaxFaults \in Nat

VARIABLES
    path,        \* master.key: its content, or NoKey when the file does not exist
    temp,        \* .master-key-* of each process: "none", "partial" or "full"
    leftover,    \* temporary files whose process is gone
    pc, key,     \* step of each process, and the key it generated or read
    drawn,       \* keys generated so far
    sealed,      \* keys that stored passwords are encrypted with
    faults

vars == <<path, temp, leftover, pc, key, drawn, sealed, faults>>

\* A data directory without a key, or with a file that is none.
Init ==
    /\ path \in {NoKey, Invalid}
    /\ temp = [p \in Processes |-> "none"] /\ leftover = 0
    /\ pc = [p \in Processes |-> "start"] /\ key = [p \in Processes |-> NoKey]
    /\ drawn = {} /\ sealed = {} /\ faults = 0

Goto(p, label) == pc' = [pc EXCEPT ![p] = label]
Hold(p, k) == key' = [key EXCEPT ![p] = k]
PutTemp(p, content) == temp' = [temp EXCEPT ![p] = content]
Faulty == faults < MaxFaults /\ faults' = faults + 1

\* Mutant of Read: the length of the file is not checked.
ReadAnything(p) ==
    /\ pc[p] = "start"
    /\ \/ path # NoKey /\ Hold(p, path) /\ Goto(p, "loaded")
       \/ path = NoKey /\ Goto(p, "generate") /\ UNCHANGED key
    /\ UNCHANGED <<path, temp, leftover, drawn, sealed, faults>>

\* readKeyFile: the key is there, or it has to be made.
Read(p) ==
    /\ pc[p] = "start"
    /\ \/ path \in Keys /\ Hold(p, path) /\ Goto(p, "loaded")
       \/ path = NoKey /\ Goto(p, "generate") /\ UNCHANGED key
    /\ UNCHANGED <<path, temp, leftover, drawn, sealed, faults>>

\* MkdirAll, rand.Reader and CreateTemp.
Generate(p) ==
    /\ pc[p] = "generate"
    /\ \E k \in Keys \ drawn : Hold(p, k) /\ drawn' = drawn \cup {k}
    /\ PutTemp(p, "partial")
    /\ Goto(p, "write")
    /\ UNCHANGED <<path, leftover, sealed, faults>>

\* Chmod, Write, Sync and Close.
Write(p) ==
    /\ pc[p] = "write"
    /\ PutTemp(p, "full")
    /\ Goto(p, "link")
    /\ UNCHANGED <<path, leftover, key, drawn, sealed, faults>>

\* os.Link publishes the temporary file, whatever it holds by now, under the
\* name of the key; when another process was first, the winner is read.
Content(p) == IF temp[p] = "full" THEN key[p] ELSE Invalid

\* Mutant of Link: os.Rename, which replaces the winner's file.
LinkReplaces(p) ==
    /\ pc[p] = "link"
    /\ path' = Content(p) /\ Goto(p, "unlink")
    /\ UNCHANGED <<temp, leftover, key, drawn, sealed, faults>>

Link(p) ==
    /\ pc[p] = "link"
    /\ IF path = NoKey
       THEN path' = Content(p) /\ Goto(p, "unlink")
       ELSE Goto(p, "readWinner") /\ UNCHANGED path
    /\ UNCHANGED <<temp, leftover, key, drawn, sealed, faults>>

\* Mutant of ReadWinner: the loser keeps its own key.
KeepOwn(p) ==
    /\ pc[p] = "readWinner" /\ path \in Keys
    /\ PutTemp(p, "none")
    /\ Goto(p, "loaded")
    /\ UNCHANGED <<path, leftover, key, drawn, sealed, faults>>

\* The deferred removal of the temporary file comes with the return.
ReadWinner(p) ==
    /\ pc[p] = "readWinner" /\ path \in Keys
    /\ Hold(p, path) /\ PutTemp(p, "none")
    /\ Goto(p, "loaded")
    /\ UNCHANGED <<path, leftover, drawn, sealed, faults>>

Unlink(p) ==
    /\ pc[p] = "unlink"
    /\ PutTemp(p, "none")
    /\ Goto(p, "created")
    /\ UNCHANGED <<path, leftover, key, drawn, sealed, faults>>

\* A file of another length is refused and stays as it is.
Refuse(p) ==
    /\ pc[p] = "start" /\ path = Invalid
    /\ Goto(p, "ended")
    /\ UNCHANGED <<path, temp, leftover, key, drawn, sealed, faults>>

\* Any file operation fails: LoadOrCreateKey returns an error, the process
\* ends, and the temporary file is removed, unless its removal is what failed.
Fail(p) ==
    /\ pc[p] \in {"start", "generate", "write", "link", "readWinner", "unlink"}
    /\ Faulty
    /\ \/ PutTemp(p, "none") /\ UNCHANGED leftover
       \/ /\ pc[p] = "unlink"
          /\ PutTemp(p, "none") /\ leftover' = leftover + 1
    /\ Hold(p, NoKey) /\ Goto(p, "ended")
    /\ UNCHANGED <<path, drawn, sealed>>

\* The process is killed; what it wrote stays.
Kill(p) ==
    /\ pc[p] # "ended" /\ Faulty
    /\ leftover' = leftover + (IF temp[p] = "none" THEN 0 ELSE 1)
    /\ PutTemp(p, "none")
    /\ Hold(p, NoKey) /\ Goto(p, "ended")
    /\ UNCHANGED <<path, drawn, sealed>>

Restart(p) ==
    /\ pc[p] = "ended"
    /\ Goto(p, "start")
    /\ UNCHANGED <<path, temp, leftover, key, drawn, sealed, faults>>

\* CreateAccount encrypts a password with the process's key.
Seal(p) ==
    /\ pc[p] \in {"loaded", "created"}
    /\ sealed' = sealed \cup {key[p]}
    /\ UNCHANGED <<path, temp, leftover, pc, key, drawn, faults>>

Step(p) ==
    \/ Read(p) \/ Generate(p) \/ Write(p) \/ Link(p) \/ ReadWinner(p) \/ Unlink(p)
    \/ Refuse(p) \/ Fail(p) \/ Kill(p) \/ Restart(p) \/ Seal(p)

Next == \E p \in Processes : Step(p)

Spec == Init /\ [][Next]_vars

-----------------------------------------------------------------------------
(* Properties. *)

\* The type of every variable.
TypeOK ==
    /\ path \in Keys \cup {NoKey, Invalid}
    /\ temp \in [Processes -> {"none", "partial", "full"}] /\ leftover \in Nat
    /\ pc \in [Processes -> {"start", "generate", "write", "link", "readWinner", "unlink",
                             "loaded", "created", "ended"}]
    /\ key \in [Processes -> Keys \cup {NoKey}]
    /\ drawn \subseteq Keys /\ sealed \subseteq Keys \cup {NoKey} /\ faults \in Nat

\* Two processes that started never work with different keys, and the key they
\* work with is the one in the file.
Agreement ==
    \A p \in Processes : pc[p] \in {"loaded", "created"} => key[p] = path /\ path \in Keys

\* Every stored password can be decrypted with the key in the file: no start,
\* race or failure leaves passwords behind that were sealed with a lost key.
Decryptable == \A k \in sealed : k = path /\ k \in Keys

\* Temporary files hold a key that nobody uses: each is left by one failure.
LeftoversBounded == leftover <= faults

\* Whatever file is there is never replaced or removed, so a published key is
\* the key for ever and a damaged one is never silently exchanged for a new one.
KeyForever == [][path # NoKey => path' = path]_path

\* The file is the choice, and a process holds the key it returned with.
Choice == INSTANCE KeyChoice WITH
              chosen <- IF path \in Keys THEN path ELSE NoKey,
              holds <- [p \in Processes |-> IF pc[p] \in {"loaded", "created"} THEN key[p] ELSE NoKey]

ImplementsChoice == Choice!Spec
=============================================================================
