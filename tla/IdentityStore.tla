--------------------------- MODULE IdentityStore ---------------------------
(***************************************************************************)
(* The keystore of sdkt-storage (identity.rs): one file per identity and   *)
(* one symbolic link, `default`, shared by every sdkt process of a user.   *)
(* An action is one system call that changes the directory, or one look at *)
(* it, so that processes interleave and die between them.                  *)
(***************************************************************************)
EXTENDS Integers

CONSTANTS Names,       \* identity names
          Default,     \* the reserved name "default"
          Procs,       \* sdkt processes
          Ops,         \* the commands they run
          Settings,    \* the circumstances they may run in
          MaxKey       \* bound: keys made

ASSUME ConstantsAssumption ==
    /\ Default \notin Names
    /\ Ops \subseteq {"generate", "import", "remove", "set_default", "sign"}
    /\ Settings \subseteq [sequential : BOOLEAN, relative : BOOLEAN, faults : BOOLEAN]
    /\ MaxKey \in Nat

VARIABLES setting, \* the circumstances of this behaviour, never changed
          file,    \* per name: Absent, Empty (no secret in it) or a key
          link,    \* what the link `default` names, Default when there is none
          made,    \* keys made so far
          pc, op, name,   \* per process: where it is, what it runs, on what
          key,     \* per process: the key to be saved
          linked,  \* the processes whose open file still has a name
          target,  \* per process: the identity that signs
          source,  \* per process: the account of that identity
          signer,  \* per process: the key that signs
          end,     \* per process: how the command ended
          told,    \* per name: the key its creator was told of, 0 when none
          chosen   \* the identity last made default, Default when none was

dir == <<file, link, made>>
run == <<op, name, key, linked, target, source, signer>>
vars == <<setting, dir, run, pc, end, told, chosen>>

Sequential == setting.sequential  \* no two commands overlap
RelativeDir == setting.relative   \* SDKT_IDENTITY_DIR is a relative path
Faults == setting.faults          \* system calls may fail, processes may be killed

Absent == -1
Empty == 0
Keys == 1 .. MaxKey

Init ==
    /\ setting \in Settings
    /\ file = [n \in Names |-> Absent]
    /\ link = Default
    /\ made = 0
    /\ pc = [p \in Procs |-> "idle"]
    /\ op = [p \in Procs |-> "none"]
    /\ name = [p \in Procs |-> Default]
    /\ key = [p \in Procs |-> 0]
    /\ linked = {}
    /\ target = [p \in Procs |-> Default]
    /\ source = [p \in Procs |-> 0]
    /\ signer = [p \in Procs |-> 0]
    /\ end = [p \in Procs |-> "none"]
    /\ told = [n \in Names |-> 0]
    /\ chosen = Default

Goto(p, where) == pc' = [pc EXCEPT ![p] = where]
End(p, how) == Goto(p, "ended") /\ end' = [end EXCEPT ![p] = how]

\* The path of an identity exists; nothing is ever stored under "default".
Exists(n) == n \in Names /\ file[n] # Absent

\* default_path.exists() follows the link: a link whose identity is gone, or
\* whose relative target starts from the wrong directory, does not exist.
LinkExists == link # Default /\ Exists(link) /\ ~RelativeDir

\* A command of the user; --identity of the signing ones defaults to "default".
Start(p) ==
    /\ pc[p] = "idle"
    /\ Sequential => \A q \in Procs : pc[q] = "idle"
    /\ \E o \in Ops, n \in Names \cup {Default} :
         /\ op' = [op EXCEPT ![p] = o]
         /\ name' = [name EXCEPT ![p] = n]
         /\ Goto(p, o)
    /\ UNCHANGED <<dir, key, linked, target, source, signer, end, told, chosen>>

-----------------------------------------------------------------------------
\* generate and import

\* Mutant: the name is not looked up.
NameValidUnchecked(n) == n # Default

\* ensure_name_valid
NameValid(n) == n # Default /\ ~Exists(n)

\* generate and import: a random key if there is randomness left, or the one
\* imported, which may be any that was made before.
NewKey(p) ==
    /\ pc[p] \in {"generate", "import"}
    /\ \/ /\ ~NameValid(name[p])
          /\ End(p, IF name[p] = Default THEN "InvalidName" ELSE "AlreadyExists")
          /\ UNCHANGED <<made, key>>
       \/ /\ NameValid(name[p])
          /\ \/ pc[p] = "import" /\ End(p, "InvalidStrKey")
             \/ pc[p] = "generate" /\ (made = MaxKey \/ Faults) /\ End(p, "NoRandomness")
          /\ UNCHANGED <<made, key>>
       \/ /\ NameValid(name[p])
          /\ \/ /\ made < MaxKey
                /\ key' = [key EXCEPT ![p] = made + 1]
                /\ made' = made + 1
             \/ /\ pc[p] = "import"
                /\ \E k \in 1 .. made : key' = [key EXCEPT ![p] = k]
                /\ UNCHANGED made
          /\ Goto(p, "open")
          /\ UNCHANGED end
    /\ UNCHANGED <<file, link, op, name, linked, target, source, signer, told, chosen>>

\* save_key opens the file: created, or emptied if it is there by now.
OpenKeyFile(p) ==
    /\ pc[p] = "open"
    /\ file' = [file EXCEPT ![name[p]] = Empty]
    /\ linked' = linked \cup {p}
    /\ Goto(p, "write")
    /\ UNCHANGED <<link, made, op, name, key, target, source, signer, end, told, chosen>>

\* write_all, and the public key is printed.
WriteKey(p) ==
    /\ pc[p] = "write"
    /\ file' = IF p \in linked THEN [file EXCEPT ![name[p]] = key[p]] ELSE file
    /\ told' = [told EXCEPT ![name[p]] = key[p]]
    /\ End(p, "Ok")
    /\ UNCHANGED <<link, made, run, chosen>>

-----------------------------------------------------------------------------
\* remove

RemoveCheck(p) ==
    /\ pc[p] = "remove"
    /\ \/ ~Exists(name[p]) /\ End(p, "NotFound")
       \/ Exists(name[p]) /\ Goto(p, "unlink") /\ UNCHANGED end
    /\ UNCHANGED <<dir, run, told, chosen>>

\* fs::remove_file: whoever has the file open writes to a file without a name.
RemoveFile(p) ==
    /\ pc[p] = "unlink"
    /\ \/ /\ ~Exists(name[p])
          /\ End(p, "Io")
          /\ UNCHANGED <<file, linked, told>>
       \/ /\ Exists(name[p])
          /\ file' = [file EXCEPT ![name[p]] = Absent]
          /\ linked' = {q \in linked : name[q] # name[p]}
          /\ told' = [told EXCEPT ![name[p]] = 0]
          /\ Goto(p, "clear")
          /\ UNCHANGED end
    /\ UNCHANGED <<link, made, op, name, key, target, source, signer, chosen>>

\* Mutant: the link is cleared whatever identity it names.
ClearCheckAny(p) ==
    /\ pc[p] = "clear"
    /\ \/ LinkExists /\ Goto(p, "clear_link") /\ UNCHANGED end
       \/ ~LinkExists /\ End(p, "Ok")
    /\ UNCHANGED <<dir, run, told, chosen>>

\* The link is looked up after the file is gone.
ClearCheck(p) ==
    /\ pc[p] = "clear"
    /\ \/ LinkExists /\ link = name[p] /\ Goto(p, "clear_link") /\ UNCHANGED end
       \/ ~(LinkExists /\ link = name[p]) /\ End(p, "Ok")
    /\ UNCHANGED <<dir, run, told, chosen>>

ClearLink(p) ==
    /\ pc[p] = "clear_link"
    /\ link' = Default
    /\ End(p, "Ok")
    /\ UNCHANGED <<file, made, run, told, chosen>>

-----------------------------------------------------------------------------
\* set_default

DefaultCheck(p) ==
    /\ pc[p] = "set_default"
    /\ \/ ~Exists(name[p]) /\ End(p, "NotFound")
       \/ Exists(name[p]) /\ Goto(p, "old_link") /\ UNCHANGED end
    /\ UNCHANGED <<dir, run, told, chosen>>

RemoveOldLink(p) ==
    /\ pc[p] = "old_link"
    /\ link' = IF LinkExists THEN Default ELSE link
    /\ Goto(p, "symlink")
    /\ UNCHANGED <<file, made, run, end, told, chosen>>

\* symlink fails when there is a link, whatever it names.
Symlink(p) ==
    /\ pc[p] = "symlink"
    /\ \/ /\ link # Default
          /\ End(p, "LinkInTheWay")
          /\ UNCHANGED <<link, chosen>>
       \/ /\ link = Default
          /\ link' = name[p]
          /\ chosen' = name[p]
          /\ End(p, "Ok")
    /\ UNCHANGED <<file, made, run, told>>

-----------------------------------------------------------------------------
\* Signing commands

\* resolve_signing_identity: the reserved name goes through the link.
Resolve(p) ==
    /\ pc[p] = "sign"
    /\ \/ /\ name[p] = Default /\ ~LinkExists
          /\ End(p, "NoDefaultIdentity")
          /\ UNCHANGED target
       \/ /\ name[p] # Default \/ LinkExists
          /\ target' = [target EXCEPT ![p] = IF name[p] = Default THEN link ELSE name[p]]
          /\ Goto(p, "get")
          /\ UNCHANGED end
    /\ UNCHANGED <<dir, op, name, key, linked, source, signer, told, chosen>>

\* get: the public key becomes the source account.
Get(p) ==
    /\ pc[p] = "get"
    /\ \/ /\ file[target[p]] \in {Absent, Empty}
          /\ End(p, IF name[p] = Default THEN "NoDefaultIdentity" ELSE "Io")
          /\ UNCHANGED source
       \/ /\ file[target[p]] \notin {Absent, Empty}
          /\ source' = [source EXCEPT ![p] = file[target[p]]]
          /\ Goto(p, "load")
          /\ UNCHANGED end
    /\ UNCHANGED <<dir, op, name, key, linked, target, signer, told, chosen>>

\* load_signing_key reads the file once more.
LoadSigningKey(p) ==
    /\ pc[p] = "load"
    /\ \/ /\ file[target[p]] \in {Absent, Empty}
          /\ End(p, "Io")
          /\ UNCHANGED signer
       \/ /\ file[target[p]] \notin {Absent, Empty}
          /\ signer' = [signer EXCEPT ![p] = file[target[p]]]
          /\ End(p, "Ok")
    /\ UNCHANGED <<dir, op, name, key, linked, target, source, told, chosen>>

-----------------------------------------------------------------------------

\* A system call fails or the process is killed: the command is over there.
Fail(p) ==
    /\ Faults
    /\ pc[p] \notin {"idle", "ended"}
    /\ End(p, "Failed")
    /\ UNCHANGED <<dir, run, told, chosen>>

\* The process exits; its variables and its open file are gone.
Exit(p) ==
    /\ pc[p] = "ended"
    /\ Goto(p, "idle")
    /\ op' = [op EXCEPT ![p] = "none"]
    /\ name' = [name EXCEPT ![p] = Default]
    /\ key' = [key EXCEPT ![p] = 0]
    /\ linked' = linked \ {p}
    /\ target' = [target EXCEPT ![p] = Default]
    /\ source' = [source EXCEPT ![p] = 0]
    /\ signer' = [signer EXCEPT ![p] = 0]
    /\ end' = [end EXCEPT ![p] = "none"]
    /\ UNCHANGED <<dir, told, chosen>>

Step(p) ==
    \/ Start(p)
    \/ NewKey(p) \/ OpenKeyFile(p) \/ WriteKey(p)
    \/ RemoveCheck(p) \/ RemoveFile(p) \/ ClearCheck(p) \/ ClearLink(p)
    \/ DefaultCheck(p) \/ RemoveOldLink(p) \/ Symlink(p)
    \/ Resolve(p) \/ Get(p) \/ LoadSigningKey(p)
    \/ Fail(p) \/ Exit(p)

Next == UNCHANGED setting /\ \E p \in Procs : Step(p)

Spec == Init /\ [][Next]_vars

-----------------------------------------------------------------------------
\* Properties

\* All variables stay in their types.
TypeOK ==
    /\ setting \in Settings
    /\ file \in [Names -> {Absent, Empty} \cup Keys]
    /\ link \in Names \cup {Default}
    /\ made \in 0 .. MaxKey
    /\ pc \in [Procs -> {"idle", "generate", "import", "open", "write", "remove", "unlink",
                         "clear", "clear_link", "set_default", "old_link", "symlink",
                         "sign", "get", "load", "ended"}]
    /\ op \in [Procs -> Ops \cup {"none"}]
    /\ name \in [Procs -> Names \cup {Default}]
    /\ key \in [Procs -> 0 .. MaxKey]
    /\ linked \subseteq Procs
    /\ target \in [Procs -> Names \cup {Default}]
    /\ source \in [Procs -> 0 .. MaxKey]
    /\ signer \in [Procs -> 0 .. MaxKey]
    /\ end \in [Procs -> {"none", "Ok", "InvalidName", "AlreadyExists", "InvalidStrKey",
                          "NoRandomness", "NotFound", "Io", "LinkInTheWay",
                          "NoDefaultIdentity", "Failed"}]
    /\ told \in [Names -> 0 .. MaxKey]
    /\ chosen \in Names \cup {Default}

\* With one command at a time, a key that somebody was told of is in the store
\* under that name until the identity is deleted: no later command, finished or
\* killed, empties or replaces it ("Identity already exists").
ReportedKeyIsStored == Sequential => \A n \in Names : told[n] # 0 => file[n] = told[n]

Signed(p) == op[p] = "sign" /\ end[p] = "Ok"

\* With one command at a time, a command that signs with the reserved name
\* "default" signs with the identity that was last made default, through all
\* failures and deletions.
SentinelIsTheChosen ==
    Sequential => \A p \in Procs : Signed(p) /\ name[p] = Default => target[p] = chosen

\* Commands that overlap and do not fail leave no identity without a secret, also
\* when they create and delete the same one.
IdleMeansComplete ==
    ~Faults /\ (\A p \in Procs : pc[p] = "idle") => \A n \in Names : file[n] # Empty

\* "NoDefaultIdentity when the sentinel is used and no default has been
\* configured": with one command at a time, no failures and an absolute
\* directory, whoever made an identity default that still exists is not told
\* that there is none.
NoDefaultMeansNoneSet ==
    Sequential /\ ~Faults /\ ~RelativeDir =>
        \A p \in Procs : end[p] = "NoDefaultIdentity" => ~Exists(chosen)

\* The default identity and the store around it are what the commands said: the
\* reserved name signs with the chosen one, is refused only when there is none,
\* and overlapping commands leave no identity half made.
DefaultIsHonest == SentinelIsTheChosen /\ NoDefaultMeansNoneSet /\ IdleMeansComplete

\* "choose one with `sdkt identity default <name>`": that command works for every
\* identity that is there.
DefaultCanBeSet == \A p \in Procs : end[p] # "LinkInTheWay"
=============================================================================
