------------------------------- MODULE Startup -------------------------------
(***************************************************************************)
(* The processes of datarecon as they start (bootstrap.build_container):   *)
(* each opens the metadata database and adds the columns an older one      *)
(* lacks, then reads the key that encrypts the passwords or generates it.  *)
(* A process may be killed at any step, and started again.                 *)
(***************************************************************************)
EXTENDS Integers

CONSTANTS
  Processes,
  Keys,            \* bound: the keys that can be generated
  Added,           \* how many columns were added since the first version
  Absent, Empty,   \* no key file, a key file without content
  FirstStartsAlone \* is a second process started only once there is a key?

ASSUME AddedAssumption  == Added \in Nat
ASSUME KeysAssumption   == Absent \notin Keys /\ Empty \notin Keys /\ Absent # Empty
ASSUME SwitchAssumption == FirstStartsAlone \in BOOLEAN

VARIABLES
  keyFile,  \* what the key file holds
  migrated, \* how many of the added columns the table of runs has
  proc,     \* process -> what it is doing, the column to add next, its key
  secrets   \* the keys the stored passwords are encrypted with

startup == <<keyFile, migrated, proc, secrets>>

Steps == {"down", "migrating", "reading", "generated", "writing", "up"}
Down  == [at |-> "down", next |-> 1, key |-> Absent]

(* A new database has every column; that of an older version lacks the     *)
(* later ones, and comes with a key and passwords.                         *)
StartupInit ==
  /\ keyFile \in Keys \cup {Absent}
  /\ secrets \in SUBSET ({keyFile} \cap Keys)
  /\ migrated \in 0 .. Added
  /\ proc = [p \in Processes |-> Down]

Goto(p, state) == proc' = [proc EXCEPT ![p] = state]
Starting(p)    == proc[p].at \notin {"down", "up"}

(* The scheduler has nothing to do before a page has saved a suite: who      *)
(* follows the README starts it when the page is up, and the page wrote the *)
(* key.  From then on both are started and killed as people like.           *)
MayStart ==
  FirstStartsAlone => keyFile \in Keys \/ \A q \in Processes : ~Starting(q)

(* Mutant of OpenDatabase: the migration goes by its first column only.     *)
OpenDatabaseByFirst(p) ==
  /\ proc[p].at = "down" /\ MayStart
  /\ Goto(p, [Down EXCEPT !.at = "migrating", !.next = IF migrated = 0 THEN 1 ELSE Added + 1])
  /\ UNCHANGED <<keyFile, migrated, secrets>>

(* The columns that are missing are found in one look.                     *)
OpenDatabase(p) ==
  /\ proc[p].at = "down" /\ MayStart
  /\ Goto(p, [at |-> "migrating", next |-> migrated + 1, key |-> Absent])
  /\ UNCHANGED <<keyFile, migrated, secrets>>

(* ALTER TABLE takes effect at once; a column another process has added     *)
(* meanwhile raises, and this process ends.                                 *)
AddColumn(p) ==
  /\ proc[p].at = "migrating" /\ proc[p].next <= Added
  /\ \/ /\ proc[p].next > migrated
        /\ Goto(p, [proc[p] EXCEPT !.next = @ + 1])
        /\ migrated' = proc[p].next
     \/ /\ proc[p].next <= migrated
        /\ Goto(p, Down)
        /\ UNCHANGED migrated
  /\ UNCHANGED <<keyFile, secrets>>

FindKeyFile(p) ==
  /\ proc[p].at = "migrating" /\ proc[p].next > Added
  /\ \/ keyFile # Absent /\ Goto(p, [proc[p] EXCEPT !.at = "reading"])
     \/ /\ keyFile = Absent
        /\ \E k \in Keys : Goto(p, [proc[p] EXCEPT !.at = "generated", !.key = k])
  /\ UNCHANGED <<keyFile, migrated, secrets>>

(* Fernet refuses an empty key.                                            *)
ReadKey(p) ==
  /\ proc[p].at = "reading"
  /\ \/ keyFile = Empty /\ Goto(p, Down)
     \/ keyFile # Empty /\ Goto(p, [proc[p] EXCEPT !.at = "up", !.key = keyFile])
  /\ UNCHANGED <<keyFile, migrated, secrets>>

(* write_bytes empties the file when it opens it, and then writes.         *)
OpenKeyFile(p) ==
  /\ proc[p].at = "generated"
  /\ keyFile' = Empty
  /\ Goto(p, [proc[p] EXCEPT !.at = "writing"])
  /\ UNCHANGED <<migrated, secrets>>

WriteKey(p) ==
  /\ proc[p].at = "writing"
  /\ keyFile' = proc[p].key
  /\ Goto(p, [proc[p] EXCEPT !.at = "up"])
  /\ UNCHANGED <<migrated, secrets>>

(* A connection saved with a password.                                     *)
Encrypt(p) ==
  /\ proc[p].at = "up"
  /\ secrets' = secrets \cup {proc[p].key}
  /\ UNCHANGED <<keyFile, migrated, proc>>

Kill(p) ==
  /\ proc[p].at # "down"
  /\ Goto(p, Down)
  /\ UNCHANGED <<keyFile, migrated, secrets>>

StartupNext ==
  \E p \in Processes :
    \/ OpenDatabase(p) \/ AddColumn(p) \/ FindKeyFile(p) \/ ReadKey(p)
    \/ OpenKeyFile(p) \/ WriteKey(p) \/ Encrypt(p) \/ Kill(p)

StartupSpec == StartupInit /\ [][StartupNext]_startup

-----------------------------------------------------------------------------
(* A process that is up finds every column it uses, however often the       *)
(* starts before it were killed half way and whoever migrates beside it,    *)
(* and decrypts every password that was ever stored, by whichever process   *)
(* (README.md:49: credentials are encrypted with a key generated on first   *)
(* run).                                                                    *)
UpMeansUsable ==
  \A p \in Processes : proc[p].at = "up" =>
    /\ migrated = Added
    /\ secrets \subseteq {proc[p].key}

=============================================================================
