------------------------------ MODULE MacAddr ------------------------------
(***************************************************************************)
(* macaddr/mac_addr_normalization.cpp: a one-shot service that leaves a    *)
(* valid address in each of two files.  A file without one is replaced by  *)
(* a freshly generated address, written to a temporary file, synced and    *)
(* renamed.  The process may be killed and the power may fail between any  *)
(* two system calls, and any of them may fail; a file that cannot be       *)
(* opened or read counts as one without an address.                        *)
(*                                                                         *)
(* A file is [text, addr, synced, owned, gen]: how much of the 17          *)
(* characters is there, the address they spell, whether the data was       *)
(* fsync()ed, whether fchmod/fchown were done, and whether StoreMac made   *)
(* it.  onDisk[p] is what the name p refers to after a power failure: the  *)
(* file of the last directory update that reached the disk.                *)
(***************************************************************************)
EXTENDS Integers

CONSTANTS FirstBytes,   \* values of the first random byte, within 0..255
          RestBytes,    \* the other five: {"zero", "ff", "other"} or a subset
          MaxBoots,     \* bound on the runs of the service
          NoFile

ASSUME MacAssumption == /\ FirstBytes \subseteq 0 .. 255
                        /\ RestBytes \subseteq {"zero", "ff", "other"}
                        /\ MaxBoots \in Nat

\* What the model can distinguish of a file, whoever wrote it.
Files == [text : {"empty", "partial", "full"},
          addr : [first : 0 .. 255, rest : {"zero", "ff", "other"}],
          synced : BOOLEAN, owned : BOOLEAN, gen : BOOLEAN]

ASSUME NoFileAssumption == NoFile \notin Files

Paths == {"bluetooth", "wifi"}
Address == [first : FirstBytes, rest : RestBytes]

VARIABLES
    path,       \* path[p]: the file every process sees, or NoFile
    onDisk,     \* onDisk[p]: the file the name refers to on the disk
    tmp,        \* tmp[p]: the temporary file, or NoFile
    pc,         \* where the service is
    cur,        \* the path EnsureMac works on
    address,    \* the address StoreMac has generated
    ok,         \* ok[p]: what EnsureMac returned
    exit,       \* exit status of the last run
    boots

vars == <<path, onDisk, tmp, pc, cur, address, ok, exit, boots>>
fileVars == <<path, onDisk, tmp>>

File(text, a, owned, gen) ==
    [text |-> text, addr |-> a, synced |-> TRUE, owned |-> owned, gen |-> gen]

-----------------------------------------------------------------------------
\* "(address[0] & 0xfe) | 0x02"
GenerateMac(a) ==
    LET even == a.first - (a.first % 2)
    IN  [a EXCEPT !.first = IF (even \div 2) % 2 = 1 THEN even ELSE even + 2]

\* ParseMac on a complete text: neither all zero, nor all ff, nor multicast.
ParseMac(a) == /\ ~(a.first = 0 /\ a.rest = "zero")
               /\ ~(a.first = 255 /\ a.rest = "ff")
               /\ a.first % 2 = 0

ValidFile(f) == f # NoFile /\ f.text = "full" /\ ParseMac(f.addr)

\* Mutant: the text is not parsed.
HasValidMac_Exists(p) == {FALSE, path[p] # NoFile}

\* HasValidMac(): the answers it may give.  It is FALSE, too, when open() or
\* read() fails, whatever the file holds.
HasValidMac(p) == {FALSE, ValidFile(path[p])}

\* What a disk may hold before the service first runs, and what the vendor
\* helper may leave: nothing, junk, or a complete address, good or bad.
Found == {NoFile} \cup {File("partial", a, TRUE, FALSE) : a \in Address}
                  \cup {File("full", a, TRUE, FALSE) : a \in Address}

Blank == CHOOSE a \in Address : TRUE

Init ==
    /\ path \in [Paths -> Found]
    /\ onDisk = path
    /\ tmp = [p \in Paths |-> NoFile]
    /\ pc = "main"
    /\ cur = "bluetooth"
    /\ address = Blank
    /\ ok = [p \in Paths |-> FALSE]
    /\ exit = 1
    /\ boots = 0

-----------------------------------------------------------------------------
\* main(): the vendor helper runs unless both addresses are valid.
MainChecks ==
    /\ pc = "main"
    /\ \E bluetooth \in HasValidMac("bluetooth"), wifi \in HasValidMac("wifi") :
          pc' = IF bluetooth /\ wifi THEN "ensure" ELSE "helper"
    /\ cur' = "bluetooth"
    /\ UNCHANGED <<fileVars, address, ok, exit, boots>>

\* RunVendorHelper(): it may fail to start, or fail, or write either file.
RunVendorHelper ==
    /\ pc = "helper"
    /\ path' \in [Paths -> Found \cup {path[p] : p \in Paths}]
    /\ \A p \in Paths : path'[p] \in Found \/ path'[p] = path[p]
    /\ onDisk' = path'
    /\ pc' = "ensure"
    /\ UNCHANGED <<tmp, cur, address, ok, exit, boots>>

\* EnsureMac() has a result; main() goes on with the other path.
Ensured(p, result) ==
    /\ ok' = [ok EXCEPT ![p] = result]
    /\ pc' = IF p = "bluetooth" THEN "ensure" ELSE "return"
    /\ cur' = "wifi"

\* EnsureMac(): a valid address is left alone.
EnsureFindsValid ==
    /\ pc = "ensure"
    /\ TRUE \in HasValidMac(cur)
    /\ Ensured(cur, TRUE)
    /\ UNCHANGED <<fileVars, address, exit, boots>>

\* StoreMac(): GenerateMac() reads /dev/urandom.
StoreGenerates ==
    /\ pc = "ensure"
    /\ FALSE \in HasValidMac(cur)
    /\ \E random \in Address : address' = GenerateMac(random)
    /\ pc' = "unlink"
    /\ UNCHANGED <<fileVars, cur, ok, exit, boots>>

\* Mutant: the file that is to be replaced is removed instead.
StoreUnlinks_Target ==
    /\ pc = "unlink"
    /\ tmp' = [tmp EXCEPT ![cur] = NoFile]
    /\ path' = [path EXCEPT ![cur] = NoFile]
    /\ pc' = "create"
    /\ UNCHANGED <<onDisk, cur, address, ok, exit, boots>>

\* A temporary file left by a run that was cut short is removed first.
StoreUnlinks ==
    /\ pc = "unlink"
    /\ tmp' = [tmp EXCEPT ![cur] = NoFile]
    /\ pc' = "create"
    /\ UNCHANGED <<path, onDisk, cur, address, ok, exit, boots>>

\* open(O_CREAT | O_EXCL)
StoreCreates ==
    /\ pc = "create"
    /\ tmp[cur] = NoFile
    /\ tmp' = [tmp EXCEPT ![cur] = [File("empty", address, FALSE, TRUE) EXCEPT !.synced = FALSE]]
    /\ pc' = "attributes"
    /\ UNCHANGED <<path, onDisk, cur, address, ok, exit, boots>>

\* fchmod() and fchown()
StoreSetsAttributes ==
    /\ pc = "attributes"
    /\ tmp' = [tmp EXCEPT ![cur].owned = TRUE]
    /\ pc' = "write"
    /\ UNCHANGED <<path, onDisk, cur, address, ok, exit, boots>>

\* WriteFully() loops until everything is written.
WrittenFully(text) == text = "full"

StoreWrites ==
    /\ pc = "write"
    /\ \E text \in {"partial", "full"} :
          /\ tmp' = [tmp EXCEPT ![cur].text = text]
          /\ pc' = IF WrittenFully(text) THEN "fsync" ELSE "write"
    /\ UNCHANGED <<path, onDisk, cur, address, ok, exit, boots>>

\* Mutant: the data is not synced before the rename.
AfterFsync_None(f) == f

AfterFsync(f) == [f EXCEPT !.synced = TRUE]

StoreSyncs ==
    /\ pc = "fsync"
    /\ tmp' = [tmp EXCEPT ![cur] = AfterFsync(@)]
    /\ pc' = "rename"
    /\ UNCHANGED <<path, onDisk, cur, address, ok, exit, boots>>

\* rename(): the name changes for every process at once; the directory update
\* reaches the disk later.
StoreRenames ==
    /\ pc = "rename"
    /\ path' = [path EXCEPT ![cur] = tmp[cur]]
    /\ tmp' = [tmp EXCEPT ![cur] = NoFile]
    /\ Ensured(cur, TRUE)
    /\ UNCHANGED <<onDisk, address, exit, boots>>

\* A failure before the temporary file exists: StoreMac() returns false.
StoreFailsEarly ==
    /\ pc \in {"unlink", "create"}
    /\ Ensured(cur, FALSE)
    /\ UNCHANGED <<fileVars, address, exit, boots>>

\* GenerateMac() fails.
GenerateFails ==
    /\ pc = "ensure"
    /\ FALSE \in HasValidMac(cur)
    /\ Ensured(cur, FALSE)
    /\ UNCHANGED <<fileVars, address, exit, boots>>

\* A later failure: the temporary file is removed, which may fail as well.
StoreFailsLate ==
    /\ pc \in {"attributes", "write", "fsync", "rename"}
    /\ \/ tmp' = [tmp EXCEPT ![cur] = NoFile]
       \/ UNCHANGED tmp
    /\ Ensured(cur, FALSE)
    /\ UNCHANGED <<path, onDisk, address, exit, boots>>

\* "return bluetooth_ok && wifi_ok ? 0 : 1"
ExitStatus == IF ok["bluetooth"] /\ ok["wifi"] THEN 0 ELSE 1

MainReturns ==
    /\ pc = "return"
    /\ exit' = ExitStatus
    /\ pc' = "exited"
    /\ UNCHANGED <<fileVars, cur, address, ok, boots>>

-----------------------------------------------------------------------------
\* The file system writes its pending directory updates.
FlushDirectories ==
    /\ onDisk # path
    /\ onDisk' = path
    /\ UNCHANGED <<path, tmp, pc, cur, address, ok, exit, boots>>

\* Data that was not synced may be there in part or not at all.
Damaged(f) == IF f = NoFile \/ f.synced THEN {f}
              ELSE {[f EXCEPT !.text = t, !.synced = TRUE] : t \in {"empty", "partial", f.text}}

Restart ==
    /\ boots < MaxBoots
    /\ boots' = boots + 1
    /\ pc' = "main"
    /\ cur' = "bluetooth"
    /\ address' = Blank
    /\ ok' = [p \in Paths |-> FALSE]
    /\ exit' = 1

\* The power fails at any point; the service runs again at the next boot.  A
\* temporary file may be there or not.
PowerFails ==
    /\ path' \in [Paths -> UNION {Damaged(path[p]) \cup Damaged(onDisk[p]) : p \in Paths}]
    /\ \A p \in Paths : path'[p] \in Damaged(path[p]) \cup Damaged(onDisk[p])
    /\ onDisk' = path'
    /\ \/ tmp' = [p \in Paths |-> NoFile]
       \/ UNCHANGED tmp
    /\ Restart

\* The service is killed or has ended, and is started again.
StartedAgain ==
    /\ Restart
    /\ UNCHANGED fileVars

Service == \/ MainChecks \/ RunVendorHelper \/ EnsureFindsValid \/ StoreGenerates
           \/ StoreUnlinks \/ StoreCreates \/ StoreSetsAttributes \/ StoreWrites
           \/ StoreSyncs \/ StoreRenames \/ StoreFailsEarly \/ StoreFailsLate
           \/ GenerateFails \/ MainReturns

Next == Service \/ FlushDirectories \/ PowerFails \/ StartedAgain

Spec == Init /\ [][Next]_vars

-----------------------------------------------------------------------------
TypeOK ==
    /\ path \in [Paths -> Files \cup {NoFile}]
    /\ onDisk \in [Paths -> Files \cup {NoFile}]
    /\ tmp \in [Paths -> Files \cup {NoFile}]
    /\ pc \in {"main", "helper", "ensure", "unlink", "create", "attributes", "write", "fsync",
               "rename", "return", "exited"}
    /\ cur \in Paths
    /\ ok \in [Paths -> BOOLEAN] /\ exit \in {0, 1} /\ boots \in 0 .. MaxBoots

\* A file StoreMac() installed is complete, valid and has its owner and mode at
\* every moment a reader may look, after a power failure, too: the address is
\* written, synced and owned before rename() gives it the name.
InstalledIsComplete ==
    \A p \in Paths : path[p] # NoFile /\ path[p].gen => ValidFile(path[p]) /\ path[p].owned

\* Exit status 0 means that both files hold a valid address.
ExitZeroMeansValid == pc = "exited" /\ exit = 0 => \A p \in Paths : ValidFile(path[p])

\* A valid address that has reached the disk may be replaced, because it could
\* not be read, but the device is never left without one: no system call, failure,
\* kill or power failure makes the file invalid or takes it away.  Only the vendor
\* helper may.
AddressStaysValid ==
    [][pc # "helper" => \A p \in Paths :
         ValidFile(path[p]) /\ ValidFile(onDisk[p]) => ValidFile(path'[p]) /\ ValidFile(onDisk'[p])]_vars
=============================================================================
