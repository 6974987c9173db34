---------------------------- MODULE MacAddrProofs ----------------------------
(***************************************************************************)
(* The MAC address service for any random bytes, any files it may find and *)
(* any number of boots.  That an installed file is complete cannot be seen *)
(* from the files alone: the inductive invariant follows the temporary     *)
(* file through open(), fchmod(), write() and fsync(), and carries over    *)
(* to what the disk holds, which a power failure brings back.              *)
(***************************************************************************)
EXTENDS MacAddr, TLAPS

Storing == pc \in {"unlink", "create", "attributes", "write", "fsync", "rename"}

\* StoreMac() writes a valid address.
StoresValid == Storing => /\ address \in [first : 0 .. 255, rest : {"zero", "ff", "other"}]
                          /\ ParseMac(address)

\* How far the temporary file is.
TemporaryFile ==
    /\ pc \in {"attributes", "write", "fsync", "rename"} =>
          tmp[cur] \in Files /\ tmp[cur].addr = address
    /\ pc \in {"write", "fsync", "rename"} => tmp[cur].owned
    /\ pc \in {"fsync", "rename"} => tmp[cur].text = "full"
    /\ pc = "rename" => tmp[cur].synced

\* A file under its final name is on the disk with all it holds, and if StoreMac()
\* made it, it lacks nothing.
Complete(f) == f # NoFile => f.synced /\ (f.gen => ValidFile(f) /\ f.owned)

FilesAreComplete == \A p \in Paths : Complete(path[p]) /\ Complete(onDisk[p])

\* EnsureMac() returned true for files that are valid now.
ResultsAreTrue ==
    /\ pc \in {"main", "helper"} => \A p \in Paths : ~ok[p]
    /\ \A p \in Paths : ok[p] => ValidFile(path[p])
    /\ pc = "exited" /\ exit = 0 => \A p \in Paths : ok[p]

IndInv == TypeOK /\ StoresValid /\ TemporaryFile /\ FilesAreComplete /\ ResultsAreTrue

-----------------------------------------------------------------------------
\* Whatever /dev/urandom gives, GenerateMac() makes an address of it that the
\* next boot accepts: unicast, not zero, not all ff.
LEMMA GeneratedIsValid ==
  ASSUME NEW a \in [first : 0 .. 255, rest : {"zero", "ff", "other"}]
  PROVE  /\ GenerateMac(a) \in [first : 0 .. 255, rest : {"zero", "ff", "other"}]
         /\ ParseMac(GenerateMac(a))
<1> DEFINE even == a.first - (a.first % 2)
           f == IF (even \div 2) % 2 = 1 THEN even ELSE even + 2
<1>1. f \in 0 .. 255 /\ f % 2 = 0 /\ f # 0 /\ f # 255
  OBVIOUS
<1>2. GenerateMac(a) = [a EXCEPT !.first = f]
  BY DEF GenerateMac
<1> HIDE DEF f
<1> QED
  BY <1>1, <1>2 DEF ParseMac

\* What is found on a new device, or left by the vendor helper, is not StoreMac's.
LEMMA FoundIsComplete ==
  ASSUME NEW f \in Found
  PROVE  f \in Files \cup {NoFile} /\ Complete(f)
<1>1. CASE f = NoFile
  BY <1>1 DEF Complete
<1>2. ASSUME NEW text \in {"partial", "full"}, NEW a \in Address,
             f = File(text, a, TRUE, FALSE)
      PROVE  f \in Files /\ f.synced /\ ~f.gen
  BY <1>2, MacAssumption DEF File, Files, Address
<1> QED
  BY <1>1, <1>2 DEF Found, Complete

\* A power failure does not damage a file that is on the disk.
LEMMA CompleteIsNotDamaged ==
  ASSUME NEW f, Complete(f)
  PROVE  Damaged(f) = {f}
  BY DEF Complete, Damaged

\* The initial states satisfy the invariant.
LEMMA InitIndInv == Init => IndInv
<1> SUFFICES ASSUME Init PROVE IndInv
  OBVIOUS
<1>1. TypeOK /\ FilesAreComplete
  BY MacAssumption, FoundIsComplete DEF Init, TypeOK, Paths, FilesAreComplete
<1>2. StoresValid /\ TemporaryFile /\ ResultsAreTrue
  BY DEF Init, StoresValid, Storing, TemporaryFile, ResultsAreTrue
<1> QED
  BY <1>1, <1>2 DEF IndInv

\* Every system call, failure, kill and power failure preserves it.
LEMMA NextIndInv == IndInv /\ [Next]_vars => IndInv'
<1> SUFFICES ASSUME IndInv, [Next]_vars PROVE IndInv'
  OBVIOUS
<1> USE MacAssumption
<1>1. ASSUME MainChecks
      PROVE  IndInv'
  <2>1. TypeOK'
    BY <1>1 DEF IndInv, MainChecks, fileVars, TypeOK, Paths
  <2>2. StoresValid'
    BY <1>1 DEF IndInv, MainChecks, fileVars, StoresValid, Storing, TypeOK, Paths
  <2>3. TemporaryFile'
    BY <1>1 DEF IndInv, MainChecks, fileVars, TemporaryFile, StoresValid, Storing, TypeOK,
       Paths
  <2>4. FilesAreComplete'
    BY <1>1 DEF IndInv, MainChecks, fileVars, FilesAreComplete, TypeOK, Paths
  <2>5. ResultsAreTrue'
    BY <1>1 DEF IndInv, MainChecks, fileVars, ResultsAreTrue, TypeOK, Paths
  <2> QED BY <2>1, <2>2, <2>3, <2>4, <2>5 DEF IndInv
<1>2. ASSUME RunVendorHelper
      PROVE  IndInv'
  <2> DEFINE Good(f) == f \in Files \cup {NoFile} /\ Complete(f)
  <2>1. \A p \in Paths : Good(path'[p])
    BY <1>2, FoundIsComplete DEF IndInv, RunVendorHelper, TypeOK, FilesAreComplete
  <2> HIDE DEF Good
  <2>2. TypeOK'
    BY <1>2, <2>1 DEF IndInv, RunVendorHelper, fileVars, TypeOK, Paths, Good
  <2>3. StoresValid'
    BY <1>2 DEF IndInv, RunVendorHelper, fileVars, StoresValid, Storing, TypeOK, Paths
  <2>4. TemporaryFile'
    BY <1>2 DEF IndInv, RunVendorHelper, fileVars, TemporaryFile, StoresValid, Storing,
       TypeOK, Paths
  <2>5. FilesAreComplete'
    BY <1>2, <2>1 DEF IndInv, RunVendorHelper, fileVars, FilesAreComplete, TypeOK, Paths,
       Good
  <2>6. ResultsAreTrue'
    BY <1>2 DEF IndInv, RunVendorHelper, fileVars, ResultsAreTrue, TypeOK, Paths
  <2> QED BY <2>2, <2>3, <2>4, <2>5, <2>6 DEF IndInv
<1>3. ASSUME EnsureFindsValid
      PROVE  IndInv'
  <2>1. TypeOK'
    BY <1>3 DEF IndInv, EnsureFindsValid, Ensured, fileVars, TypeOK, Paths
  <2>2. StoresValid'
    BY <1>3 DEF IndInv, EnsureFindsValid, Ensured, fileVars, StoresValid,
       Storing, TypeOK, Paths
  <2>3. TemporaryFile'
    BY <1>3 DEF IndInv, EnsureFindsValid, Ensured, fileVars, TemporaryFile,
       StoresValid, Storing, TypeOK, Paths
  <2>4. FilesAreComplete'
    BY <1>3 DEF IndInv, EnsureFindsValid, Ensured, fileVars, FilesAreComplete,
       TypeOK, Paths
  <2>5. ResultsAreTrue'
    BY <1>3 DEF IndInv, EnsureFindsValid, HasValidMac, Ensured, fileVars, ResultsAreTrue,
       TypeOK, Paths
  <2> QED BY <2>1, <2>2, <2>3, <2>4, <2>5 DEF IndInv
<1>4. ASSUME StoreGenerates
      PROVE  IndInv'
  <2>1. TypeOK'
    BY <1>4 DEF IndInv, StoreGenerates, fileVars, TypeOK, Paths
  <2>2. StoresValid'
    <3>1. PICK random \in Address : address' = GenerateMac(random)
      BY <1>4 DEF StoreGenerates
    <3>2. /\ address' \in [first : 0 .. 255, rest : {"zero", "ff", "other"}]
          /\ ParseMac(address')
      BY <3>1, GeneratedIsValid, MacAssumption DEF Address
    <3> QED
      BY <1>4, <3>2 DEF StoreGenerates, StoresValid
  <2>3. TemporaryFile'
    BY <1>4 DEF IndInv, StoreGenerates, fileVars, TemporaryFile, StoresValid,
       Storing, TypeOK, Paths
  <2>4. FilesAreComplete'
    BY <1>4 DEF IndInv, StoreGenerates, fileVars, FilesAreComplete, TypeOK, Paths
  <2>5. ResultsAreTrue'
    BY <1>4 DEF IndInv, StoreGenerates, fileVars, ResultsAreTrue, TypeOK, Paths
  <2> QED BY <2>1, <2>2, <2>3, <2>4, <2>5 DEF IndInv
<1>5. ASSUME StoreUnlinks
      PROVE  IndInv'
  <2>1. TypeOK'
    BY <1>5 DEF IndInv, StoreUnlinks, fileVars, TypeOK, Paths
  <2>2. StoresValid'
    BY <1>5 DEF IndInv, StoreUnlinks, fileVars, StoresValid, Storing, TypeOK, Paths
  <2>3. TemporaryFile'
    BY <1>5 DEF IndInv, StoreUnlinks, fileVars, TemporaryFile, StoresValid, Storing,
       TypeOK, Paths
  <2>4. FilesAreComplete'
    BY <1>5 DEF IndInv, StoreUnlinks, fileVars, FilesAreComplete, TypeOK, Paths
  <2>5. ResultsAreTrue'
    BY <1>5 DEF IndInv, StoreUnlinks, fileVars, ResultsAreTrue, TypeOK, Paths
  <2> QED BY <2>1, <2>2, <2>3, <2>4, <2>5 DEF IndInv
<1>6. ASSUME StoreCreates
      PROVE  IndInv'
  <2> DEFINE f == [File("empty", address, FALSE, TRUE) EXCEPT !.synced = FALSE]
  <2>1. f \in Files /\ f.addr = address
    BY <1>6 DEF IndInv, StoreCreates, StoresValid, Storing, File, Files
  <2>2. tmp' = [tmp EXCEPT ![cur] = f]
    BY <1>6 DEF IndInv, StoreCreates, TypeOK
  <2>3. tmp' \in [Paths -> Files \cup {NoFile}]
    BY <2>1, <2>2 DEF IndInv, TypeOK
  <2> HIDE DEF f
  <2>4. TypeOK'
    BY <1>6, <2>3 DEF IndInv, StoreCreates, File, fileVars, TypeOK, Paths
  <2>5. StoresValid'
    BY <1>6 DEF IndInv, StoreCreates, File, fileVars, StoresValid, Storing, TypeOK, Paths
  <2>6. TemporaryFile'
    BY <1>6, <2>1, <2>2 DEF IndInv, StoreCreates, File, fileVars, TemporaryFile,
       StoresValid, Storing, TypeOK, Paths
  <2>7. FilesAreComplete'
    BY <1>6 DEF IndInv, StoreCreates, File, fileVars, FilesAreComplete, TypeOK, Paths
  <2>8. ResultsAreTrue'
    BY <1>6 DEF IndInv, StoreCreates, File, fileVars, ResultsAreTrue, TypeOK, Paths
  <2> QED BY <2>4, <2>5, <2>6, <2>7, <2>8 DEF IndInv
<1>7. ASSUME StoreSetsAttributes
      PROVE  IndInv'
  <2> DEFINE f == [tmp[cur] EXCEPT !.owned = TRUE]
  <2>1. f \in Files /\ f.addr = address /\ f.owned
    BY <1>7 DEF IndInv, StoreSetsAttributes, TemporaryFile, Files
  <2>2. tmp' = [tmp EXCEPT ![cur] = f]
    BY <1>7 DEF IndInv, StoreSetsAttributes, TypeOK
  <2>3. tmp' \in [Paths -> Files \cup {NoFile}]
    BY <2>1, <2>2 DEF IndInv, TypeOK
  <2> HIDE DEF f
  <2>4. TypeOK'
    BY <1>7, <2>3 DEF IndInv, StoreSetsAttributes, fileVars, TypeOK, Paths
  <2>5. StoresValid'
    BY <1>7 DEF IndInv, StoreSetsAttributes, fileVars, StoresValid, Storing, TypeOK, Paths
  <2>6. TemporaryFile'
    BY <1>7, <2>1, <2>2 DEF IndInv, StoreSetsAttributes, fileVars, TemporaryFile,
       StoresValid, Storing, TypeOK, Paths
  <2>7. FilesAreComplete'
    BY <1>7 DEF IndInv, StoreSetsAttributes, fileVars, FilesAreComplete, TypeOK, Paths
  <2>8. ResultsAreTrue'
    BY <1>7 DEF IndInv, StoreSetsAttributes, fileVars, ResultsAreTrue, TypeOK, Paths
  <2> QED BY <2>4, <2>5, <2>6, <2>7, <2>8 DEF IndInv
<1>8. ASSUME StoreWrites
      PROVE  IndInv'
  <2>1. PICK text \in {"partial", "full"} :
            /\ tmp' = [tmp EXCEPT ![cur].text = text]
            /\ pc' = IF WrittenFully(text) THEN "fsync" ELSE "write"
    BY <1>8 DEF StoreWrites
  <2> DEFINE f == [tmp[cur] EXCEPT !.text = text]
  <2>2. f \in Files /\ f.addr = address /\ f.owned /\ f.text = text
    BY <1>8, <2>1 DEF IndInv, StoreWrites, TemporaryFile, Files
  <2>3. tmp' = [tmp EXCEPT ![cur] = f]
    BY <1>8, <2>1 DEF IndInv, StoreWrites, TypeOK
  <2>4. tmp' \in [Paths -> Files \cup {NoFile}]
    BY <2>2, <2>3 DEF IndInv, TypeOK
  <2> HIDE DEF f
  <2>5. TypeOK'
    BY <1>8, <2>1, <2>4 DEF IndInv, StoreWrites, WrittenFully, fileVars, TypeOK, Paths
  <2>6. StoresValid'
    BY <1>8 DEF IndInv, StoreWrites, WrittenFully, fileVars, StoresValid, Storing, TypeOK,
       Paths
  <2>7. TemporaryFile'
    BY <1>8, <2>1, <2>2, <2>3 DEF IndInv, StoreWrites, WrittenFully, fileVars,
       TemporaryFile, StoresValid, Storing, TypeOK, Paths
  <2>8. FilesAreComplete'
    BY <1>8 DEF IndInv, StoreWrites, WrittenFully, fileVars, FilesAreComplete, TypeOK,
       Paths
  <2>9. ResultsAreTrue'
    BY <1>8 DEF IndInv, StoreWrites, WrittenFully, fileVars, ResultsAreTrue, TypeOK, Paths
  <2> QED BY <2>5, <2>6, <2>7, <2>8, <2>9 DEF IndInv
<1>9. ASSUME StoreSyncs
      PROVE  IndInv'
  <2> DEFINE f == [tmp[cur] EXCEPT !.synced = TRUE]
  <2>1. f \in Files /\ f.addr = address /\ f.owned /\ f.text = "full" /\ f.synced
    BY <1>9 DEF IndInv, StoreSyncs, TemporaryFile, Files
  <2>2. tmp' = [tmp EXCEPT ![cur] = f]
    BY <1>9 DEF IndInv, StoreSyncs, TypeOK, AfterFsync
  <2>3. tmp' \in [Paths -> Files \cup {NoFile}]
    BY <2>1, <2>2 DEF IndInv, TypeOK
  <2> HIDE DEF f
  <2>4. TypeOK'
    BY <1>9, <2>3 DEF IndInv, StoreSyncs, AfterFsync, fileVars, TypeOK, Paths
  <2>5. StoresValid'
    BY <1>9 DEF IndInv, StoreSyncs, AfterFsync, fileVars, StoresValid, Storing, TypeOK,
       Paths
  <2>6. TemporaryFile'
    BY <1>9, <2>1, <2>2 DEF IndInv, StoreSyncs, AfterFsync, fileVars, TemporaryFile,
       StoresValid, Storing, TypeOK, Paths
  <2>7. FilesAreComplete'
    BY <1>9 DEF IndInv, StoreSyncs, AfterFsync, fileVars, FilesAreComplete, TypeOK, Paths
  <2>8. ResultsAreTrue'
    BY <1>9 DEF IndInv, StoreSyncs, AfterFsync, fileVars, ResultsAreTrue, TypeOK, Paths
  <2> QED BY <2>4, <2>5, <2>6, <2>7, <2>8 DEF IndInv
<1>10. ASSUME StoreRenames
      PROVE  IndInv'
  <2>1. TypeOK'
    BY <1>10 DEF IndInv, StoreRenames, Ensured, fileVars, TypeOK, Paths
  <2>2. StoresValid'
    BY <1>10 DEF IndInv, StoreRenames, Ensured, fileVars, StoresValid, Storing, TypeOK,
       Paths
  <2>3. TemporaryFile'
    BY <1>10 DEF IndInv, StoreRenames, Ensured, fileVars, TemporaryFile, StoresValid,
       Storing, TypeOK, Paths
  <2>4. FilesAreComplete'
    BY <1>10, NoFileAssumption DEF IndInv, StoreRenames, Ensured, fileVars,
       FilesAreComplete, TypeOK, Paths, TemporaryFile, StoresValid, Storing, Complete,
       ValidFile
  <2>5. ResultsAreTrue'
    BY <1>10, NoFileAssumption DEF IndInv, StoreRenames, Ensured, fileVars,
       ResultsAreTrue, TypeOK, Paths, TemporaryFile, StoresValid, Storing, ValidFile
  <2> QED BY <2>1, <2>2, <2>3, <2>4, <2>5 DEF IndInv
<1>11. ASSUME StoreFailsEarly
      PROVE  IndInv'
  <2>1. TypeOK'
    BY <1>11 DEF IndInv, StoreFailsEarly, Ensured, fileVars, TypeOK, Paths
  <2>2. StoresValid'
    BY <1>11 DEF IndInv, StoreFailsEarly, Ensured, fileVars, StoresValid, Storing, TypeOK,
       Paths
  <2>3. TemporaryFile'
    BY <1>11 DEF IndInv, StoreFailsEarly, Ensured, fileVars, TemporaryFile, StoresValid,
       Storing, TypeOK, Paths
  <2>4. FilesAreComplete'
    BY <1>11 DEF IndInv, StoreFailsEarly, Ensured, fileVars, FilesAreComplete, TypeOK,
       Paths
  <2>5. ResultsAreTrue'
    BY <1>11 DEF IndInv, StoreFailsEarly, Ensured, fileVars, ResultsAreTrue, TypeOK, Paths
  <2> QED BY <2>1, <2>2, <2>3, <2>4, <2>5 DEF IndInv
<1>12. ASSUME StoreFailsLate
      PROVE  IndInv'
  <2>1. TypeOK'
    BY <1>12 DEF IndInv, StoreFailsLate, Ensured, fileVars, TypeOK, Paths
  <2>2. StoresValid'
    BY <1>12 DEF IndInv, StoreFailsLate, Ensured, fileVars, StoresValid, Storing, TypeOK,
       Paths
  <2>3. TemporaryFile'
    BY <1>12 DEF IndInv, StoreFailsLate, Ensured, fileVars, TemporaryFile, StoresValid,
       Storing, TypeOK, Paths
  <2>4. FilesAreComplete'
    BY <1>12 DEF IndInv, StoreFailsLate, Ensured, fileVars, FilesAreComplete, TypeOK,
       Paths
  <2>5. ResultsAreTrue'
    BY <1>12 DEF IndInv, StoreFailsLate, Ensured, fileVars, ResultsAreTrue, TypeOK, Paths
  <2> QED BY <2>1, <2>2, <2>3, <2>4, <2>5 DEF IndInv
<1>13. ASSUME GenerateFails
      PROVE  IndInv'
  <2>1. TypeOK'
    BY <1>13 DEF IndInv, GenerateFails, Ensured, fileVars, TypeOK, Paths
  <2>2. StoresValid'
    BY <1>13 DEF IndInv, GenerateFails, Ensured, fileVars, StoresValid, Storing,
       TypeOK, Paths
  <2>3. TemporaryFile'
    BY <1>13 DEF IndInv, GenerateFails, Ensured, fileVars, TemporaryFile,
       StoresValid, Storing, TypeOK, Paths
  <2>4. FilesAreComplete'
    BY <1>13 DEF IndInv, GenerateFails, Ensured, fileVars, FilesAreComplete,
       TypeOK, Paths
  <2>5. ResultsAreTrue'
    BY <1>13 DEF IndInv, GenerateFails, Ensured, fileVars, ResultsAreTrue,
       TypeOK, Paths
  <2> QED BY <2>1, <2>2, <2>3, <2>4, <2>5 DEF IndInv
<1>14. ASSUME MainReturns
      PROVE  IndInv'
  <2>1. TypeOK'
    BY <1>14 DEF IndInv, MainReturns, ExitStatus, fileVars, TypeOK, Paths
  <2>2. StoresValid'
    BY <1>14 DEF IndInv, MainReturns, ExitStatus, fileVars, StoresValid, Storing, TypeOK,
       Paths
  <2>3. TemporaryFile'
    BY <1>14 DEF IndInv, MainReturns, ExitStatus, fileVars, TemporaryFile, StoresValid,
       Storing, TypeOK, Paths
  <2>4. FilesAreComplete'
    BY <1>14 DEF IndInv, MainReturns, ExitStatus, fileVars, FilesAreComplete, TypeOK,
       Paths
  <2>5. ResultsAreTrue'
    BY <1>14 DEF IndInv, MainReturns, ExitStatus, fileVars, ResultsAreTrue, TypeOK, Paths
  <2> QED BY <2>1, <2>2, <2>3, <2>4, <2>5 DEF IndInv
<1>15. ASSUME FlushDirectories
      PROVE  IndInv'
  <2>1. TypeOK'
    BY <1>15 DEF IndInv, FlushDirectories, fileVars, TypeOK, Paths
  <2>2. StoresValid'
    BY <1>15 DEF IndInv, FlushDirectories, fileVars, StoresValid, Storing, TypeOK, Paths
  <2>3. TemporaryFile'
    BY <1>15 DEF IndInv, FlushDirectories, fileVars, TemporaryFile, StoresValid, Storing,
       TypeOK, Paths
  <2>4. FilesAreComplete'
    BY <1>15 DEF IndInv, FlushDirectories, fileVars, FilesAreComplete, TypeOK, Paths
  <2>5. ResultsAreTrue'
    BY <1>15 DEF IndInv, FlushDirectories, fileVars, ResultsAreTrue, TypeOK, Paths
  <2> QED BY <2>1, <2>2, <2>3, <2>4, <2>5 DEF IndInv
<1>16. ASSUME PowerFails
      PROVE  IndInv'
  <2> DEFINE Good(f) == f \in Files \cup {NoFile} /\ Complete(f)
  <2>1. \A p \in Paths : Good(path'[p])
    <3>1. \A p \in Paths : path'[p] \in {path[p], onDisk[p]}
      BY <1>16, CompleteIsNotDamaged DEF IndInv, PowerFails, FilesAreComplete
    <3> QED
      BY <3>1 DEF IndInv, TypeOK, FilesAreComplete
  <2> HIDE DEF Good
  <2>2. TypeOK'
    BY <1>16, <2>1 DEF IndInv, PowerFails, Restart, fileVars, TypeOK, Paths, Good
  <2>3. StoresValid'
    BY <1>16 DEF IndInv, PowerFails, Restart, fileVars, StoresValid, Storing, TypeOK,
       Paths
  <2>4. TemporaryFile'
    BY <1>16 DEF IndInv, PowerFails, Restart, fileVars, TemporaryFile, StoresValid,
       Storing, TypeOK, Paths
  <2>5. FilesAreComplete'
    BY <1>16, <2>1 DEF IndInv, PowerFails, Restart, fileVars, FilesAreComplete, TypeOK,
       Paths, Good
  <2>6. ResultsAreTrue'
    BY <1>16 DEF IndInv, PowerFails, Restart, fileVars, ResultsAreTrue, TypeOK, Paths
  <2> QED BY <2>2, <2>3, <2>4, <2>5, <2>6 DEF IndInv
<1>17. ASSUME StartedAgain
      PROVE  IndInv'
  <2>1. TypeOK'
    BY <1>17 DEF IndInv, StartedAgain, Restart, fileVars, TypeOK, Paths
  <2>2. StoresValid'
    BY <1>17 DEF IndInv, StartedAgain, Restart, fileVars, StoresValid, Storing, TypeOK,
       Paths
  <2>3. TemporaryFile'
    BY <1>17 DEF IndInv, StartedAgain, Restart, fileVars, TemporaryFile, StoresValid,
       Storing, TypeOK, Paths
  <2>4. FilesAreComplete'
    BY <1>17 DEF IndInv, StartedAgain, Restart, fileVars, FilesAreComplete, TypeOK, Paths
  <2>5. ResultsAreTrue'
    BY <1>17 DEF IndInv, StartedAgain, Restart, fileVars, ResultsAreTrue, TypeOK, Paths
  <2> QED BY <2>1, <2>2, <2>3, <2>4, <2>5 DEF IndInv
<1>18. ASSUME UNCHANGED vars
      PROVE  IndInv'
  <2>1. TypeOK'
    BY <1>18 DEF IndInv, vars, fileVars, TypeOK, Paths
  <2>2. StoresValid'
    BY <1>18 DEF IndInv, vars, fileVars, StoresValid, Storing, TypeOK, Paths
  <2>3. TemporaryFile'
    BY <1>18 DEF IndInv, vars, fileVars, TemporaryFile, StoresValid, Storing, TypeOK,
       Paths
  <2>4. FilesAreComplete'
    BY <1>18 DEF IndInv, vars, fileVars, FilesAreComplete, TypeOK, Paths
  <2>5. ResultsAreTrue'
    BY <1>18 DEF IndInv, vars, fileVars, ResultsAreTrue, TypeOK, Paths
  <2> QED BY <2>1, <2>2, <2>3, <2>4, <2>5 DEF IndInv
<1> QED
  BY <1>1, <1>2, <1>3, <1>4, <1>5, <1>6, <1>7, <1>8, <1>9, <1>10, <1>11, <1>12, <1>13,
     <1>14, <1>15, <1>16, <1>17, <1>18 DEF Next, Service

\* A reader never sees a file of StoreMac() that is short, invalid or not yet
\* owned, whichever system call failed and whenever the power went.
THEOREM InstalledFilesAreComplete == Spec => []InstalledIsComplete
<1>1. IndInv => InstalledIsComplete
  BY DEF IndInv, FilesAreComplete, Complete, InstalledIsComplete
<1> QED
  BY <1>1, InitIndInv, NextIndInv, PTL DEF Spec

\* main() returns 0 only when both files hold a valid address.
THEOREM ExitStatusIsTrue == Spec => []ExitZeroMeansValid
<1>1. IndInv => ExitZeroMeansValid
  BY DEF IndInv, ResultsAreTrue, ExitZeroMeansValid
<1> QED
  BY <1>1, InitIndInv, NextIndInv, PTL DEF Spec

\* A valid address that is on the disk may be replaced by another one, but apart
\* from the vendor helper nothing leaves the device without: rename() puts a
\* complete file in its place, and what a power failure brings back is valid, too.
THEOREM AddressesStayValid == Spec => AddressStaysValid
<1> DEFINE Kept == pc # "helper" => \A p \in Paths :
                     ValidFile(path[p]) /\ ValidFile(onDisk[p]) =>
                        ValidFile(path'[p]) /\ ValidFile(onDisk'[p])
<1>1. ASSUME IndInv, [Next]_vars PROVE [Kept]_vars
  <2>1. ASSUME StoreRenames PROVE Kept
    <3>1. path' = [path EXCEPT ![cur] = tmp[cur]] /\ onDisk' = onDisk
      BY <2>1 DEF StoreRenames
    <3>2. ValidFile(tmp[cur])
      BY <1>1, <2>1, NoFileAssumption DEF StoreRenames, IndInv, StoresValid, Storing,
         TemporaryFile, ValidFile
    <3> QED
      BY <1>1, <3>1, <3>2 DEF IndInv, TypeOK
  <2>2. ASSUME Service, ~StoreRenames, pc # "helper" PROVE path' = path /\ onDisk' = onDisk
    BY <2>2 DEF Service, MainChecks, RunVendorHelper, EnsureFindsValid,
       StoreGenerates, StoreUnlinks, StoreCreates, StoreSetsAttributes, StoreWrites,
       StoreSyncs, StoreFailsEarly, StoreFailsLate, GenerateFails, MainReturns, fileVars
  <2>3. ASSUME FlushDirectories PROVE Kept
    BY <2>3 DEF FlushDirectories
  <2>4. ASSUME PowerFails PROVE Kept
    <3>1. \A p \in Paths : path'[p] \in {path[p], onDisk[p]}
      BY <1>1, <2>4, CompleteIsNotDamaged DEF IndInv, PowerFails, FilesAreComplete
    <3> QED
      BY <2>4, <3>1 DEF PowerFails
  <2>5. ASSUME StartedAgain PROVE Kept
    BY <2>5 DEF StartedAgain, fileVars
  <2> QED
    BY <1>1, <2>1, <2>2, <2>3, <2>4, <2>5 DEF Next
<1> QED
  BY <1>1, InitIndInv, NextIndInv, PTL DEF Spec, AddressStaysValid
=============================================================================
