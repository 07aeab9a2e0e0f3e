---------------------------- MODULE StorageTests ----------------------------
(***************************************************************************)
(* The test suite of the disk storage, run against the storage of module   *)
(* DiskStorage.  A test function is the sequence of its statements: calls  *)
(* of the storage with the result the test wants, looks at the files       *)
(* behind the storage's back (os.Stat, ioutil.ReadFile, os.MkdirAll) and   *)
(* the os.RemoveAll of the cache directory that ends every test.           *)
(*                                                                         *)
(* The tests share one cache directory, the package variable cacheBaseDir, *)
(* and nothing but the RemoveAll of one test separates it from the next:   *)
(* the functions are run one statement at a time, in any order and any     *)
(* number of times.                                                        *)
(***************************************************************************)
EXTENDS DiskStorage

CONSTANTS
    Suite      \* the names of the test functions that are run

VARIABLES
    test,      \* the test function that is running, None between two tests
    pc,        \* the statement of it that is next
    failed     \* the test functions that called t.Errorf

harness == <<test, pc, failed>>
allVars == <<harness, vars>>

None == "none"

-----------------------------------------------------------------------------
(* The keys and payloads of the suite *)

tempDir == <<"kubelet", "default", "pods">>
tempKey == Append(tempDir, "test-pod")

\* fmt.Sprintf("%s-%d", tempKey, i) and fmt.Sprintf("test-pod-%d", i)
Numbered == <<"test-pod-0", "test-pod-1", "test-pod-2", "test-pod-3", "test-pod-4">>
tempKeys == [i \in DOMAIN Numbered |-> Append(tempDir, Numbered[i])]

\* the entries a test expects a listing to show
Entries(ks, contents) ==
    [k \in Range(ks) |-> contents[CHOOSE i \in DOMAIN ks : ks[i] = k]]

-----------------------------------------------------------------------------
(* The statements the tests are made of *)

\* s, err := NewDiskStorage(); t.Fatalf on an error
New == [kind |-> "New"]

\* err = s.<op>(key, data) and the t.Errorf on the result the test does not
\* want: an error or none, the data of Get, the entries of a listing
Call(op, k, d, wantErr, items) ==
    [kind |-> "Call", op |-> op, key |-> k, data |-> d,
     wantErr |-> wantErr, items |-> items]

CreateOK(k, d)   == Call("Create", k, d, FALSE, NoItems)
UpdateOK(k, d)   == Call("Update", k, d, FALSE, NoItems)
DeleteOK(k)      == Call("Delete", k, Empty, FALSE, NoItems)
GetOK(k, d)      == Call("Get", k, d, FALSE, NoItems)
GetErr(k)        == Call("Get", k, Empty, TRUE, NoItems)
ListOK(op, k, e) == Call(op, k, Empty, FALSE, e)

\* os.Stat(createdFile): the file is wanted there and regular, or gone
WantFile(k) == [kind |-> "Stat", key |-> k, want |-> "File"]
WantGone(k) == [kind |-> "Stat", key |-> k, want |-> "Absent"]

\* ioutil.ReadFile(createdFile) and the comparison with what is wanted
WantContent(k, wanted) == [kind |-> "Read", key |-> k, wanted |-> wanted]

\* os.MkdirAll(dir, 0755)
MkdirAll(k) == [kind |-> "Mkdir", key |-> k]

\* os.RemoveAll(cacheBaseDir)
RemoveAll == [kind |-> "RemoveAll"]

-----------------------------------------------------------------------------
(* The test functions *)

\* mutant: TestCreate returns without the RemoveAll of the cache directory
TestCreateNoCleanup ==
    << New, CreateOK(tempKey, "test-pod"), WantFile(tempKey),
       WantContent(tempKey, {"test-pod"}) >>

TestCreate ==
    << New, CreateOK(tempKey, "test-pod"), WantFile(tempKey),
       WantContent(tempKey, {"test-pod"}), RemoveAll >>

TestCreateFileExist ==
    << New, CreateOK(tempKey, "test-pod1"), CreateOK(tempKey, "test-pod2"),
       WantFile(tempKey), WantContent(tempKey, {"test-pod2"}), RemoveAll >>

TestCreateDirExist ==
    << New, MkdirAll(tempDir), CreateOK(tempKey, "test-pod"),
       WantFile(tempKey), WantContent(tempKey, {"test-pod"}), RemoveAll >>

TestDelete ==
    << New, CreateOK(tempKey, "test-pod"), WantFile(tempKey),
       DeleteOK(tempKey), WantGone(tempKey), RemoveAll >>

TestDeleteFileNotExist ==
    << New, DeleteOK(tempKey), RemoveAll >>

\* after Delete of the directory key the test wants the file still there
TestDeleteDir ==
    << New, CreateOK(tempKey, "test-pod"), DeleteOK(tempDir),
       WantFile(tempKey), RemoveAll >>

TestGet ==
    << New, CreateOK(tempKey, "test-pod"), GetOK(tempKey, "test-pod"),
       RemoveAll >>

TestGetFileNotExist ==
    << New, GetOK(tempKey, Empty), RemoveAll >>

TestGetNotRegularFile ==
    << New, CreateOK(tempKey, "test-pod"), GetErr(tempDir), RemoveAll >>

TestListKeys ==
    << New >> \o
    [i \in DOMAIN tempKeys |-> CreateOK(tempKeys[i], "test-pod")] \o
    << ListOK("ListKeys", tempDir,
              Entries(tempKeys, [i \in DOMAIN tempKeys |-> "test-pod"])),
       RemoveAll >>

TestListKeysForEmptyDir ==
    << New, ListOK("ListKeys", tempDir, NoItems), RemoveAll >>

TestListKeysForRegularFile ==
    << New, CreateOK(tempKey, "test-pod"),
       ListOK("ListKeys", tempKey, tempKey :> "test-pod"), RemoveAll >>

TestList ==
    << New >> \o
    [i \in DOMAIN tempKeys |-> CreateOK(tempKeys[i], Numbered[i])] \o
    << ListOK("List", tempDir, Entries(tempKeys, Numbered)),
       RemoveAll >>

TestListEmptyDir ==
    << New, ListOK("List", tempDir, NoItems), RemoveAll >>

TestListSpecifiedFile ==
    << New, CreateOK(tempKey, "test-pod"),
       ListOK("List", tempKey, tempKey :> "test-pod"), RemoveAll >>

TestUpdate ==
    << New, CreateOK(tempKey, "test-pod"), UpdateOK(tempKey, "test-pod1"),
       WantFile(tempKey), WantContent(tempKey, {"test-pod1"}), RemoveAll >>

\* the test wants the file not empty after the Update with no data
TestUpdateEmptyString ==
    << New, CreateOK(tempKey, "test-pod"), UpdateOK(tempKey, Empty),
       WantFile(tempKey), WantContent(tempKey, Payloads), RemoveAll >>

Tests ==
    [ TestCreate                 |-> TestCreate,
      TestCreateFileExist        |-> TestCreateFileExist,
      TestCreateDirExist         |-> TestCreateDirExist,
      TestDelete                 |-> TestDelete,
      TestDeleteFileNotExist     |-> TestDeleteFileNotExist,
      TestDeleteDir              |-> TestDeleteDir,
      TestGet                    |-> TestGet,
      TestGetFileNotExist        |-> TestGetFileNotExist,
      TestGetNotRegularFile      |-> TestGetNotRegularFile,
      TestListKeys               |-> TestListKeys,
      TestListKeysForEmptyDir    |-> TestListKeysForEmptyDir,
      TestListKeysForRegularFile |-> TestListKeysForRegularFile,
      TestList                   |-> TestList,
      TestListEmptyDir           |-> TestListEmptyDir,
      TestListSpecifiedFile      |-> TestListSpecifiedFile,
      TestUpdate                 |-> TestUpdate,
      TestUpdateEmptyString      |-> TestUpdateEmptyString ]

ASSUME Suite \subseteq DOMAIN Tests

-----------------------------------------------------------------------------
(* Running the statements *)

TestsInit ==
    /\ Init
    /\ test = None
    /\ pc = 0
    /\ failed = {}

\* go test calls a test function
StartTest(t) ==
    /\ test = None
    /\ test' = t
    /\ pc' = 1
    /\ UNCHANGED <<failed, vars>>

\* the statement of kind kind the running test is at
AtStatement(kind) ==
    /\ test # None
    /\ pc <= Len(Tests[test])
    /\ Tests[test][pc].kind = kind

\* t.Errorf when the statement did not see what it wants; the test goes on
Checked(ok) ==
    /\ failed' = IF ok THEN failed ELSE failed \cup {test}
    /\ pc' = pc + 1
    /\ UNCHANGED test

\* the storage is bound to the cache directory, created when it is absent
ExecNew ==
    /\ AtStatement("New")
    /\ Checked(TRUE)
    /\ UNCHANGED vars

\* the call of the storage; the filesystem refuses nothing the tree allows
Invoke(s) ==
    \/ s.op = "Create" /\ CanCreate(s.key) /\ Create(s.key, s.data)
    \/ s.op = "Create" /\ ~CanCreate(s.key) /\ CreateFails(s.key)
    \/ s.op = "Update" /\ (Update(s.key, s.data) \/ UpdateFails(s.key, s.data))
    \/ s.op = "Delete" /\ Delete(s.key)
    \/ s.op = "Get" /\ Get(s.key)
    \/ s.op \in {"List", "ListKeys"} /\ List(s.op, s.key)

\* what the test compares the result r of its call with: the error, the
\* bytes of Get, the number of items of a listing and that each key
\* (ListKeys) or content (List) it created is among them
Wanted(s, r) ==
    /\ r.err = s.wantErr
    /\ (s.op = "Get" /\ ~s.wantErr) => r.data = s.data
    /\ s.op \in {"List", "ListKeys"} =>
           Cardinality(DOMAIN r.items) = Cardinality(DOMAIN s.items)
    /\ s.op = "ListKeys" => DOMAIN s.items \subseteq DOMAIN r.items
    /\ s.op = "List" => Range(s.items) \subseteq Range(r.items)

ExecCall ==
    /\ AtStatement("Call")
    /\ \E s \in {Tests[test][pc]} :
           /\ Invoke(s)
           /\ Checked(Wanted(s, out'))

ExecStat ==
    /\ AtStatement("Stat")
    /\ Checked(Classify(Tests[test][pc].key) = Tests[test][pc].want)
    /\ UNCHANGED vars

ExecRead ==
    /\ AtStatement("Read")
    /\ \E s \in {Tests[test][pc]} :
           Checked(Classify(s.key) = "File" /\ files[s.key] \in s.wanted)
    /\ UNCHANGED vars

ExecMkdir ==
    /\ AtStatement("Mkdir")
    /\ \E k \in {Tests[test][pc].key} :
           IF \A p \in Ancestors(k) \cup {k} : Classify(p) # "File"
           THEN dirs' = dirs \cup Ancestors(k) \cup {k} /\ Checked(TRUE)
           ELSE dirs' = dirs /\ Checked(FALSE)
    /\ UNCHANGED <<files, out>>

ExecRemoveAll ==
    /\ AtStatement("RemoveAll")
    /\ dirs' = {}
    /\ files' = NoItems
    /\ Checked(TRUE)
    /\ UNCHANGED out

\* the test function returns
Return ==
    /\ test # None
    /\ pc > Len(Tests[test])
    /\ test' = None
    /\ pc' = 0
    /\ UNCHANGED <<failed, vars>>

TestsNext ==
    \/ \E t \in Suite : StartTest(t)
    \/ ExecNew
    \/ ExecCall
    \/ ExecStat
    \/ ExecRead
    \/ ExecMkdir
    \/ ExecRemoveAll
    \/ Return

TestsSpec == TestsInit /\ [][TestsNext]_allVars

-----------------------------------------------------------------------------
\* No test of the suite fails, whatever tests ran before it and in whatever
\* order: every result the test functions compare (the error of a call, the
\* bytes of Get, the items of List and ListKeys, the file os.Stat and
\* ioutil.ReadFile find) is what the storage gives, and the RemoveAll that
\* ends a test leaves the shared cache directory as the next test needs it.
TestsPass == failed = {}

=============================================================================
