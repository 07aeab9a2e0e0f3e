--------------------------- MODULE MCStorageTests ---------------------------
(***************************************************************************)
(* The test suite over the keys and payloads it uses: the directory key,   *)
(* the key of one pod and the five numbered keys beneath the directory.    *)
(***************************************************************************)
EXTENDS StorageTests

MCKeys == {tempDir, tempKey} \cup Range(tempKeys)
MCPayloads == {"test-pod", "test-pod1", "test-pod2"} \cup Range(Numbered)

\* every test function but TestDeleteDir
MCSuite == DOMAIN Tests \ {"TestDeleteDir"}
MCDeleteDir == {"TestDeleteDir"}

=============================================================================
