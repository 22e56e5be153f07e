----------------------------- MODULE MCPlatform -----------------------------
EXTENDS Platform, TLC

CONSTANTS r1, r2, c1, c2

mcTextLen == "BL1" :> 3 @@ "BL2" :> 3 @@ "0.1.0" :> 5 @@ "1.9.0+0" :> 7
             @@ "full" :> SW_TYPE_MAX_SIZE @@ "fullv" :> VERSION_MAX_SIZE

mcBootTables == {DummyHW, <<[DummyHW[1] EXCEPT !.signerLen = 31]>>}

Measured(signer, swType, version) ==
    [signer |-> signer, swType |-> swType, swVersion |-> version,
     algorithm |-> "Sha256", value |-> "x"]

Request(op, out) == [handle |-> "known", op |-> op, form |-> "good", out |-> out]
Extend(slot, m, lock) ==
    Request("ExtendMeasurement", "none") @@ [slot |-> slot, m |-> m, lock |-> lock]
Read(slot, n) ==
    Request("ReadMeasurement", "large") @@ [slot |-> slot, swTypeLen |-> n, versionLen |-> n]

mcRequests ==
    {Extend(0, Measured("signer2", "BL1", "0.1.0"), FALSE),
     Extend(0, Measured("signer1", "BL1", "0.1.0"), FALSE),
     Extend(2, Measured("signer1", "full", "fullv"), TRUE),
     Read(0, 64), Read(2, 64),
     Request("GetDAK", "large"),
     [handle |-> "unknown", op |-> "unknown", form |-> "value", out |-> "none"],
     [Extend(0, Measured("signer1", "BL1", "0.1.0"), FALSE) EXCEPT !.form = "length"],
     [handle |-> "known", op |-> "GetVHuk", form |-> "value", out |-> "none"]}
mcMisread == {Extend(2, Measured("signer1", "full", "fullv"), TRUE), Request("GetDAK", "large")}

mcOwnerOf == c1 :> r1 @@ c2 :> r1
mcMetadata == {[publicKey |-> "k1", realmId |-> "i1", svn |-> 1]}
=============================================================================
