------------------------------ MODULE MCPrograms ------------------------------
(* Three wallets, two registrations, every program.                        *)
EXTENDS Programs

CONSTANTS v1, v2, m1, m2, w1, w2, w3

MCWallets == <<w1, w2, w3>>

Quote(length, version, svn, enclave) ==
    [length |-> length, version |-> Bytes16(version), isvSvn |-> Bytes16(svn),
     mrEnclave |-> enclave, mrSigner |-> m1,
     quote |-> [version |-> version, isvSvn |-> svn]]

Registration(v, stage_, quote) ==
    [validatorAddr |-> v, status |-> stage_, enclaveReport |-> quote]

\* A security version of 256 has its one in the high byte.
MCRegistrations ==
    {Registration(v1, 2, Quote(500, 3, 256, m1)),
     Registration(v1, 1, Quote(500, 3, 256, m1)),
     Registration(v2, 2, Quote(500, 3, 2, m2)),
     Registration(v2, 2, Quote(500, 4, 256, m1)),
     Registration(v2, 2, Quote(431, 3, 256, m1))}

MCConfigs ==
    {[expectedMrEnclave |-> Unset, expectedMrSigner |-> m1, minSecurityVersion |-> 3],
     [expectedMrEnclave |-> m1, expectedMrSigner |-> Unset, minSecurityVersion |-> 2],
     [expectedMrEnclave |-> Unset, expectedMrSigner |-> m2, minSecurityVersion |-> Unset]}
=============================================================================
