------------------------------ MODULE Attestation ------------------------------
(***************************************************************************)
(* verifyAttestation: the client-side look at an SGX quote.  A report is   *)
(* its length and, at the offsets of a version 3 quote, two 16-bit numbers *)
(* and two measurements; a report of another layout holds something else   *)
(* there, so the reading of it means nothing.                              *)
(***************************************************************************)
EXTENDS Naturals, Sequences

CONSTANTS Measurements, Unset

MinQuoteSize == 432
DcapV3 == 3

Uint16 == 0..(256 * 256 - 1)

\* Two bytes of a report, the low one first.
Bytes16(n) == <<n % 256, n \div 256>>

\* Mutant: the high byte is taken to come first.
U16BigEndian(b) == 256 * b[1] + b[2]

U16(b) == b[1] + 256 * b[2]

Config == [expectedMrEnclave : Measurements \cup {Unset},
           expectedMrSigner : Measurements \cup {Unset},
           minSecurityVersion : Nat \cup {Unset}]

\* parseSgxQuote reads the report; otherwise it throws AttestationQuoteError.
Parses(report) ==
    /\ report.length >= MinQuoteSize
    /\ U16(report.version) = DcapV3

\* verifyAttestation(report, config).valid; an option that is not set admits all.
VerifyAttestation(report, config) ==
    /\ report.length # 0
    /\ Parses(report)
    /\ config.expectedMrEnclave \in {Unset, report.mrEnclave}
    /\ config.expectedMrSigner \in {Unset, report.mrSigner}
    /\ \/ config.minSecurityVersion = Unset
       \/ U16(report.isvSvn) >= config.minSecurityVersion
=============================================================================
