----------------------------- MODULE MCAttendance -----------------------------
EXTENDS AttendanceProps

\* "1-A" and "Gate-2A".
TwoGates == {<<1, 0>>, <<0, 2>>}

OneGate == {<<1, 0>>}
=============================================================================
