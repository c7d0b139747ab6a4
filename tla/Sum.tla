------------------------------- MODULE Sum --------------------------------
(***************************************************************************)
(* The frame of the models that check several components in one run: a     *)
(* behaviour is of one part, named by `on`, and the parts share the        *)
(* variables.  The i-th variable a part declares is v_i; the others stay 0.*)
(***************************************************************************)
EXTENDS Integers, Sequences, FiniteSets, TLC

VARIABLES on,
    v1, v2, v3, v4, v5, v6, v7, v8, v9, v10, v11, v12, v13, v14, v15, v16,
    v17, v18, v19, v20, v21, v22, v23, v24, v25, v26, v27

\* What a part of n variables leaves alone, and its first value
rest26 == <<v27>>
rest25 == <<v26, rest26>>
rest24 == <<v25, rest25>>
rest23 == <<v24, rest24>>
rest22 == <<v23, rest23>>
rest21 == <<v22, rest22>>
rest20 == <<v21, rest21>>
rest19 == <<v20, rest20>>
rest18 == <<v19, rest19>>
rest17 == <<v18, rest18>>
rest16 == <<v17, rest17>>
rest15 == <<v16, rest16>>
rest14 == <<v15, rest15>>
rest13 == <<v14, rest14>>
rest12 == <<v13, rest13>>
rest11 == <<v12, rest12>>
rest10 == <<v11, rest11>>
rest9 == <<v10, rest10>>
rest8 == <<v9, rest9>>
rest7 == <<v8, rest8>>
rest6 == <<v7, rest7>>
rest5 == <<v6, rest6>>
rest4 == <<v5, rest5>>
rest3 == <<v4, rest4>>
rest2 == <<v3, rest3>>
rest1 == <<v2, rest2>>

Zero26 == v27 = 0
Zero25 == v26 = 0 /\ Zero26
Zero24 == v25 = 0 /\ Zero25
Zero23 == v24 = 0 /\ Zero24
Zero22 == v23 = 0 /\ Zero23
Zero21 == v22 = 0 /\ Zero22
Zero20 == v21 = 0 /\ Zero21
Zero19 == v20 = 0 /\ Zero20
Zero18 == v19 = 0 /\ Zero19
Zero17 == v18 = 0 /\ Zero18
Zero16 == v17 = 0 /\ Zero17
Zero15 == v16 = 0 /\ Zero16
Zero14 == v15 = 0 /\ Zero15
Zero13 == v14 = 0 /\ Zero14
Zero12 == v13 = 0 /\ Zero13
Zero11 == v12 = 0 /\ Zero12
Zero10 == v11 = 0 /\ Zero11
Zero9 == v10 = 0 /\ Zero10
Zero8 == v9 = 0 /\ Zero9
Zero7 == v8 = 0 /\ Zero8
Zero6 == v7 = 0 /\ Zero7
Zero5 == v6 = 0 /\ Zero6
Zero4 == v5 = 0 /\ Zero5
Zero3 == v4 = 0 /\ Zero4
Zero2 == v3 = 0 /\ Zero3
Zero1 == v2 = 0 /\ Zero2

allvars == <<on, v1, rest1>>
=============================================================================
