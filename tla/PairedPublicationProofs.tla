---------------------- MODULE PairedPublicationProofs ----------------------
(* The call-by-call publication for any number of publishers, failing      *)
(* calls and acts of other processes, and after a power loss at any        *)
(* moment: no public name is ever overwritten, success is exact and        *)
(* durable, failure leaves nothing sealed behind, one publisher wins, and  *)
(* every step is one that NoClobberPair allows. At the end, the directory  *)
(* it publishes into (OutputDirectory): a run belongs to who made it.      *)
EXTENDS PairedPublication, OutputDirectory, FiniteSetTheorems, TLAPS

-----------------------------------------------------------------------------
(* The script, position by position                                        *)

Row(op, a, section) == [op |-> op, art |-> a, in |-> section]
Calls == {"path", "empty", "create", "write", "sync", "seal", "bytes", "temp", "link", "final",
          "unlink", "syncdir"}
Sections == {"enter", "first", "second", "commit", "return"}
Rows == [op : Calls, art : Artifacts, in : Sections]

Joined(whole, s, t) ==
    /\ whole \in Seq(Rows) /\ Len(whole) = Len(s) + Len(t)
    /\ \A i \in 1 .. Len(s) : whole[i] = s[i]
    /\ \A i \in 1 .. Len(t) : whole[Len(s) + i] = t[i]

LEMMA Concatenated ==
  ASSUME NEW s \in Seq(Rows), NEW t \in Seq(Rows)
  PROVE  Joined(s \o t, s, t)
  BY DEF Joined

LEMMA RowType ==
  ASSUME NEW op \in Calls, NEW a \in Artifacts, NEW s \in Sections
  PROVE  Row(op, a, s) \in Rows
  BY DEF Row, Rows

LEMMA TwoRows ==
  ASSUME NEW r \in Rows, NEW t \in Rows
  PROVE  <<r>> \in Seq(Rows) /\ <<r, t>> \in Seq(Rows)
  OBVIOUS

LEMMA EntryTable ==
  /\ Ops("enter", "json", <<"path", "empty">>) \in Seq(Rows)
  /\ Ops("enter", "json", <<"path", "empty">>) =
         <<Row("path", "json", "enter"), Row("empty", "json", "enter")>>
  <1>1. Ops("enter", "json", <<"path", "empty">>) =
            <<Row("path", "json", "enter"), Row("empty", "json", "enter")>>
    BY DEF Ops, Row
  <1>2. Row("path", "json", "enter") \in Rows /\ Row("empty", "json", "enter") \in Rows
    BY RowType DEF Calls, Sections, Artifacts
  <1> QED
    BY <1>1, <1>2, TwoRows

LEMMA WriteTable ==
  ASSUME NEW s \in Sections, NEW a \in Artifacts
  PROVE  /\ WriteOps(s, a) \in Seq(Rows)
         /\ WriteOps(s, a) = <<Row("create", a, s), Row("write", a, s), Row("sync", a, s),
                               Row("seal", a, s), Row("bytes", a, s), Row("temp", a, s)>>
  <1>1. WriteOps(s, a) = <<Row("create", a, s), Row("write", a, s), Row("sync", a, s),
                           Row("seal", a, s), Row("bytes", a, s), Row("temp", a, s)>>
    BY DEF WriteOps, Ops, Row
  <1> QED
    BY <1>1 DEF Row, Rows, Calls

LEMMA LinkTable ==
  ASSUME NEW a \in Artifacts
  PROVE  /\ LinkOps(a) \in Seq(Rows)
         /\ LinkOps(a) = <<Row("bytes", a, "commit"), Row("temp", a, "commit"),
                           Row("link", a, "commit"), Row("bytes", a, "commit"),
                           Row("final", a, "commit")>>
  <1>1. LinkOps(a) = <<Row("bytes", a, "commit"), Row("temp", a, "commit"),
                       Row("link", a, "commit"), Row("bytes", a, "commit"),
                       Row("final", a, "commit")>>
    BY DEF LinkOps, Ops, Row
  <1> QED
    BY <1>1 DEF Row, Rows, Calls, Sections

LEMMA FinalizeTable ==
  ASSUME NEW a \in Artifacts
  PROVE  /\ FinalizeOps(a) \in Seq(Rows)
         /\ FinalizeOps(a) = <<Row("bytes", a, "commit"), Row("final", a, "commit"),
                               Row("bytes", a, "commit"), Row("temp", a, "commit"),
                               Row("unlink", a, "commit"), Row("syncdir", a, "commit"),
                               Row("bytes", a, "commit"), Row("final", a, "commit")>>
  <1>1. FinalizeOps(a) = <<Row("bytes", a, "commit"), Row("final", a, "commit"),
                           Row("bytes", a, "commit"), Row("temp", a, "commit"),
                           Row("unlink", a, "commit"), Row("syncdir", a, "commit"),
                           Row("bytes", a, "commit"), Row("final", a, "commit")>>
    BY DEF FinalizeOps, Ops, Row
  <1> QED
    BY <1>1 DEF Row, Rows, Calls, Sections

LEMMA VerifyTable ==
  ASSUME NEW s \in Sections
  PROVE  /\ PairVerifyOps(s) \in Seq(Rows) /\ Len(PairVerifyOps(s)) = 4
         /\ PairVerifyOps(s)[1] = Row("bytes", "json", s)
         /\ PairVerifyOps(s)[2] = Row("final", "json", s)
         /\ PairVerifyOps(s)[3] = Row("bytes", "markdown", s)
         /\ PairVerifyOps(s)[4] = Row("final", "markdown", s)
  <1> DEFINE j == VerifyOps(s, "json")
             m == VerifyOps(s, "markdown")
  <1>1. j = <<Row("bytes", "json", s), Row("final", "json", s)>> /\ j \in Seq(Rows)
    <2>1. j = <<Row("bytes", "json", s), Row("final", "json", s)>>
      BY DEF VerifyOps, Ops, Row
    <2>2. Row("bytes", "json", s) \in Rows /\ Row("final", "json", s) \in Rows
      BY RowType DEF Calls, Artifacts
    <2> QED
      BY <2>1, <2>2, TwoRows
  <1>2. m = <<Row("bytes", "markdown", s), Row("final", "markdown", s)>> /\ m \in Seq(Rows)
    <2>1. m = <<Row("bytes", "markdown", s), Row("final", "markdown", s)>>
      BY DEF VerifyOps, Ops, Row
    <2>2. Row("bytes", "markdown", s) \in Rows /\ Row("final", "markdown", s) \in Rows
      BY RowType DEF Calls, Artifacts
    <2> QED
      BY <2>1, <2>2, TwoRows
  <1>3. Len(j) = 2 /\ Len(m) = 2
    BY <1>1, <1>2
  <1> HIDE DEF j, m
  <1>4. Joined(j \o m, j, m)
    BY <1>1, <1>2, Concatenated
  <1>5. (j \o m)[1] = j[1] /\ (j \o m)[2] = j[2] /\ (j \o m)[3] = m[1] /\ (j \o m)[4] = m[2]
    BY <1>3, <1>4 DEF Joined
  <1>6. PairVerifyOps(s) = j \o m
    BY DEF PairVerifyOps, j, m
  <1> QED
    BY <1>1, <1>2, <1>3, <1>4, <1>5, <1>6 DEF Joined

LEMMA ReturnTable ==
  /\ Ops("return", "json", <<"path">>) \in Seq(Rows)
  /\ Ops("return", "json", <<"path">>) = <<Row("path", "json", "return")>>
  <1>1. Ops("return", "json", <<"path">>) = <<Row("path", "json", "return")>>
    BY DEF Ops, Row
  <1>2. Row("path", "json", "return") \in Rows
    BY RowType DEF Calls, Sections, Artifacts
  <1> QED
    BY <1>1, <1>2, TwoRows

LEMMA ScriptTable ==
  /\ Len(Script) = 49 /\ Script \in Seq(Rows)
  /\ Script[1] = Row("path", "json", "enter") /\ Script[2] = Row("empty", "json", "enter")
  /\ Script[3] = Row("create", "json", "first") /\ Script[4] = Row("write", "json", "first")
  /\ Script[5] = Row("sync", "json", "first") /\ Script[6] = Row("seal", "json", "first")
  /\ Script[7] = Row("bytes", "json", "first") /\ Script[8] = Row("temp", "json", "first")
  /\ Script[9] = Row("create", "markdown", "second")
  /\ Script[10] = Row("write", "markdown", "second")
  /\ Script[11] = Row("sync", "markdown", "second")
  /\ Script[12] = Row("seal", "markdown", "second")
  /\ Script[13] = Row("bytes", "markdown", "second")
  /\ Script[14] = Row("temp", "markdown", "second") /\ Script[15] = Row("bytes", "json", "commit")
  /\ Script[16] = Row("temp", "json", "commit") /\ Script[17] = Row("link", "json", "commit")
  /\ Script[18] = Row("bytes", "json", "commit") /\ Script[19] = Row("final", "json", "commit")
  /\ Script[20] = Row("bytes", "markdown", "commit")
  /\ Script[21] = Row("temp", "markdown", "commit")
  /\ Script[22] = Row("link", "markdown", "commit")
  /\ Script[23] = Row("bytes", "markdown", "commit")
  /\ Script[24] = Row("final", "markdown", "commit")
  /\ Script[25] = Row("bytes", "json", "commit") /\ Script[26] = Row("final", "json", "commit")
  /\ Script[27] = Row("bytes", "json", "commit") /\ Script[28] = Row("temp", "json", "commit")
  /\ Script[29] = Row("unlink", "json", "commit") /\ Script[30] = Row("syncdir", "json", "commit")
  /\ Script[31] = Row("bytes", "json", "commit") /\ Script[32] = Row("final", "json", "commit")
  /\ Script[33] = Row("bytes", "markdown", "commit")
  /\ Script[34] = Row("final", "markdown", "commit")
  /\ Script[35] = Row("bytes", "markdown", "commit")
  /\ Script[36] = Row("temp", "markdown", "commit")
  /\ Script[37] = Row("unlink", "markdown", "commit")
  /\ Script[38] = Row("syncdir", "markdown", "commit")
  /\ Script[39] = Row("bytes", "markdown", "commit")
  /\ Script[40] = Row("final", "markdown", "commit")
  /\ Script[41] = Row("bytes", "json", "commit") /\ Script[42] = Row("final", "json", "commit")
  /\ Script[43] = Row("bytes", "markdown", "commit")
  /\ Script[44] = Row("final", "markdown", "commit") /\ Script[45] = Row("path", "json", "return")
  /\ Script[46] = Row("bytes", "json", "return") /\ Script[47] = Row("final", "json", "return")
  /\ Script[48] = Row("bytes", "markdown", "return")
  /\ Script[49] = Row("final", "markdown", "return")
  <1> DEFINE enter == Ops("enter", "json", <<"path", "empty">>)
             first == WriteOps("first", "json")
             second == WriteOps("second", "markdown")
             linkJ == LinkOps("json")
             linkM == LinkOps("markdown")
             finalJ == FinalizeOps("json")
             finalM == FinalizeOps("markdown")
             commit == PairVerifyOps("commit")
             path == Ops("return", "json", <<"path">>)
             return == PairVerifyOps("return")
             s1 == enter \o first
             s2 == s1 \o second
             s3 == s2 \o linkJ
             s4 == s3 \o linkM
             s5 == s4 \o finalJ
             s6 == s5 \o finalM
             s7 == s6 \o commit
             s8 == s7 \o path
             s9 == s8 \o return
  <1>1. /\ enter \in Seq(Rows) /\ first \in Seq(Rows) /\ second \in Seq(Rows) /\ linkJ \in Seq(Rows)
        /\ linkM \in Seq(Rows) /\ finalJ \in Seq(Rows) /\ finalM \in Seq(Rows) /\ commit \in Seq(Rows)
        /\ path \in Seq(Rows) /\ return \in Seq(Rows)
    BY EntryTable, WriteTable, LinkTable, FinalizeTable, VerifyTable, ReturnTable
       DEF Sections, Artifacts
  <1>13. /\ Len(enter) = 2 /\ Len(first) = 6 /\ Len(second) = 6 /\ Len(linkJ) = 5
        /\ Len(linkM) = 5 /\ Len(finalJ) = 8 /\ Len(finalM) = 8 /\ Len(commit) = 4
        /\ Len(path) = 1 /\ Len(return) = 4
    BY EntryTable, WriteTable, LinkTable, FinalizeTable, VerifyTable, ReturnTable
       DEF Sections, Artifacts
  <1>2. Script = s9
    BY DEF Script
  <1>0. /\ s1 = enter \o first
        /\ s2 = s1 \o second
        /\ s3 = s2 \o linkJ
        /\ s4 = s3 \o linkM
        /\ s5 = s4 \o finalJ
        /\ s6 = s5 \o finalM
        /\ s7 = s6 \o commit
        /\ s8 = s7 \o path
        /\ s9 = s8 \o return
    OBVIOUS
  <1> HIDE DEF s1, s2, s3, s4, s5, s6, s7, s8, s9
  <1> HIDE DEF enter, first, second, linkJ, linkM, finalJ, finalM, commit, path, return
  <1>3. s1 \in Seq(Rows) /\ Joined(s1, enter, first)
    <2>1. Joined(s1, enter, first)
      BY <1>0, <1>1, Concatenated
    <2> QED
      BY <2>1 DEF Joined
  <1>3b. Len(s1) = 8
    BY <1>13, <1>3 DEF Joined
  <1>3a. /\ \A i \in 1 .. 2 : s1[i] = enter[i]
         /\ \A i \in 1 .. 6 : s1[2 + i] = first[i]
    BY <1>13, <1>3 DEF Joined
  <1>4. s2 \in Seq(Rows) /\ Joined(s2, s1, second)
    <2>1. Joined(s2, s1, second)
      BY <1>0, <1>1, <1>3, Concatenated
    <2> QED
      BY <2>1 DEF Joined
  <1>4b. Len(s2) = 14
    BY <1>13, <1>3b, <1>4 DEF Joined
  <1>4a. /\ \A i \in 1 .. 8 : s2[i] = s1[i]
         /\ \A i \in 1 .. 6 : s2[8 + i] = second[i]
    BY <1>13, <1>3b, <1>4 DEF Joined
  <1>5. s3 \in Seq(Rows) /\ Joined(s3, s2, linkJ)
    <2>1. Joined(s3, s2, linkJ)
      BY <1>0, <1>1, <1>4, Concatenated
    <2> QED
      BY <2>1 DEF Joined
  <1>5b. Len(s3) = 19
    BY <1>13, <1>4b, <1>5 DEF Joined
  <1>5a. /\ \A i \in 1 .. 14 : s3[i] = s2[i]
         /\ \A i \in 1 .. 5 : s3[14 + i] = linkJ[i]
    BY <1>13, <1>4b, <1>5 DEF Joined
  <1>6. s4 \in Seq(Rows) /\ Joined(s4, s3, linkM)
    <2>1. Joined(s4, s3, linkM)
      BY <1>0, <1>1, <1>5, Concatenated
    <2> QED
      BY <2>1 DEF Joined
  <1>6b. Len(s4) = 24
    BY <1>13, <1>5b, <1>6 DEF Joined
  <1>6a. /\ \A i \in 1 .. 19 : s4[i] = s3[i]
         /\ \A i \in 1 .. 5 : s4[19 + i] = linkM[i]
    BY <1>13, <1>5b, <1>6 DEF Joined
  <1>7. s5 \in Seq(Rows) /\ Joined(s5, s4, finalJ)
    <2>1. Joined(s5, s4, finalJ)
      BY <1>0, <1>1, <1>6, Concatenated
    <2> QED
      BY <2>1 DEF Joined
  <1>7b. Len(s5) = 32
    BY <1>13, <1>6b, <1>7 DEF Joined
  <1>7a. /\ \A i \in 1 .. 24 : s5[i] = s4[i]
         /\ \A i \in 1 .. 8 : s5[24 + i] = finalJ[i]
    BY <1>13, <1>6b, <1>7 DEF Joined
  <1>8. s6 \in Seq(Rows) /\ Joined(s6, s5, finalM)
    <2>1. Joined(s6, s5, finalM)
      BY <1>0, <1>1, <1>7, Concatenated
    <2> QED
      BY <2>1 DEF Joined
  <1>8b. Len(s6) = 40
    BY <1>13, <1>7b, <1>8 DEF Joined
  <1>8a. /\ \A i \in 1 .. 32 : s6[i] = s5[i]
         /\ \A i \in 1 .. 8 : s6[32 + i] = finalM[i]
    BY <1>13, <1>7b, <1>8 DEF Joined
  <1>9. s7 \in Seq(Rows) /\ Joined(s7, s6, commit)
    <2>1. Joined(s7, s6, commit)
      BY <1>0, <1>1, <1>8, Concatenated
    <2> QED
      BY <2>1 DEF Joined
  <1>9b. Len(s7) = 44
    BY <1>13, <1>8b, <1>9 DEF Joined
  <1>9a. /\ \A i \in 1 .. 40 : s7[i] = s6[i]
         /\ \A i \in 1 .. 4 : s7[40 + i] = commit[i]
    BY <1>13, <1>8b, <1>9 DEF Joined
  <1>10. s8 \in Seq(Rows) /\ Joined(s8, s7, path)
    <2>1. Joined(s8, s7, path)
      BY <1>0, <1>1, <1>9, Concatenated
    <2> QED
      BY <2>1 DEF Joined
  <1>10b. Len(s8) = 45
    BY <1>13, <1>9b, <1>10 DEF Joined
  <1>10a. /\ \A i \in 1 .. 44 : s8[i] = s7[i]
         /\ \A i \in 1 .. 1 : s8[44 + i] = path[i]
    BY <1>13, <1>9b, <1>10 DEF Joined
  <1>11. s9 \in Seq(Rows) /\ Joined(s9, s8, return)
    <2>1. Joined(s9, s8, return)
      BY <1>0, <1>1, <1>10, Concatenated
    <2> QED
      BY <2>1 DEF Joined
  <1>11b. Len(s9) = 49
    BY <1>13, <1>10b, <1>11 DEF Joined
  <1>11a. /\ \A i \in 1 .. 45 : s9[i] = s8[i]
         /\ \A i \in 1 .. 4 : s9[45 + i] = return[i]
    BY <1>13, <1>10b, <1>11 DEF Joined
  <1>14. \A i \in 1 .. 45 : Script[i] = s8[i]
    BY <1>2, <1>11a
  <1>15. \A i \in 1 .. 44 : Script[i] = s7[i]
    BY <1>14, <1>10a
  <1>16. \A i \in 1 .. 40 : Script[i] = s6[i]
    BY <1>15, <1>9a
  <1>17. \A i \in 1 .. 32 : Script[i] = s5[i]
    BY <1>16, <1>8a
  <1>18. \A i \in 1 .. 24 : Script[i] = s4[i]
    BY <1>17, <1>7a
  <1>19. \A i \in 1 .. 19 : Script[i] = s3[i]
    BY <1>18, <1>6a
  <1>20. \A i \in 1 .. 14 : Script[i] = s2[i]
    BY <1>19, <1>5a
  <1>21. \A i \in 1 .. 8 : Script[i] = s1[i]
    BY <1>20, <1>4a
  <1>22. \A i \in 1 .. 2 : Script[i] = enter[i]
    BY <1>21, <1>3a
  <1>23. /\ Script[1] = Row("path", "json", "enter")
         /\ Script[2] = Row("empty", "json", "enter")
    <2>1. /\ enter[1] = Row("path", "json", "enter")
         /\ enter[2] = Row("empty", "json", "enter")
      BY EntryTable DEF enter, Sections, Artifacts
    <2> QED
      BY <1>22, <2>1
  <1>24. /\ Script[3] = Row("create", "json", "first")
         /\ Script[4] = Row("write", "json", "first")
         /\ Script[5] = Row("sync", "json", "first")
         /\ Script[6] = Row("seal", "json", "first")
         /\ Script[7] = Row("bytes", "json", "first")
         /\ Script[8] = Row("temp", "json", "first")
    <2>1. /\ first[1] = Row("create", "json", "first")
         /\ first[2] = Row("write", "json", "first")
         /\ first[3] = Row("sync", "json", "first")
         /\ first[4] = Row("seal", "json", "first")
         /\ first[5] = Row("bytes", "json", "first")
         /\ first[6] = Row("temp", "json", "first")
      BY WriteTable DEF first, Sections, Artifacts
    <2>2. \A i \in 1 .. 6 : Script[2 + i] = first[i]
      BY <1>21, <1>3a
    <2> QED
      BY <2>1, <2>2
  <1>25. /\ Script[9] = Row("create", "markdown", "second")
         /\ Script[10] = Row("write", "markdown", "second")
         /\ Script[11] = Row("sync", "markdown", "second")
         /\ Script[12] = Row("seal", "markdown", "second")
         /\ Script[13] = Row("bytes", "markdown", "second")
         /\ Script[14] = Row("temp", "markdown", "second")
    <2>1. /\ second[1] = Row("create", "markdown", "second")
         /\ second[2] = Row("write", "markdown", "second")
         /\ second[3] = Row("sync", "markdown", "second")
         /\ second[4] = Row("seal", "markdown", "second")
         /\ second[5] = Row("bytes", "markdown", "second")
         /\ second[6] = Row("temp", "markdown", "second")
      BY WriteTable DEF second, Sections, Artifacts
    <2>2. \A i \in 1 .. 6 : Script[8 + i] = second[i]
      BY <1>20, <1>4a
    <2> QED
      BY <2>1, <2>2
  <1>26. /\ Script[15] = Row("bytes", "json", "commit")
         /\ Script[16] = Row("temp", "json", "commit")
         /\ Script[17] = Row("link", "json", "commit")
         /\ Script[18] = Row("bytes", "json", "commit")
         /\ Script[19] = Row("final", "json", "commit")
    <2>1. /\ linkJ[1] = Row("bytes", "json", "commit")
         /\ linkJ[2] = Row("temp", "json", "commit")
         /\ linkJ[3] = Row("link", "json", "commit")
         /\ linkJ[4] = Row("bytes", "json", "commit")
         /\ linkJ[5] = Row("final", "json", "commit")
      BY LinkTable DEF linkJ, Sections, Artifacts
    <2>2. \A i \in 1 .. 5 : Script[14 + i] = linkJ[i]
      BY <1>19, <1>5a
    <2> QED
      BY <2>1, <2>2
  <1>27. /\ Script[20] = Row("bytes", "markdown", "commit")
         /\ Script[21] = Row("temp", "markdown", "commit")
         /\ Script[22] = Row("link", "markdown", "commit")
         /\ Script[23] = Row("bytes", "markdown", "commit")
         /\ Script[24] = Row("final", "markdown", "commit")
    <2>1. /\ linkM[1] = Row("bytes", "markdown", "commit")
         /\ linkM[2] = Row("temp", "markdown", "commit")
         /\ linkM[3] = Row("link", "markdown", "commit")
         /\ linkM[4] = Row("bytes", "markdown", "commit")
         /\ linkM[5] = Row("final", "markdown", "commit")
      BY LinkTable DEF linkM, Sections, Artifacts
    <2>2. \A i \in 1 .. 5 : Script[19 + i] = linkM[i]
      BY <1>18, <1>6a
    <2> QED
      BY <2>1, <2>2
  <1>28. /\ Script[25] = Row("bytes", "json", "commit")
         /\ Script[26] = Row("final", "json", "commit")
         /\ Script[27] = Row("bytes", "json", "commit")
         /\ Script[28] = Row("temp", "json", "commit")
         /\ Script[29] = Row("unlink", "json", "commit")
         /\ Script[30] = Row("syncdir", "json", "commit")
         /\ Script[31] = Row("bytes", "json", "commit")
         /\ Script[32] = Row("final", "json", "commit")
    <2>1. /\ finalJ[1] = Row("bytes", "json", "commit")
         /\ finalJ[2] = Row("final", "json", "commit")
         /\ finalJ[3] = Row("bytes", "json", "commit")
         /\ finalJ[4] = Row("temp", "json", "commit")
         /\ finalJ[5] = Row("unlink", "json", "commit")
         /\ finalJ[6] = Row("syncdir", "json", "commit")
         /\ finalJ[7] = Row("bytes", "json", "commit")
         /\ finalJ[8] = Row("final", "json", "commit")
      BY FinalizeTable DEF finalJ, Sections, Artifacts
    <2>2. \A i \in 1 .. 8 : Script[24 + i] = finalJ[i]
      BY <1>17, <1>7a
    <2> QED
      BY <2>1, <2>2
  <1>29. /\ Script[33] = Row("bytes", "markdown", "commit")
         /\ Script[34] = Row("final", "markdown", "commit")
         /\ Script[35] = Row("bytes", "markdown", "commit")
         /\ Script[36] = Row("temp", "markdown", "commit")
         /\ Script[37] = Row("unlink", "markdown", "commit")
         /\ Script[38] = Row("syncdir", "markdown", "commit")
         /\ Script[39] = Row("bytes", "markdown", "commit")
         /\ Script[40] = Row("final", "markdown", "commit")
    <2>1. /\ finalM[1] = Row("bytes", "markdown", "commit")
         /\ finalM[2] = Row("final", "markdown", "commit")
         /\ finalM[3] = Row("bytes", "markdown", "commit")
         /\ finalM[4] = Row("temp", "markdown", "commit")
         /\ finalM[5] = Row("unlink", "markdown", "commit")
         /\ finalM[6] = Row("syncdir", "markdown", "commit")
         /\ finalM[7] = Row("bytes", "markdown", "commit")
         /\ finalM[8] = Row("final", "markdown", "commit")
      BY FinalizeTable DEF finalM, Sections, Artifacts
    <2>2. \A i \in 1 .. 8 : Script[32 + i] = finalM[i]
      BY <1>16, <1>8a
    <2> QED
      BY <2>1, <2>2
  <1>30. /\ Script[41] = Row("bytes", "json", "commit")
         /\ Script[42] = Row("final", "json", "commit")
         /\ Script[43] = Row("bytes", "markdown", "commit")
         /\ Script[44] = Row("final", "markdown", "commit")
    <2>1. /\ commit[1] = Row("bytes", "json", "commit")
         /\ commit[2] = Row("final", "json", "commit")
         /\ commit[3] = Row("bytes", "markdown", "commit")
         /\ commit[4] = Row("final", "markdown", "commit")
      BY VerifyTable DEF commit, Sections, Artifacts
    <2>2. \A i \in 1 .. 4 : Script[40 + i] = commit[i]
      BY <1>15, <1>9a
    <2> QED
      BY <2>1, <2>2
  <1>31. /\ Script[45] = Row("path", "json", "return")
    <2>1. /\ path[1] = Row("path", "json", "return")
      BY ReturnTable DEF path, Sections, Artifacts
    <2>2. \A i \in 1 .. 1 : Script[44 + i] = path[i]
      BY <1>14, <1>10a
    <2> QED
      BY <2>1, <2>2
  <1>32. /\ Script[46] = Row("bytes", "json", "return")
         /\ Script[47] = Row("final", "json", "return")
         /\ Script[48] = Row("bytes", "markdown", "return")
         /\ Script[49] = Row("final", "markdown", "return")
    <2>1. /\ return[1] = Row("bytes", "json", "return")
         /\ return[2] = Row("final", "json", "return")
         /\ return[3] = Row("bytes", "markdown", "return")
         /\ return[4] = Row("final", "markdown", "return")
      BY VerifyTable DEF return, Sections, Artifacts
    <2>2. \A i \in 1 .. 4 : Script[45 + i] = return[i]
      BY <1>2, <1>11a
    <2> QED
      BY <2>1, <2>2
  <1> QED
    BY <1>2, <1>11, <1>11b, <1>23, <1>24, <1>25, <1>26, <1>27, <1>28, <1>29, <1>30, <1>31, <1>32

\* The position of a call that is made once for each artifact.
CreateAt(a) == IF a = "json" THEN 3 ELSE 9
WriteAt(a) == IF a = "json" THEN 4 ELSE 10
SyncAt(a) == IF a = "json" THEN 5 ELSE 11
SealAt(a) == IF a = "json" THEN 6 ELSE 12
LinkAt(a) == IF a = "json" THEN 17 ELSE 22
UnlinkAt(a) == IF a = "json" THEN 29 ELSE 37
SyncDirAt(a) == IF a = "json" THEN 30 ELSE 38

\* Where the calls of the script are, and after which of the others.
PlacedAs(k, op, a, section) ==
    /\ a \in Artifacts
    /\ op = "path" => k \in {1, 45}
    /\ op = "empty" => k = 2
    /\ op = "create" => k = CreateAt(a)
    /\ op = "write" => k = WriteAt(a)
    /\ op = "sync" => k = SyncAt(a)
    /\ op = "seal" => k = SealAt(a)
    /\ op = "link" => k = LinkAt(a)
    /\ op = "unlink" => k = UnlinkAt(a)
    /\ op = "syncdir" => k = SyncDirAt(a)
    /\ op = "bytes" => k > SealAt(a)
    /\ op = "temp" => k > SealAt(a) /\ k < UnlinkAt(a)
    /\ op = "final" => k > LinkAt(a)
    /\ section = IF k <= 2 THEN "enter" ELSE IF k <= 8 THEN "first"
                 ELSE IF k <= 14 THEN "second" ELSE IF k <= 44 THEN "commit" ELSE "return"
    /\ \A b \in Artifacts :
          /\ k = CreateAt(b) => op = "create" /\ a = b
          /\ k = WriteAt(b) => op = "write" /\ a = b
          /\ k = SyncAt(b) => op = "sync" /\ a = b
          /\ k = SealAt(b) => op = "seal" /\ a = b
          /\ k = LinkAt(b) => op = "link" /\ a = b
          /\ k = UnlinkAt(b) => op = "unlink" /\ a = b
          /\ k = SyncDirAt(b) => op = "syncdir" /\ a = b
    /\ k = 1 => op = "path"
    /\ k = 2 => op = "empty"
    /\ k = 45 => op = "path"
    /\ k = 46 => op = "bytes" /\ a = "json"
    /\ k = 47 => op = "final" /\ a = "json"
    /\ k = 48 => op = "bytes" /\ a = "markdown"
    /\ k = 49 => op = "final" /\ a = "markdown"
Placed(k) == PlacedAs(k, Script[k].op, Script[k].art, Script[k].in)

LEMMA RowPlaced ==
  ASSUME NEW k, NEW op, NEW a, NEW section, Script[k] = Row(op, a, section),
         PlacedAs(k, op, a, section)
  PROVE  Placed(k)
  BY DEF Row, Placed

LEMMA PositionsAs ==
  /\ PlacedAs(1, "path", "json", "enter")
  /\ PlacedAs(2, "empty", "json", "enter")
  /\ PlacedAs(3, "create", "json", "first")
  /\ PlacedAs(4, "write", "json", "first")
  /\ PlacedAs(5, "sync", "json", "first")
  /\ PlacedAs(6, "seal", "json", "first")
  /\ PlacedAs(7, "bytes", "json", "first")
  /\ PlacedAs(8, "temp", "json", "first")
  /\ PlacedAs(9, "create", "markdown", "second")
  /\ PlacedAs(10, "write", "markdown", "second")
  /\ PlacedAs(11, "sync", "markdown", "second")
  /\ PlacedAs(12, "seal", "markdown", "second")
  /\ PlacedAs(13, "bytes", "markdown", "second")
  /\ PlacedAs(14, "temp", "markdown", "second")
  /\ PlacedAs(15, "bytes", "json", "commit")
  /\ PlacedAs(16, "temp", "json", "commit")
  /\ PlacedAs(17, "link", "json", "commit")
  /\ PlacedAs(18, "bytes", "json", "commit")
  /\ PlacedAs(19, "final", "json", "commit")
  /\ PlacedAs(20, "bytes", "markdown", "commit")
  /\ PlacedAs(21, "temp", "markdown", "commit")
  /\ PlacedAs(22, "link", "markdown", "commit")
  /\ PlacedAs(23, "bytes", "markdown", "commit")
  /\ PlacedAs(24, "final", "markdown", "commit")
  /\ PlacedAs(25, "bytes", "json", "commit")
  /\ PlacedAs(26, "final", "json", "commit")
  /\ PlacedAs(27, "bytes", "json", "commit")
  /\ PlacedAs(28, "temp", "json", "commit")
  /\ PlacedAs(29, "unlink", "json", "commit")
  /\ PlacedAs(30, "syncdir", "json", "commit")
  /\ PlacedAs(31, "bytes", "json", "commit")
  /\ PlacedAs(32, "final", "json", "commit")
  /\ PlacedAs(33, "bytes", "markdown", "commit")
  /\ PlacedAs(34, "final", "markdown", "commit")
  /\ PlacedAs(35, "bytes", "markdown", "commit")
  /\ PlacedAs(36, "temp", "markdown", "commit")
  /\ PlacedAs(37, "unlink", "markdown", "commit")
  /\ PlacedAs(38, "syncdir", "markdown", "commit")
  /\ PlacedAs(39, "bytes", "markdown", "commit")
  /\ PlacedAs(40, "final", "markdown", "commit")
  /\ PlacedAs(41, "bytes", "json", "commit")
  /\ PlacedAs(42, "final", "json", "commit")
  /\ PlacedAs(43, "bytes", "markdown", "commit")
  /\ PlacedAs(44, "final", "markdown", "commit")
  /\ PlacedAs(45, "path", "json", "return")
  /\ PlacedAs(46, "bytes", "json", "return")
  /\ PlacedAs(47, "final", "json", "return")
  /\ PlacedAs(48, "bytes", "markdown", "return")
  /\ PlacedAs(49, "final", "markdown", "return")
  <1>1. /\ PlacedAs(1, "path", "json", "enter")
       /\ PlacedAs(2, "empty", "json", "enter")
       /\ PlacedAs(3, "create", "json", "first")
       /\ PlacedAs(4, "write", "json", "first")
       /\ PlacedAs(5, "sync", "json", "first")
       /\ PlacedAs(6, "seal", "json", "first")
       /\ PlacedAs(7, "bytes", "json", "first")
    BY DEF PlacedAs, CreateAt, WriteAt, SyncAt, SealAt, LinkAt, UnlinkAt, SyncDirAt, Artifacts
  <1>2. /\ PlacedAs(8, "temp", "json", "first")
       /\ PlacedAs(9, "create", "markdown", "second")
       /\ PlacedAs(10, "write", "markdown", "second")
       /\ PlacedAs(11, "sync", "markdown", "second")
       /\ PlacedAs(12, "seal", "markdown", "second")
       /\ PlacedAs(13, "bytes", "markdown", "second")
       /\ PlacedAs(14, "temp", "markdown", "second")
    BY DEF PlacedAs, CreateAt, WriteAt, SyncAt, SealAt, LinkAt, UnlinkAt, SyncDirAt, Artifacts
  <1>3. /\ PlacedAs(15, "bytes", "json", "commit")
       /\ PlacedAs(16, "temp", "json", "commit")
       /\ PlacedAs(17, "link", "json", "commit")
       /\ PlacedAs(18, "bytes", "json", "commit")
       /\ PlacedAs(19, "final", "json", "commit")
       /\ PlacedAs(20, "bytes", "markdown", "commit")
       /\ PlacedAs(21, "temp", "markdown", "commit")
    BY DEF PlacedAs, CreateAt, WriteAt, SyncAt, SealAt, LinkAt, UnlinkAt, SyncDirAt, Artifacts
  <1>4. /\ PlacedAs(22, "link", "markdown", "commit")
       /\ PlacedAs(23, "bytes", "markdown", "commit")
       /\ PlacedAs(24, "final", "markdown", "commit")
       /\ PlacedAs(25, "bytes", "json", "commit")
       /\ PlacedAs(26, "final", "json", "commit")
       /\ PlacedAs(27, "bytes", "json", "commit")
       /\ PlacedAs(28, "temp", "json", "commit")
    BY DEF PlacedAs, CreateAt, WriteAt, SyncAt, SealAt, LinkAt, UnlinkAt, SyncDirAt, Artifacts
  <1>5. /\ PlacedAs(29, "unlink", "json", "commit")
       /\ PlacedAs(30, "syncdir", "json", "commit")
       /\ PlacedAs(31, "bytes", "json", "commit")
       /\ PlacedAs(32, "final", "json", "commit")
       /\ PlacedAs(33, "bytes", "markdown", "commit")
       /\ PlacedAs(34, "final", "markdown", "commit")
       /\ PlacedAs(35, "bytes", "markdown", "commit")
    BY DEF PlacedAs, CreateAt, WriteAt, SyncAt, SealAt, LinkAt, UnlinkAt, SyncDirAt, Artifacts
  <1>6. /\ PlacedAs(36, "temp", "markdown", "commit")
       /\ PlacedAs(37, "unlink", "markdown", "commit")
       /\ PlacedAs(38, "syncdir", "markdown", "commit")
       /\ PlacedAs(39, "bytes", "markdown", "commit")
       /\ PlacedAs(40, "final", "markdown", "commit")
       /\ PlacedAs(41, "bytes", "json", "commit")
       /\ PlacedAs(42, "final", "json", "commit")
    BY DEF PlacedAs, CreateAt, WriteAt, SyncAt, SealAt, LinkAt, UnlinkAt, SyncDirAt, Artifacts
  <1>7. /\ PlacedAs(43, "bytes", "markdown", "commit")
       /\ PlacedAs(44, "final", "markdown", "commit")
       /\ PlacedAs(45, "path", "json", "return")
       /\ PlacedAs(46, "bytes", "json", "return")
       /\ PlacedAs(47, "final", "json", "return")
       /\ PlacedAs(48, "bytes", "markdown", "return")
       /\ PlacedAs(49, "final", "markdown", "return")
    BY DEF PlacedAs, CreateAt, WriteAt, SyncAt, SealAt, LinkAt, UnlinkAt, SyncDirAt, Artifacts
  <1> QED
    BY <1>1, <1>2, <1>3, <1>4, <1>5, <1>6, <1>7

LEMMA Positions ==
  ASSUME NEW k \in Steps
  PROVE  k \in 1 .. 49 /\ Placed(k)
  <1>1. k \in 1 .. 49
    BY ScriptTable DEF Steps
  <1>2. CASE k \in 1 .. 8
    <2>1. Placed(1)
      BY ScriptTable, RowPlaced, PositionsAs
    <2>2. Placed(2)
      BY ScriptTable, RowPlaced, PositionsAs
    <2>3. Placed(3)
      BY ScriptTable, RowPlaced, PositionsAs
    <2>4. Placed(4)
      BY ScriptTable, RowPlaced, PositionsAs
    <2>5. Placed(5)
      BY ScriptTable, RowPlaced, PositionsAs
    <2>6. Placed(6)
      BY ScriptTable, RowPlaced, PositionsAs
    <2>7. Placed(7)
      BY ScriptTable, RowPlaced, PositionsAs
    <2>8. Placed(8)
      BY ScriptTable, RowPlaced, PositionsAs
    <2> QED
      BY <1>2, <2>1, <2>2, <2>3, <2>4, <2>5, <2>6, <2>7, <2>8
  <1>3. CASE k \in 9 .. 14
    <2>9. Placed(9)
      BY ScriptTable, RowPlaced, PositionsAs
    <2>10. Placed(10)
      BY ScriptTable, RowPlaced, PositionsAs
    <2>11. Placed(11)
      BY ScriptTable, RowPlaced, PositionsAs
    <2>12. Placed(12)
      BY ScriptTable, RowPlaced, PositionsAs
    <2>13. Placed(13)
      BY ScriptTable, RowPlaced, PositionsAs
    <2>14. Placed(14)
      BY ScriptTable, RowPlaced, PositionsAs
    <2> QED
      BY <1>3, <2>9, <2>10, <2>11, <2>12, <2>13, <2>14
  <1>4. CASE k \in 15 .. 24
    <2>15. Placed(15)
      BY ScriptTable, RowPlaced, PositionsAs
    <2>16. Placed(16)
      BY ScriptTable, RowPlaced, PositionsAs
    <2>17. Placed(17)
      BY ScriptTable, RowPlaced, PositionsAs
    <2>18. Placed(18)
      BY ScriptTable, RowPlaced, PositionsAs
    <2>19. Placed(19)
      BY ScriptTable, RowPlaced, PositionsAs
    <2>20. Placed(20)
      BY ScriptTable, RowPlaced, PositionsAs
    <2>21. Placed(21)
      BY ScriptTable, RowPlaced, PositionsAs
    <2>22. Placed(22)
      BY ScriptTable, RowPlaced, PositionsAs
    <2>23. Placed(23)
      BY ScriptTable, RowPlaced, PositionsAs
    <2>24. Placed(24)
      BY ScriptTable, RowPlaced, PositionsAs
    <2> QED
      BY <1>4, <2>15, <2>16, <2>17, <2>18, <2>19, <2>20, <2>21, <2>22, <2>23, <2>24
  <1>5. CASE k \in 25 .. 32
    <2>25. Placed(25)
      BY ScriptTable, RowPlaced, PositionsAs
    <2>26. Placed(26)
      BY ScriptTable, RowPlaced, PositionsAs
    <2>27. Placed(27)
      BY ScriptTable, RowPlaced, PositionsAs
    <2>28. Placed(28)
      BY ScriptTable, RowPlaced, PositionsAs
    <2>29. Placed(29)
      BY ScriptTable, RowPlaced, PositionsAs
    <2>30. Placed(30)
      BY ScriptTable, RowPlaced, PositionsAs
    <2>31. Placed(31)
      BY ScriptTable, RowPlaced, PositionsAs
    <2>32. Placed(32)
      BY ScriptTable, RowPlaced, PositionsAs
    <2> QED
      BY <1>5, <2>25, <2>26, <2>27, <2>28, <2>29, <2>30, <2>31, <2>32
  <1>6. CASE k \in 33 .. 40
    <2>33. Placed(33)
      BY ScriptTable, RowPlaced, PositionsAs
    <2>34. Placed(34)
      BY ScriptTable, RowPlaced, PositionsAs
    <2>35. Placed(35)
      BY ScriptTable, RowPlaced, PositionsAs
    <2>36. Placed(36)
      BY ScriptTable, RowPlaced, PositionsAs
    <2>37. Placed(37)
      BY ScriptTable, RowPlaced, PositionsAs
    <2>38. Placed(38)
      BY ScriptTable, RowPlaced, PositionsAs
    <2>39. Placed(39)
      BY ScriptTable, RowPlaced, PositionsAs
    <2>40. Placed(40)
      BY ScriptTable, RowPlaced, PositionsAs
    <2> QED
      BY <1>6, <2>33, <2>34, <2>35, <2>36, <2>37, <2>38, <2>39, <2>40
  <1>7. CASE k \in 41 .. 49
    <2>41. Placed(41)
      BY ScriptTable, RowPlaced, PositionsAs
    <2>42. Placed(42)
      BY ScriptTable, RowPlaced, PositionsAs
    <2>43. Placed(43)
      BY ScriptTable, RowPlaced, PositionsAs
    <2>44. Placed(44)
      BY ScriptTable, RowPlaced, PositionsAs
    <2>45. Placed(45)
      BY ScriptTable, RowPlaced, PositionsAs
    <2>46. Placed(46)
      BY ScriptTable, RowPlaced, PositionsAs
    <2>47. Placed(47)
      BY ScriptTable, RowPlaced, PositionsAs
    <2>48. Placed(48)
      BY ScriptTable, RowPlaced, PositionsAs
    <2>49. Placed(49)
      BY ScriptTable, RowPlaced, PositionsAs
    <2> QED
      BY <1>7, <2>41, <2>42, <2>43, <2>44, <2>45, <2>46, <2>47, <2>48, <2>49
  <1> QED
    BY <1>1, <1>2, <1>3, <1>4, <1>5, <1>6, <1>7

-----------------------------------------------------------------------------
(* The type                                                                *)

States == {"publishing", "cleaning", "published", "failed", "stopped", "absent"}
Contents == {"absent", "partial", "payload", "altered"}
Named(a) == {<<p, a>> : p \in Publishers} \cup {Foreign, None}
Cleanups == [batch : Seq(Artifacts), next : Seq(Artifacts), always : BOOLEAN,
             at : {"bytes", "temp", "unlink"}, raises : Nat, left : SUBSET Artifacts]

TypeInv ==
    /\ final = [a \in Artifacts |-> final[a]] /\ \A a \in Artifacts : final[a] \in Named(a)
    /\ temp = [f \in Owned |-> temp[f]] /\ \A f \in Owned : temp[f] \in {f, Foreign, None}
    /\ bytes \in [Owned -> Contents] /\ expected \in [Owned -> Contents]
    /\ tempOwned \in [Owned -> BOOLEAN] /\ bound \in BOOLEAN
    /\ durable \in [files : SUBSET Owned, final : [Artifacts -> Entries]]
    /\ \A a \in Artifacts : durable.final[a] \in Named(a)
    /\ pc \in [Publishers -> Steps] /\ state \in [Publishers -> States]
    /\ cleanup \in [Publishers -> Cleanups]
    /\ rival \in Nat /\ faults \in Nat /\ touched \in [Publishers -> 0 .. 49]

LEMMA Constants ==
  /\ Steps = 1 .. 49 /\ Len(Script) = 49 /\ LastCheck = 45
  /\ Foreign # None /\ Foreign \notin Owned /\ None \notin Owned
  /\ \A p \in Publishers, a \in Artifacts : <<p, a>> \in Owned
  /\ \A a \in Artifacts : Named(a) \subseteq Entries
  <1>1. Steps = 1 .. 49 /\ Len(Script) = 49
    BY ScriptTable DEF Steps
  <1>2. Script[45].in = "return" /\ Script[45].op = "path"
    BY ScriptTable DEF Row
  <1>3. \A i \in Steps : Script[i].in = "return" /\ Script[i].op = "path" => i = 45
    <2> TAKE i \in Steps
    <2>1. Placed(i) /\ i \in 1 .. 49
      BY Positions
    <2>2. Script[i].op = "path" => i = 1 \/ i = 45
      BY <2>1 DEF Placed, PlacedAs
    <2>3. i = 1 => Script[i].in = "enter"
      BY <2>1 DEF Placed, PlacedAs
    <2> QED
      BY <2>2, <2>3
  <1>4. LastCheck = 45
    <2>1. 45 \in Steps
      BY <1>1
    <2>2. /\ LastCheck \in Steps /\ Script[LastCheck].in = "return"
          /\ Script[LastCheck].op = "path"
      BY <1>2, <2>1 DEF LastCheck
    <2> QED
      BY <1>3, <2>2
  <1>5. Foreign # None /\ Foreign \notin Owned /\ None \notin Owned
    BY NamesAssumption DEF Owned, Artifacts
  <1>6. \A p \in Publishers, a \in Artifacts : <<p, a>> \in Owned
    BY DEF Owned
  <1> QED
    BY <1>1, <1>4, <1>5, <1>6 DEF Named, Entries

\* How the counters of a publisher and its cleanup move.
Succeeds(p) ==
    /\ state[p] = "publishing" /\ cleanup' = cleanup
    /\ \/ pc[p] = 49 /\ pc' = pc /\ state' = [state EXCEPT ![p] = "published"]
       \/ pc[p] < 49 /\ pc' = [pc EXCEPT ![p] = pc[p] + 1] /\ state' = state
Counters == pc' \in [Publishers -> Steps] /\ state' \in [Publishers -> States]
            /\ cleanup' \in [Publishers -> Cleanups]

LEMMA AdvanceType ==
  ASSUME TypeInv, NEW p \in Publishers, state[p] = "publishing", Advance(p)
  PROVE  Succeeds(p) /\ Counters
  <1>1. pc[p] \in 1 .. 49 /\ Len(Script) = 49 /\ Steps = 1 .. 49
    BY Constants DEF TypeInv
  <1>2. Succeeds(p)
    BY <1>1 DEF Advance, Succeeds
  <1>3. pc' \in [Publishers -> Steps]
    BY <1>1 DEF Advance, TypeInv
  <1>4. state' \in [Publishers -> States] /\ cleanup' = cleanup
    BY DEF Advance, TypeInv, States
  <1> QED
    BY <1>2, <1>3, <1>4 DEF Counters, TypeInv

LEMMA Batches ==
  /\ <<>> \in Seq(Artifacts) /\ Reversed \in Seq(Artifacts)
  /\ \A a \in Artifacts : <<a>> \in Seq(Artifacts)
  BY DEF Reversed, Artifacts

LEMMA NoCleanupType == NoCleanup \in Cleanups
  <1>1. <<>> \in Seq(Artifacts) /\ {} \in SUBSET Artifacts /\ FALSE \in BOOLEAN /\ 0 \in Nat
    BY Batches
  <1> QED
    BY <1>1 DEF NoCleanup, Cleanups

LEMMA PlanType ==
  ASSUME NEW batch \in Seq(Artifacts), NEW next \in Seq(Artifacts), NEW always \in BOOLEAN
  PROVE  /\ Plan(batch, next, always) \in Cleanups
         /\ Plan(batch, next, always).batch = batch /\ Plan(batch, next, always).next = next
         /\ Plan(batch, next, always).always = always
         /\ Plan(batch, next, always).at = "bytes" /\ Plan(batch, next, always).raises = 0 /\ Plan(batch, next, always).left = {}
  <1> DEFINE c == NoCleanup
             d == [c EXCEPT !.batch = batch]
             e == [d EXCEPT !.next = next]
  <1>1. c \in Cleanups /\ c.at = "bytes" /\ c.raises = 0 /\ c.left = {}
    BY NoCleanupType DEF NoCleanup
  <1> HIDE DEF c
  <1>2. d \in Cleanups /\ d.at = "bytes" /\ d.raises = 0 /\ d.left = {} /\ d.batch = batch
    BY <1>1 DEF Cleanups
  <1> HIDE DEF d
  <1>3. e \in Cleanups /\ e.at = "bytes" /\ e.raises = 0 /\ e.left = {} /\ e.batch = batch /\ e.next = next
    BY <1>2 DEF Cleanups
  <1> HIDE DEF e
  <1>4. Plan(batch, next, always) = [e EXCEPT !.always = always]
    BY DEF Plan, c, d, e
  <1> QED
    BY <1>3, <1>4 DEF Cleanups

\* The same for a value of always that is spelt out.
LEMMA PlanTypeTrue ==
  ASSUME NEW batch \in Seq(Artifacts), NEW next \in Seq(Artifacts)
  PROVE  /\ Plan(batch, next, TRUE) \in Cleanups
         /\ Plan(batch, next, TRUE).batch = batch /\ Plan(batch, next, TRUE).next = next
         /\ Plan(batch, next, TRUE).always = TRUE /\ Plan(batch, next, TRUE).raises = 0 /\ Plan(batch, next, TRUE).left = {}
  <1> DEFINE yes == TRUE
             c == Plan(batch, next, yes)
  <1>1. yes \in BOOLEAN
    OBVIOUS
  <1> HIDE DEF yes
  <1>2. c \in Cleanups /\ c.batch = batch /\ c.next = next /\ c.always = yes /\ c.raises = 0 /\ c.left = {}
    BY <1>1, PlanType
  <1> QED
    BY <1>2 DEF yes

LEMMA PlanTypeFalse ==
  ASSUME NEW batch \in Seq(Artifacts), NEW next \in Seq(Artifacts)
  PROVE  /\ Plan(batch, next, FALSE) \in Cleanups
         /\ Plan(batch, next, FALSE).batch = batch /\ Plan(batch, next, FALSE).next = next
         /\ Plan(batch, next, FALSE).raises = 0 /\ Plan(batch, next, FALSE).left = {}
  <1> DEFINE no == FALSE
             c == Plan(batch, next, no)
  <1>1. no \in BOOLEAN
    OBVIOUS
  <1> HIDE DEF no
  <1>2. c \in Cleanups /\ c.batch = batch /\ c.next = next /\ c.raises = 0 /\ c.left = {}
    BY <1>1, PlanType
  <1> QED
    BY <1>2 DEF no

LEMMA PlansTyped ==
  ASSUME NEW batch \in Seq(Artifacts), NEW next \in Seq(Artifacts)
  PROVE  Plan(batch, next, TRUE) \in Cleanups /\ Plan(batch, next, FALSE) \in Cleanups
  <1>1. Plan(batch, next, TRUE) \in Cleanups
    BY PlanTypeTrue
  <1>2. Plan(batch, next, FALSE) \in Cleanups
    BY PlanTypeFalse
  <1> QED
    BY <1>1, <1>2

LEMMA FailType ==
  ASSUME TypeInv, NEW p \in Publishers, Fail(p)
  PROVE  Counters /\ CleanupPlan(p) \in Cleanups
  <1>1. pc[p] \in Steps /\ Placed(pc[p])
    BY Positions DEF TypeInv
  <1>2. Art(p) \in Artifacts
    BY <1>1 DEF Placed, PlacedAs, Art
  <1>3. NoCleanup \in Cleanups
    BY NoCleanupType
  <1> DEFINE section == Script[pc[p]].in
  <1>4. section \in {"enter", "first", "second", "commit", "return"}
    BY <1>1 DEF Placed, PlacedAs
  <1>5. CleanupPlan(p) \in Cleanups
    <2> DEFINE atCreate == Script[pc[p]].op = "create"
    <2>1. CASE section = "enter"
      BY <1>3, <2>1 DEF CleanupPlan
    <2>2. CASE section = "first"
      <3>1. (IF atCreate THEN <<>> ELSE <<"json">>) \in Seq(Artifacts)
        BY Batches DEF Artifacts
      <3>2. CleanupPlan(p) = Plan(IF atCreate THEN <<>> ELSE <<"json">>, <<>>, TRUE)
        BY <2>2 DEF CleanupPlan
      <3> QED
        BY <3>1, <3>2, Batches, PlansTyped
    <2>3. CASE section = "second"
      <3>1. /\ (IF atCreate THEN <<>> ELSE <<"markdown">>) \in Seq(Artifacts)
            /\ <<"json">> \in Seq(Artifacts)
        BY Batches DEF Artifacts
      <3>2. CleanupPlan(p) = Plan(IF atCreate THEN <<>> ELSE <<"markdown">>, <<"json">>, TRUE)
        BY <2>3 DEF CleanupPlan
      <3> QED
        BY <3>1, <3>2, PlansTyped
    <2>4. CASE section = "commit"
      <3>1. CleanupPlan(p) = Plan(Reversed, Reversed, FALSE)
        BY <2>4 DEF CleanupPlan
      <3> QED
        BY <3>1, Batches, PlansTyped
    <2>5. CASE section = "return"
      <3>1. CleanupPlan(p) = Plan(Reversed, <<>>, TRUE)
        BY <2>5 DEF CleanupPlan
      <3> QED
        BY <3>1, Batches, PlansTyped
    <2> QED
      BY <1>4, <2>1, <2>2, <2>3, <2>4, <2>5
  <1> QED
    <2>1. state' = [state EXCEPT ![p] = "cleaning"] /\ pc' = pc
          /\ cleanup' = [cleanup EXCEPT ![p] = CleanupPlan(p)]
      BY DEF Fail
    <2>2. state' \in [Publishers -> States]
      BY <2>1 DEF TypeInv, States
    <2>3. cleanup' \in [Publishers -> Cleanups]
      BY <1>5, <2>1 DEF TypeInv
    <2> QED
      BY <1>5, <2>1, <2>2, <2>3 DEF Counters, TypeInv

LEMMA FileType ==
  ASSUME TypeInv, NEW p \in Publishers
  PROVE  /\ Art(p) \in Artifacts /\ File(p) = <<p, Art(p)>> /\ File(p) \in Owned
         /\ pc[p] \in 1 .. 49 /\ Placed(pc[p])
  <1>1. pc[p] \in 1 .. 49 /\ Placed(pc[p])
    BY Positions DEF TypeInv
  <1>2. Art(p) \in Artifacts
    BY <1>1 DEF Art, Placed, PlacedAs
  <1> QED
    BY <1>1, <1>2, Constants DEF File

\* The rest of the type: what the calls do to files and records.
Stored ==
    /\ final = [a \in Artifacts |-> final[a]] /\ \A a \in Artifacts : final[a] \in Named(a)
    /\ temp = [f \in Owned |-> temp[f]] /\ \A f \in Owned : temp[f] \in {f, Foreign, None}
    /\ bytes \in [Owned -> Contents] /\ expected \in [Owned -> Contents]
    /\ tempOwned \in [Owned -> BOOLEAN] /\ bound \in BOOLEAN
    /\ durable \in [files : SUBSET Owned, final : [Artifacts -> Entries]]
    /\ \A a \in Artifacts : durable.final[a] \in Named(a)
Numbered == rival \in Nat /\ faults \in Nat /\ touched \in [Publishers -> 0 .. 49]

LEMMA TypeParts == TypeInv <=> Stored /\ Numbered /\ pc \in [Publishers -> Steps]
                       /\ state \in [Publishers -> States] /\ cleanup \in [Publishers -> Cleanups]
  BY DEF TypeInv, Stored, Numbered

LEMMA TypePartsNext == Stored' /\ Numbered' /\ Counters => TypeInv'
  BY DEF TypeInv, Stored, Numbered, Counters

LEMMA CheckType ==
  ASSUME TypeInv, NEW p \in Publishers,
         CheckPath(p) \/ CheckEmpty(p) \/ CheckBytes(p) \/ CheckTemp(p) \/ CheckFinal(p)
  PROVE  TypeInv'
  <1>1. PICK ok \in BOOLEAN : state[p] = "publishing" /\ Observe(p, ok)
    BY DEF CheckPath, CheckEmpty, CheckBytes, CheckTemp, CheckFinal, At, NothingThere, BytesExact,
       TypeInv
  <1>2. Counters
    BY <1>1, AdvanceType, FailType DEF Observe, Continue
  <1>3. Stored' /\ Numbered'
    BY <1>1 DEF Observe, files, records, ghosts, TypeInv, Stored, Numbered
  <1> QED
    BY <1>2, <1>3, TypePartsNext

LEMMA CallType ==
  ASSUME TypeInv, NEW p \in Publishers,
         \/ Create(p) \/ Write(p) \/ Sync(p) \/ Seal(p) \/ Link(p) \/ Unlink(p)
         \/ SyncDirectory(p) \/ CallFails(p)
  PROVE  TypeInv'
  <1> DEFINE f == File(p)
  <1>1. f \in Owned /\ Art(p) \in Artifacts /\ f = <<p, Art(p)>>
    BY FileType
  <1>2. Counters
    <2>1. state[p] = "publishing" /\ (Advance(p) \/ Fail(p))
      BY DEF Create, Write, Sync, Seal, Link, Unlink, SyncDirectory, CallFails, At
    <2> QED
      BY <2>1, AdvanceType, FailType
  <1>3. Numbered'
    BY DEF Create, Write, Sync, Seal, Link, Unlink, SyncDirectory, CallFails, ghosts, TypeInv,
       Numbered
  <1>4. Stored
    BY TypeParts
  <1> HIDE DEF f
  <1>5. Stored'
    <2>1. CASE Create(p)
      <3>1. /\ UNCHANGED <<final, bound, expected, durable>>
            /\ \/ UNCHANGED <<temp, bytes, tempOwned>>
               \/ /\ temp' = [temp EXCEPT ![f] = f] /\ bytes' = [bytes EXCEPT ![f] = "partial"]
                  /\ tempOwned' = [tempOwned EXCEPT ![f] = TRUE]
        BY <2>1 DEF Create, f
      <3>2. temp' = [g \in Owned |-> temp'[g]] /\ \A g \in Owned : temp'[g] \in {g, Foreign, None}
        BY <1>1, <1>4, <3>1 DEF Stored
      <3>3. bytes' \in [Owned -> Contents] /\ tempOwned' \in [Owned -> BOOLEAN]
        BY <1>1, <1>4, <3>1 DEF Stored, Contents
      <3> QED
        BY <1>4, <3>1, <3>2, <3>3 DEF Stored
    <2>2. CASE Write(p)
      <3>1. /\ UNCHANGED <<final, temp, bound, expected, tempOwned, durable>>
            /\ bytes' = [bytes EXCEPT ![f] = "payload"]
        BY <2>2 DEF Write, f, records
      <3> QED
        BY <1>1, <1>4, <3>1 DEF Stored, Contents
    <2>3. CASE Sync(p)
      <3>1. /\ UNCHANGED <<final, temp, bytes, bound, expected, tempOwned>>
            /\ durable' = [durable EXCEPT !.files = durable.files \cup {f}]
        BY <2>3 DEF Sync, f, records, files
      <3>2. durable' \in [files : SUBSET Owned, final : [Artifacts -> Entries]]
            /\ durable'.final = durable.final
        BY <1>1, <1>4, <3>1 DEF Stored
      <3> QED
        BY <1>4, <3>1, <3>2 DEF Stored
    <2>4. CASE Seal(p)
      <3>1. /\ UNCHANGED <<final, temp, bytes, bound, tempOwned, durable>>
            /\ expected' = [expected EXCEPT ![f] = bytes[f]]
        BY <2>4 DEF Seal, f, files
      <3> QED
        BY <1>1, <1>4, <3>1 DEF Stored
    <2>5. CASE Link(p)
      <3>1. /\ UNCHANGED <<temp, bytes, bound, expected, tempOwned, durable>>
            /\ final' = final \/ final' = [final EXCEPT ![Art(p)] = temp[f]]
        BY <2>5 DEF Link, f, records
      <3>2. temp[f] \in Named(Art(p))
        BY <1>1, <1>4 DEF Stored, Named
      <3>3. final' = [a \in Artifacts |-> final'[a]] /\ \A a \in Artifacts : final'[a] \in Named(a)
        BY <1>1, <1>4, <3>1, <3>2 DEF Stored
      <3> QED
        BY <1>4, <3>1, <3>3 DEF Stored
    <2>6. CASE Unlink(p)
      <3>1. /\ UNCHANGED <<final, bytes, bound, expected, durable>>
            /\ \/ UNCHANGED <<temp, tempOwned>>
               \/ /\ temp' = [temp EXCEPT ![f] = None]
                  /\ tempOwned' = [tempOwned EXCEPT ![f] = FALSE]
        BY <2>6 DEF Unlink, f
      <3>2. temp' = [g \in Owned |-> temp'[g]] /\ \A g \in Owned : temp'[g] \in {g, Foreign, None}
        BY <1>1, <1>4, <3>1 DEF Stored
      <3>3. tempOwned' \in [Owned -> BOOLEAN]
        BY <1>1, <1>4, <3>1 DEF Stored
      <3> QED
        BY <1>4, <3>1, <3>2, <3>3 DEF Stored
    <2>7. CASE SyncDirectory(p)
      <3>1. /\ UNCHANGED <<final, temp, bytes, bound, expected, tempOwned>>
            /\ durable' = [durable EXCEPT !.final = final]
        BY <2>7 DEF SyncDirectory, files, records
      <3>2. final \in [Artifacts -> Entries]
        BY <1>4, Constants DEF Stored
      <3>3. durable' \in [files : SUBSET Owned, final : [Artifacts -> Entries]]
            /\ durable'.final = final
        BY <1>4, <3>1, <3>2 DEF Stored
      <3> QED
        BY <1>4, <3>1, <3>3 DEF Stored
    <2>8. CASE CallFails(p)
      <3>1. UNCHANGED <<final, temp, bound, tempOwned, durable>>
        BY <2>8 DEF CallFails
      <3>2. \/ UNCHANGED <<bytes, expected>>
            \/ \E held \in {"partial", bytes[f]}, sealed \in {"absent", "partial", bytes[f]} :
                  /\ bytes' = [bytes EXCEPT ![f] = held]
                  /\ expected' = [expected EXCEPT ![f] = sealed]
        BY <2>8 DEF CallFails, f
      <3>3. bytes' \in [Owned -> Contents] /\ expected' \in [Owned -> Contents]
        BY <1>1, <1>4, <3>2 DEF Stored, Contents
      <3> QED
        BY <1>4, <3>1, <3>3 DEF Stored
    <2> QED
      BY <2>1, <2>2, <2>3, <2>4, <2>5, <2>6, <2>7, <2>8
  <1> QED
    BY <1>2, <1>3, <1>5, TypePartsNext

\* A step of a cleanup, as far as the invariants look at it.
Cleans(p) ==
    /\ state[p] = "cleaning" /\ UNCHANGED <<final, bytes, bound, pc, expected, durable, rival, touched>>
    /\ faults' \in {faults, faults + 1}
    /\ \/ state' = state
       \/ cleanup[p].batch = <<>> /\ state' = [state EXCEPT ![p] = "failed"]
    /\ \/ UNCHANGED <<temp, tempOwned>>
       \/ /\ cleanup[p].batch # <<>>
          /\ tempOwned' = [tempOwned EXCEPT ![Target(p)] = FALSE]
          /\ temp' = temp \/ temp' = [temp EXCEPT ![Target(p)] = None]
    /\ \A q \in Publishers \ {p} : cleanup'[q] = cleanup[q]

LEMMA TargetType ==
  ASSUME TypeInv, NEW p \in Publishers, cleanup[p].batch # <<>>
  PROVE  /\ Head(cleanup[p].batch) \in Artifacts /\ Tail(cleanup[p].batch) \in Seq(Artifacts)
         /\ Target(p) = <<p, Head(cleanup[p].batch)>> /\ Target(p) \in Owned
  <1>1. cleanup[p] \in Cleanups /\ cleanup[p].batch \in Seq(Artifacts)
    BY DEF TypeInv, Cleanups
  <1>2. Head(cleanup[p].batch) \in Artifacts /\ Tail(cleanup[p].batch) \in Seq(Artifacts)
    BY <1>1
  <1> QED
    BY <1>2, Constants DEF Target

\* What becomes of one cleanup record.
LEMMA CleanupRecord ==
  ASSUME TypeInv, NEW p \in Publishers, NEW c \in Cleanups, cleanup' = [cleanup EXCEPT ![p] = c]
  PROVE  /\ cleanup' \in [Publishers -> Cleanups] /\ cleanup'[p] = c
         /\ \A q \in Publishers \ {p} : cleanup'[q] = cleanup[q]
  BY DEF TypeInv

\* What is left to clean when the first artifact of a batch is done with, and when the rest of
\* the batch is abandoned.
Popped(c, left) == [c EXCEPT !.batch = Tail(@), !.at = "bytes", !.left = @ \cup left]
Dropped(c, left) == [c EXCEPT !.batch = <<>>, !.at = "bytes", !.raises = @ + 1,
                              !.left = @ \cup left]

LEMMA PoppedFacts ==
  ASSUME NEW c \in Cleanups, Tail(c.batch) \in Seq(Artifacts), NEW left \in SUBSET Artifacts
  PROVE  LET d == Popped(c, left)
         IN  /\ d \in Cleanups /\ d.batch = Tail(c.batch) /\ d.next = c.next /\ d.always = c.always
             /\ d.raises = c.raises /\ d.left = c.left \cup left
  <1> DEFINE short == [c EXCEPT !.batch = Tail(c.batch)]
             first == [short EXCEPT !.at = "bytes"]
  <1>1. /\ short \in Cleanups /\ short.batch = Tail(c.batch) /\ short.next = c.next
        /\ short.always = c.always /\ short.raises = c.raises /\ short.left = c.left
    BY DEF Cleanups
  <1>2. Popped(c, left) = [first EXCEPT !.left = first.left \cup left]
    BY DEF Popped, Cleanups
  <1> HIDE DEF short
  <1>3. /\ first \in Cleanups /\ first.batch = Tail(c.batch) /\ first.next = c.next
        /\ first.always = c.always /\ first.raises = c.raises /\ first.left = c.left
    BY <1>1 DEF Cleanups
  <1> HIDE DEF first
  <1>4. c.left \cup left \in SUBSET Artifacts
    BY DEF Cleanups
  <1> QED
    BY <1>2, <1>3, <1>4 DEF Cleanups

LEMMA DroppedFacts ==
  ASSUME NEW c \in Cleanups, NEW left \in SUBSET Artifacts
  PROVE  LET d == Dropped(c, left)
         IN  /\ d \in Cleanups /\ d.batch = <<>> /\ d.next = c.next /\ d.always = c.always
             /\ d.raises = c.raises + 1 /\ d.left = c.left \cup left
  <1> DEFINE short == [c EXCEPT !.batch = <<>>]
             first == [short EXCEPT !.at = "bytes"]
             counted == [first EXCEPT !.raises = first.raises + 1]
  <1>1. /\ short \in Cleanups /\ short.batch = <<>> /\ short.next = c.next
        /\ short.always = c.always /\ short.raises = c.raises /\ short.left = c.left
    BY Batches DEF Cleanups
  <1>2. Dropped(c, left) = [counted EXCEPT !.left = counted.left \cup left]
    BY DEF Dropped, Cleanups
  <1> HIDE DEF short
  <1>3. /\ first \in Cleanups /\ first.batch = <<>> /\ first.next = c.next
        /\ first.always = c.always /\ first.raises = c.raises /\ first.left = c.left
    BY <1>1 DEF Cleanups
  <1> HIDE DEF first
  <1>4. c.raises + 1 \in Nat /\ c.left \cup left \in SUBSET Artifacts
    BY DEF Cleanups
  <1>5. /\ counted \in Cleanups /\ counted.batch = <<>> /\ counted.next = c.next
        /\ counted.always = c.always /\ counted.raises = c.raises + 1 /\ counted.left = c.left
    BY <1>3, <1>4 DEF Cleanups
  <1> HIDE DEF counted
  <1> QED
    BY <1>2, <1>4, <1>5 DEF Cleanups

LEMMA CleanupCarried ==
  ASSUME NEW c \in Cleanups, NEW d \in Cleanups
  PROVE  LET e == [d EXCEPT !.raises = c.raises, !.left = c.left]
         IN  /\ e \in Cleanups /\ e.batch = d.batch
             /\ e.raises = c.raises /\ e.left = c.left
  <1> DEFINE counted == [d EXCEPT !.raises = c.raises]
  <1>1. counted \in Cleanups /\ counted.batch = d.batch /\ counted.raises = c.raises
    BY DEF Cleanups
  <1>2. [d EXCEPT !.raises = c.raises, !.left = c.left] = [counted EXCEPT !.left = c.left]
    OBVIOUS
  <1> HIDE DEF counted
  <1> QED
    BY <1>1, <1>2 DEF Cleanups

LEMMA CleanupMoves ==
  ASSUME TypeInv, NEW p \in Publishers,
         CleanupBytes(p) \/ CleanupTemp(p) \/ CleanupMisreads(p) \/ CleanupUnlink(p)
         \/ CleanupRaises(p) \/ CleanupEnds(p)
  PROVE  Cleans(p) /\ cleanup' \in [Publishers -> Cleanups]
  <1> DEFINE c == cleanup[p]
             t == Head(c.batch)
  <1>1. c \in Cleanups
    BY DEF TypeInv
  <1>2. CASE CleanupBytes(p) \/ CleanupTemp(p) \/ CleanupMisreads(p) \/ CleanupUnlink(p)
             \/ CleanupRaises(p)
    <2>1. c.batch # <<>> /\ state[p] = "cleaning"
      BY <1>2 DEF CleanupBytes, CleanupTemp, CleanupMisreads, CleanupUnlink, CleanupRaises,
                  Cleaning
    <2>2. t \in Artifacts /\ Tail(c.batch) \in Seq(Artifacts) /\ Target(p) \in Owned
      BY <2>1, TargetType
    <2>3. Popped(c, {}) \in Cleanups /\ Popped(c, {t}) \in Cleanups
      BY <1>1, <2>2, PoppedFacts
    <2>4. Dropped(c, {t}) \in Cleanups
      BY <1>1, <2>2, DroppedFacts
    <2>5. [c EXCEPT !.at = "temp"] \in Cleanups /\ [c EXCEPT !.at = "unlink"] \in Cleanups
      BY <1>1 DEF Cleanups
    <2>6. PICK d \in Cleanups : cleanup' = [cleanup EXCEPT ![p] = d]
      <3>1. CASE CleanupBytes(p)
        <4>1. \/ cleanup' = [cleanup EXCEPT ![p] = [c EXCEPT !.at = "temp"]]
              \/ cleanup' = [cleanup EXCEPT ![p] = Popped(c, {})]
          BY <3>1 DEF CleanupBytes, Disowned, Popped
        <4> QED
          BY <2>3, <2>5, <4>1
      <3>2. CASE CleanupTemp(p)
        <4>1. \/ cleanup' = [cleanup EXCEPT ![p] = [c EXCEPT !.at = "unlink"]]
              \/ cleanup' = [cleanup EXCEPT ![p] = Popped(c, {})]
          BY <3>2 DEF CleanupTemp, Disowned, Popped
        <4> QED
          BY <2>3, <2>5, <4>1
      <3>3. CASE CleanupUnlink(p)
        <4>1. cleanup' = [cleanup EXCEPT ![p] = Popped(c, {})]
          BY <3>3 DEF CleanupUnlink, Disowned, Popped
        <4> QED
          BY <2>3, <4>1
      <3>4. CASE CleanupRaises(p)
        <4>1. cleanup' = [cleanup EXCEPT ![p] = Dropped(c, {t})]
          BY <3>4 DEF CleanupRaises, Dropped
        <4> QED
          BY <2>4, <4>1
      <3>5. CASE CleanupMisreads(p)
        <4>1. cleanup' = [cleanup EXCEPT ![p] = Popped(c, {t})]
          BY <3>5 DEF CleanupMisreads, Disowned, Popped
        <4> QED
          BY <2>3, <4>1
      <3> QED
        BY <1>2, <3>1, <3>2, <3>3, <3>4, <3>5
    <2>7. cleanup' \in [Publishers -> Cleanups]
          /\ \A q \in Publishers \ {p} : cleanup'[q] = cleanup[q]
      BY <2>6, CleanupRecord
    <2>8. UNCHANGED <<final, bytes, bound, pc, state, expected, durable, rival, touched>>
          /\ faults' \in {faults, faults + 1}
      BY <1>2 DEF CleanupBytes, CleanupTemp, CleanupMisreads, CleanupUnlink, CleanupRaises, files,
                  records, ghosts
    <2>9. \/ UNCHANGED <<temp, tempOwned>>
          \/ /\ tempOwned' = [tempOwned EXCEPT ![Target(p)] = FALSE]
             /\ temp' = temp \/ temp' = [temp EXCEPT ![Target(p)] = None]
      BY <1>2 DEF CleanupBytes, CleanupTemp, CleanupMisreads, CleanupUnlink, CleanupRaises,
                  Disowned, files, records
    <2> QED
      BY <2>1, <2>7, <2>8, <2>9 DEF Cleans
  <1>3. CASE CleanupEnds(p)
    <2>1. /\ state[p] = "cleaning" /\ c.batch = <<>>
          /\ UNCHANGED <<final, temp, bytes, bound, pc, expected, tempOwned, durable, rival, faults,
                         touched>>
      BY <1>3 DEF CleanupEnds, files, records, ghosts
    <2>2. CASE c.next # <<>> /\ (c.always \/ c.raises > 0)
      <3> DEFINE d == Plan(c.next, <<>>, TRUE)
      <3>1. cleanup' = [cleanup EXCEPT ![p] = [d EXCEPT !.raises = c.raises, !.left = c.left]] /\ state' = state
        BY <1>3, <2>2 DEF CleanupEnds
      <3>2. d \in Cleanups
        BY <1>1, Batches, PlanTypeTrue DEF Cleanups
      <3> HIDE DEF d
      <3>3. [d EXCEPT !.raises = c.raises, !.left = c.left] \in Cleanups
        BY <1>1, <3>2, CleanupCarried
      <3>4. cleanup' \in [Publishers -> Cleanups]
            /\ \A q \in Publishers \ {p} : cleanup'[q] = cleanup[q]
        BY <3>1, <3>3, CleanupRecord
      <3> QED
        BY <2>1, <3>1, <3>4 DEF Cleans
    <2>3. CASE ~(c.next # <<>> /\ (c.always \/ c.raises > 0))
      <3>1. state' = [state EXCEPT ![p] = "failed"] /\ cleanup' = cleanup
        BY <1>3, <2>3 DEF CleanupEnds
      <3> QED
        BY <2>1, <3>1 DEF Cleans, TypeInv
    <2> QED
      BY <2>2, <2>3
  <1> QED
    BY <1>2, <1>3

\* The same step, as far as it concerns what is still to be cleaned.
Sweeps(p) ==
    LET c == cleanup[p]
        d == cleanup'[p]
        f == Target(p)
    IN  \/ /\ d.batch = c.batch /\ d.next = c.next /\ d.always = c.always
           /\ d.raises = c.raises /\ d.left = c.left
           /\ UNCHANGED <<temp, tempOwned, state>>
        \/ /\ c.batch # <<>> /\ d.batch = Tail(c.batch) /\ d.next = c.next /\ d.always = c.always
           /\ d.raises = c.raises /\ c.left \subseteq d.left /\ state' = state
           /\ \/ temp'[f] # f \/ tempOwned[f] # TRUE \/ ~BytesExact(f)
              \/ Head(c.batch) \in d.left
        \/ /\ c.batch # <<>> /\ d.batch = <<>> /\ d.next = c.next /\ d.always = c.always
           /\ d.raises = c.raises + 1 /\ d.left = c.left \cup {Head(c.batch)}
           /\ UNCHANGED <<temp, tempOwned, state>>
        \/ /\ c.batch = <<>> /\ d.batch = c.next
           /\ c.always = TRUE \/ c.raises > 0
           /\ d.raises = c.raises /\ d.left = c.left /\ UNCHANGED <<temp, tempOwned, state>>
        \/ /\ c.batch = <<>>
           /\ c.next = <<>> \/ (c.always = FALSE /\ c.raises = 0)
           /\ d = c /\ UNCHANGED <<temp, tempOwned>> /\ state' = [state EXCEPT ![p] = "failed"]

LEMMA CleanupSweeps ==
  ASSUME TypeInv, NEW p \in Publishers,
         CleanupBytes(p) \/ CleanupTemp(p) \/ CleanupMisreads(p) \/ CleanupUnlink(p)
         \/ CleanupRaises(p) \/ CleanupEnds(p)
  PROVE  Sweeps(p)
  <1> DEFINE c == cleanup[p]
             d == cleanup'[p]
             f == Target(p)
  <1>1. c \in Cleanups /\ c.always \in BOOLEAN /\ Stored
    BY TypeParts DEF TypeInv, Cleanups
  <1>2. c.batch # <<>> => f \in Owned /\ Head(c.batch) \in Artifacts /\ Tail(c.batch) \in Seq(Artifacts)
    BY TargetType
  <1>3. ASSUME c.batch # <<>>, NEW left \in SUBSET Artifacts
        PROVE  /\ Popped(c, left).batch = Tail(c.batch) /\ Popped(c, left).next = c.next
               /\ Popped(c, left).always = c.always /\ Popped(c, left).raises = c.raises
               /\ Popped(c, left).left = c.left \cup left
    BY <1>1, <1>2, <1>3, PoppedFacts
  <1>12. c.batch # <<>> =>
            LET e == Popped(c, {})
            IN  /\ e.batch = Tail(c.batch) /\ e.next = c.next /\ e.always = c.always
                /\ e.raises = c.raises /\ c.left \subseteq e.left
    <2>1. {} \in SUBSET Artifacts
      OBVIOUS
    <2> QED
      BY <1>3, <2>1
  <1>4. ASSUME NEW e, cleanup' = [cleanup EXCEPT ![p] = e] PROVE d = e
    BY <1>4 DEF TypeInv
  <1>5. ASSUME NEW where
        PROVE  LET e == [c EXCEPT !.at = where]
               IN  /\ e.batch = c.batch /\ e.next = c.next /\ e.always = c.always
                   /\ e.raises = c.raises /\ e.left = c.left
    BY <1>1 DEF Cleanups
  <1>6. CASE CleanupBytes(p)
    <2>1. c.batch # <<>> /\ UNCHANGED <<temp, bytes, state, expected>>
      BY <1>6 DEF CleanupBytes, Cleaning, files
    <2>2. CASE tempOwned[f] /\ BytesExact(f)
      <3>1. cleanup' = [cleanup EXCEPT ![p] = [c EXCEPT !.at = "temp"]] /\ tempOwned' = tempOwned
        BY <1>6, <2>2 DEF CleanupBytes
      <3>2. d = [c EXCEPT !.at = "temp"]
        BY <1>4, <3>1
      <3> QED
        BY <1>5, <2>1, <3>1, <3>2 DEF Sweeps
    <2>3. CASE ~(tempOwned[f] /\ BytesExact(f))
      <3>1. cleanup' = [cleanup EXCEPT ![p] = Popped(c, {})]
        BY <1>6, <2>3 DEF CleanupBytes, Disowned, Popped
      <3>2. d = Popped(c, {})
        BY <1>4, <3>1
      <3>3. tempOwned[f] # TRUE \/ ~BytesExact(f)
        BY <2>3
      <3> QED
        BY <1>12, <2>1, <3>2, <3>3 DEF Sweeps
    <2> QED
      BY <2>2, <2>3
  <1>7. CASE CleanupTemp(p)
    <2>1. c.batch # <<>> /\ UNCHANGED <<temp, bytes, state, expected>>
      BY <1>7 DEF CleanupTemp, Cleaning, files
    <2>2. CASE temp[f] = f
      <3>1. cleanup' = [cleanup EXCEPT ![p] = [c EXCEPT !.at = "unlink"]] /\ tempOwned' = tempOwned
        BY <1>7, <2>2 DEF CleanupTemp
      <3>2. d = [c EXCEPT !.at = "unlink"]
        BY <1>4, <3>1
      <3> QED
        BY <1>5, <2>1, <3>1, <3>2 DEF Sweeps
    <2>3. CASE temp[f] # f
      <3>1. cleanup' = [cleanup EXCEPT ![p] = Popped(c, {})]
        BY <1>7, <2>3 DEF CleanupTemp, Disowned, Popped
      <3>2. d = Popped(c, {}) /\ temp'[f] # f
        BY <1>4, <2>1, <2>3, <3>1
      <3> QED
        BY <1>12, <2>1, <3>2 DEF Sweeps
    <2> QED
      BY <2>2, <2>3
  <1>8. CASE CleanupUnlink(p)
    <2>1. c.batch # <<>> /\ state' = state /\ temp' = [temp EXCEPT ![f] = None]
          /\ cleanup' = [cleanup EXCEPT ![p] = Popped(c, {})]
      BY <1>8 DEF CleanupUnlink, Cleaning, Disowned, Popped
    <2>2. d = Popped(c, {})
      BY <1>4, <2>1
    <2>3. temp'[f] # f
      BY <1>1, <1>2, <2>1, Constants DEF Stored
    <2> QED
      BY <1>12, <2>1, <2>2, <2>3 DEF Sweeps
  <1>9. CASE CleanupRaises(p)
    <2> DEFINE e == Dropped(c, {Head(c.batch)})
    <2>1. /\ c.batch # <<>> /\ UNCHANGED <<temp, tempOwned, state>>
          /\ cleanup' = [cleanup EXCEPT ![p] = e]
      BY <1>9 DEF CleanupRaises, Cleaning, Dropped, files, records
    <2>2. d = e
      BY <1>4, <2>1
    <2>3. /\ e.batch = <<>> /\ e.next = c.next /\ e.always = c.always
          /\ e.raises = c.raises + 1 /\ e.left = c.left \cup {Head(c.batch)}
      BY <1>1, <1>2, <2>1, DroppedFacts
    <2> HIDE DEF e
    <2> QED
      BY <2>1, <2>2, <2>3 DEF Sweeps
  <1>11. CASE CleanupMisreads(p)
    <2>1. /\ c.batch # <<>> /\ UNCHANGED <<temp, state>>
          /\ cleanup' = [cleanup EXCEPT ![p] = Popped(c, {Head(c.batch)})]
      BY <1>11 DEF CleanupMisreads, Cleaning, Disowned, Popped, files
    <2>2. d = Popped(c, {Head(c.batch)})
      BY <1>4, <2>1
    <2>3. {Head(c.batch)} \in SUBSET Artifacts
      BY <1>2, <2>1
    <2>4. /\ d.batch = Tail(c.batch) /\ d.next = c.next /\ d.always = c.always
          /\ d.raises = c.raises /\ d.left = c.left \cup {Head(c.batch)}
      BY <1>3, <2>1, <2>2, <2>3
    <2> QED
      BY <2>1, <2>4 DEF Sweeps
  <1>10. CASE CleanupEnds(p)
    <2>1. c.batch = <<>> /\ UNCHANGED <<temp, tempOwned>>
      BY <1>10 DEF CleanupEnds, files, records
    <2>2. CASE c.next # <<>> /\ (c.always \/ c.raises > 0)
      <3> DEFINE plan == Plan(c.next, <<>>, TRUE)
                 e == [plan EXCEPT !.raises = c.raises, !.left = c.left]
      <3>1. cleanup' = [cleanup EXCEPT ![p] = e] /\ state' = state
        BY <1>10, <2>2 DEF CleanupEnds
      <3>2. d = e
        BY <1>4, <3>1
      <3>3. plan \in Cleanups /\ plan.batch = c.next
        BY <1>1, Batches, PlanTypeTrue DEF Cleanups
      <3> HIDE DEF plan
      <3>4. e.batch = c.next /\ e.raises = c.raises /\ e.left = c.left
        BY <1>1, <3>3, CleanupCarried
      <3>5. c.always = TRUE \/ c.raises > 0
        BY <2>2
      <3> QED
        BY <2>1, <3>1, <3>2, <3>4, <3>5 DEF Sweeps
    <2>3. CASE ~(c.next # <<>> /\ (c.always \/ c.raises > 0))
      <3>1. state' = [state EXCEPT ![p] = "failed"] /\ d = c
        BY <1>10, <2>3 DEF CleanupEnds
      <3>2. c.next = <<>> \/ (c.always = FALSE /\ c.raises = 0)
        BY <1>1, <2>3 DEF Cleanups
      <3> QED
        BY <2>1, <3>1, <3>2 DEF Sweeps
    <2> QED
      BY <2>2, <2>3
  <1> QED
    BY <1>6, <1>7, <1>8, <1>9, <1>10, <1>11

LEMMA CleanupType ==
  ASSUME TypeInv, NEW p \in Publishers, Cleans(p), cleanup' \in [Publishers -> Cleanups]
  PROVE  TypeInv'
  <1>1. Stored /\ Numbered
    BY TypeParts
  <1>2. temp' = [g \in Owned |-> temp'[g]] /\ \A g \in Owned : temp'[g] \in {g, Foreign, None}
    BY <1>1, TargetType DEF Cleans, Stored
  <1>3. tempOwned' \in [Owned -> BOOLEAN]
    BY <1>1, TargetType DEF Cleans, Stored
  <1>4. state' \in [Publishers -> States]
    BY DEF Cleans, TypeInv, States
  <1>5. Stored'
    BY <1>1, <1>2, <1>3 DEF Cleans, Stored
  <1>6. Numbered'
    BY <1>1 DEF Cleans, Numbered
  <1> QED
    BY <1>4, <1>5, <1>6, TypePartsNext DEF Counters, Cleans, TypeInv

LEMMA EnvironmentType ==
  ASSUME TypeInv, Environment
  PROVE  TypeInv'
  <1>1. Stored /\ Numbered
    BY TypeParts
  <1>2. pc \in [Publishers -> 1 .. 49]
    BY Constants DEF TypeInv
  <1>3. CASE Touch
    <2>1. Numbered' /\ UNCHANGED <<pc, state, expected, tempOwned, cleanup, durable>>
      BY <1>1, <1>2, <1>3 DEF Touch, Numbered, records
    <2>2. Counters
      BY <2>1 DEF Counters, TypeInv
    <2>3. CASE RivalNames
      <3>1. UNCHANGED <<bytes, bound>>
        BY <2>3 DEF RivalNames
      <3>2. final' = [a \in Artifacts |-> final'[a]] /\ \A a \in Artifacts : final'[a] \in Named(a)
        BY <1>1, <2>3 DEF RivalNames, Stored, Named
      <3>3. temp' = [g \in Owned |-> temp'[g]] /\ \A g \in Owned : temp'[g] \in {g, Foreign, None}
        BY <1>1, <2>3 DEF RivalNames, Stored
      <3>4. Stored'
        BY <1>1, <2>1, <3>1, <3>2, <3>3 DEF Stored
      <3> QED
        BY <2>1, <2>2, <3>4, TypePartsNext
    <2>4. CASE RivalBytes
      <3>1. UNCHANGED <<final, temp, bound>>
        BY <2>4 DEF RivalBytes
      <3>2. bytes' \in [Owned -> Contents]
        BY <1>1, <2>4 DEF RivalBytes, Stored, Contents
      <3>3. Stored'
        BY <1>1, <2>1, <3>1, <3>2 DEF Stored
      <3> QED
        BY <2>1, <2>2, <3>3, TypePartsNext
    <2>5. CASE RivalPath
      <3>1. UNCHANGED <<final, temp, bytes>> /\ bound' = FALSE
        BY <2>5 DEF RivalPath
      <3>2. bound' \in BOOLEAN
        BY <3>1
      <3>3. Stored'
        BY <1>1, <2>1, <3>1, <3>2 DEF Stored
      <3> QED
        BY <2>1, <2>2, <3>3, TypePartsNext
    <2>6. CASE Crash
      BY <1>3, <2>6 DEF Crash, Touch, ghosts, Numbered
    <2> QED
      BY <2>3, <2>4, <2>5, <2>6 DEF Environment
  <1>4. CASE Crash
    <2>1. UNCHANGED <<temp, bound, pc, expected, tempOwned, cleanup, durable, rival, faults, touched>>
      BY <1>4 DEF Crash, records, ghosts
    <2>2. state' \in [Publishers -> States]
      BY <1>4 DEF Crash, TypeInv, States
    <2>3. bytes' \in [Owned -> Contents]
      BY <1>1, <1>4 DEF Crash, Stored, Contents
    <2>4. final' = [a \in Artifacts |-> final'[a]]
      BY <1>4 DEF Crash
    <2>5. \A a \in Artifacts : final'[a] \in Named(a)
      BY <1>1, <1>4 DEF Crash, Stored
    <2>6. Stored'
      BY <1>1, <2>1, <2>3, <2>4, <2>5 DEF Stored
    <2>7. Counters /\ Numbered'
      BY <1>1, <2>1, <2>2 DEF Counters, Numbered, TypeInv
    <2> QED
      BY <2>6, <2>7, TypePartsNext
  <1> QED
    BY <1>3, <1>4 DEF Environment, RivalNames, RivalBytes, RivalPath

LEMMA PublisherType ==
  ASSUME TypeInv, NEW p \in Publishers, Publisher(p)
  PROVE  TypeInv'
  <1>1. CASE CheckPath(p) \/ CheckEmpty(p) \/ CheckBytes(p) \/ CheckTemp(p) \/ CheckFinal(p)
    BY <1>1, CheckType
  <1>2. CASE \/ Create(p) \/ Write(p) \/ Sync(p) \/ Seal(p) \/ Link(p) \/ Unlink(p)
             \/ SyncDirectory(p) \/ CallFails(p)
    BY <1>2, CallType
  <1>3. CASE CleanupBytes(p) \/ CleanupTemp(p) \/ CleanupMisreads(p) \/ CleanupUnlink(p)
             \/ CleanupRaises(p) \/ CleanupEnds(p)
    BY <1>3, CleanupMoves, CleanupType
  <1> QED
    BY <1>1, <1>2, <1>3 DEF Publisher

LEMMA TypeStep == TypeInv /\ [Next]_vars => TypeInv'
  <1> SUFFICES ASSUME TypeInv, Next \/ UNCHANGED vars PROVE TypeInv'
    OBVIOUS
  <1>1. CASE UNCHANGED vars
    BY <1>1 DEF vars, files, records, ghosts, TypeInv
  <1> QED
    BY <1>1, PublisherType, EnvironmentType DEF Next, Done

LEMMA TypeInit == Init => TypeInv
  <1> SUFFICES ASSUME Init PROVE TypeInv
    OBVIOUS
  <1>1. Stored
    BY DEF Init, Stored, Named, Contents, Entries
  <1>2. cleanup \in [Publishers -> Cleanups]
    BY NoCleanupType DEF Init
  <1>3. pc \in [Publishers -> Steps] /\ state \in [Publishers -> States] /\ Numbered
    BY Constants DEF Init, States, Numbered
  <1> QED
    BY <1>1, <1>2, <1>3, TypeParts

-----------------------------------------------------------------------------
(* What a step of a publisher does, by its position in the script          *)

\* The file and the entries of one artifact when a call of its publisher succeeds.
AdvancesOn(p, a, f) ==
    /\ pc[p] = LinkAt(a) => final[a] = None /\ temp[f] # None /\ final'[a] = temp[f]
    /\ pc[p] # LinkAt(a) => final'[a] = final[a]
    /\ pc[p] = CreateAt(a) => temp[f] = None /\ temp'[f] = f /\ tempOwned'[f] = TRUE
    /\ pc[p] = UnlinkAt(a) => temp[f] # None /\ temp'[f] = None /\ tempOwned'[f] = FALSE
    /\ pc[p] # CreateAt(a) /\ pc[p] # UnlinkAt(a) =>
          temp'[f] = temp[f] /\ tempOwned'[f] = tempOwned[f]
    /\ pc[p] = CreateAt(a) => bytes'[f] = "partial"
    /\ pc[p] = WriteAt(a) => bytes'[f] = "payload"
    /\ pc[p] # CreateAt(a) /\ pc[p] # WriteAt(a) => bytes'[f] = bytes[f]
    /\ pc[p] = SealAt(a) => expected'[f] = bytes[f]
    /\ pc[p] # SealAt(a) => expected'[f] = expected[f]
    /\ pc[p] = SyncAt(a) => f \in durable'.files
    /\ pc[p] = SyncDirAt(a) => durable'.final[a] = final[a]

Observes(p) ==
    /\ pc[p] \in {1, 45} => bound
    /\ pc[p] = 2 => NothingThere
    /\ pc[p] = 46 => BytesExact(<<p, "json">>)
    /\ pc[p] = 47 => final["json"] = <<p, "json">>
    /\ pc[p] = 48 => BytesExact(<<p, "markdown">>)
    /\ pc[p] = 49 => final["markdown"] = <<p, "markdown">>

Advances(p) ==
    /\ Succeeds(p) /\ Observes(p) /\ UNCHANGED <<bound, rival, faults, touched>>
    /\ \A a \in Artifacts : AdvancesOn(p, a, <<p, a>>)

\* Why a call that met no error of its own is refused.
Refused(p) ==
    /\ Script[pc[p]].op \in {"path", "empty", "create", "bytes", "temp", "final", "link", "unlink"}
    /\ Script[pc[p]].op = "path" => ~bound
    /\ Script[pc[p]].op = "empty" => ~NothingThere
    /\ Script[pc[p]].op = "create" => temp[File(p)] # None
    /\ Script[pc[p]].op = "bytes" => ~BytesExact(File(p))
    /\ Script[pc[p]].op = "temp" => temp[File(p)] # File(p)
    /\ Script[pc[p]].op = "final" => final[Art(p)] # File(p)
    /\ Script[pc[p]].op = "link" => final[Art(p)] # None \/ temp[File(p)] = None
    /\ Script[pc[p]].op = "unlink" => temp[File(p)] = None

Fails(p) ==
    /\ state[p] = "publishing" /\ Fail(p)
    /\ UNCHANGED <<final, temp, bound, tempOwned, durable, rival, touched>>
    /\ \/ faults' = faults /\ Refused(p) /\ UNCHANGED <<bytes, expected>>
       \/ faults' = faults + 1 /\ UNCHANGED <<bytes, expected>>
       \/ /\ faults' = faults + 1
          /\ pc[p] = WriteAt(Art(p)) \/ pc[p] = SyncAt(Art(p))
          /\ \E held \in {"partial", bytes[File(p)]} : \E sealed \in {"absent", held} :
                /\ bytes' = [bytes EXCEPT ![File(p)] = held]
                /\ expected' = [expected EXCEPT ![File(p)] = sealed]

\* What a step of one publisher leaves alone, and all it may do to the public names.
Elsewhere(p) ==
    /\ \A q \in Publishers \ {p} :
          /\ pc'[q] = pc[q] /\ state'[q] = state[q] /\ cleanup'[q] = cleanup[q]
          /\ \A a \in Artifacts :
                /\ temp'[<<q, a>>] = temp[<<q, a>>] /\ bytes'[<<q, a>>] = bytes[<<q, a>>]
                /\ expected'[<<q, a>>] = expected[<<q, a>>]
                /\ tempOwned'[<<q, a>>] = tempOwned[<<q, a>>]
    /\ durable.files \subseteq durable'.files
    /\ \A a \in Artifacts :
          /\ durable'.final[a] \in {durable.final[a], final[a]}
          /\ final[a] # None => final'[a] = final[a]
          /\ \/ final'[a] = final[a]
             \/ final'[a] = temp[<<p, a>>] /\ pc[p] = LinkAt(a) /\ state[p] = "publishing"

LEMMA Kinds ==
  ASSUME TypeInv, NEW p \in Publishers, NEW a \in Artifacts
  PROVE  /\ pc[p] = CreateAt(a) <=> Script[pc[p]].op = "create" /\ Art(p) = a
         /\ pc[p] = WriteAt(a) <=> Script[pc[p]].op = "write" /\ Art(p) = a
         /\ pc[p] = SyncAt(a) <=> Script[pc[p]].op = "sync" /\ Art(p) = a
         /\ pc[p] = SealAt(a) <=> Script[pc[p]].op = "seal" /\ Art(p) = a
         /\ pc[p] = LinkAt(a) <=> Script[pc[p]].op = "link" /\ Art(p) = a
         /\ pc[p] = UnlinkAt(a) <=> Script[pc[p]].op = "unlink" /\ Art(p) = a
         /\ pc[p] = SyncDirAt(a) <=> Script[pc[p]].op = "syncdir" /\ Art(p) = a
  <1>1. Placed(pc[p])
    BY FileType
  <1> QED
    BY <1>1 DEF Placed, PlacedAs, Art

LEMMA OtherKinds ==
  ASSUME TypeInv, NEW p \in Publishers
  PROVE  /\ pc[p] \in {1, 45} <=> Script[pc[p]].op = "path"
         /\ pc[p] = 2 <=> Script[pc[p]].op = "empty"
         /\ pc[p] = 46 => Script[pc[p]].op = "bytes" /\ Art(p) = "json"
         /\ pc[p] = 47 => Script[pc[p]].op = "final" /\ Art(p) = "json"
         /\ pc[p] = 48 => Script[pc[p]].op = "bytes" /\ Art(p) = "markdown"
         /\ pc[p] = 49 => Script[pc[p]].op = "final" /\ Art(p) = "markdown"
  <1>1. Placed(pc[p])
    BY FileType
  <1> QED
    BY <1>1 DEF Placed, PlacedAs, Art

LEMMA CheckMoves ==
  ASSUME TypeInv, NEW p \in Publishers,
         CheckPath(p) \/ CheckEmpty(p) \/ CheckBytes(p) \/ CheckTemp(p) \/ CheckFinal(p)
  PROVE  Advances(p) \/ Fails(p)
  <1> DEFINE op == Script[pc[p]].op
             ok == /\ op = "path" => bound
                   /\ op = "empty" => NothingThere
                   /\ op = "bytes" => BytesExact(File(p))
                   /\ op = "temp" => temp[File(p)] = File(p)
                   /\ op = "final" => final[Art(p)] = File(p)
  <1>1. /\ state[p] = "publishing" /\ op \in {"path", "empty", "bytes", "temp", "final"}
        /\ UNCHANGED <<files, records, durable, ghosts>>
    BY DEF CheckPath, CheckEmpty, CheckBytes, CheckTemp, CheckFinal, At, Observe
  <1>2. (Advance(p) /\ ok) \/ (Fail(p) /\ ~ok)
    BY DEF CheckPath, CheckEmpty, CheckBytes, CheckTemp, CheckFinal, At, Observe, Continue
  <1>3. UNCHANGED <<final, temp, bytes, bound, expected, tempOwned, durable, rival, faults, touched>>
    BY <1>1 DEF files, records, ghosts
  <1>4. CASE Advance(p) /\ ok
    <2>1. Succeeds(p)
      BY <1>1, <1>4, AdvanceType
    <2>2. Observes(p)
      BY <1>4, OtherKinds DEF Observes, File
    <2>3. ASSUME NEW a \in Artifacts
          PROVE  AdvancesOn(p, a, <<p, a>>)
      BY <1>1, <1>3, Kinds DEF AdvancesOn
    <2> QED
      BY <1>3, <2>1, <2>2, <2>3 DEF Advances
  <1>5. CASE Fail(p) /\ ~ok
    BY <1>1, <1>3, <1>5 DEF Fails, Refused
  <1> QED
    BY <1>2, <1>4, <1>5

LEMMA CallMoves ==
  ASSUME TypeInv, NEW p \in Publishers,
         \/ Create(p) \/ Write(p) \/ Sync(p) \/ Seal(p) \/ Link(p) \/ Unlink(p)
         \/ SyncDirectory(p)
  PROVE  Advances(p) \/ Fails(p)
  <1> DEFINE op == Script[pc[p]].op
             f == File(p)
  <1>1. /\ state[p] = "publishing" /\ UNCHANGED <<bound, rival, faults, touched>>
        /\ op \in {"create", "write", "sync", "seal", "link", "unlink", "syncdir"}
    BY DEF Create, Write, Sync, Seal, Link, Unlink, SyncDirectory, At, files, ghosts
  <1>2. Stored /\ f \in Owned /\ Art(p) \in Artifacts /\ f = <<p, Art(p)>>
    BY TypeParts, FileType
  <1>0. ~(Advance(p) /\ Fail(p))
    <2>1. Fail(p) => state'[p] = "cleaning"
      BY DEF Fail, TypeInv
    <2>2. Advance(p) => state'[p] \in {"publishing", "published"}
      BY <1>1 DEF Advance, TypeInv
    <2> QED
      BY <2>1, <2>2
  <1>3. CASE Fail(p)
    <2>1. UNCHANGED <<final, temp, bytes, expected, tempOwned, durable>> /\ Refused(p)
      BY <1>1, <1>3, <1>0 DEF Create, Link, Unlink, Write, Sync, Seal, SyncDirectory, At, Refused,
         NameFree, records
    <2> QED
      BY <1>1, <1>3, <2>1 DEF Fails
  <1>4. CASE Advance(p)
    <2>1. Succeeds(p) /\ Observes(p)
      BY <1>1, <1>4, AdvanceType, OtherKinds DEF Observes
    <2> SUFFICES ASSUME NEW a \in Artifacts PROVE AdvancesOn(p, a, <<p, a>>)
      BY <1>1, <2>1 DEF Advances
    <2> DEFINE g == <<p, a>>
    <2>2. a # Art(p) => g # f /\ g \in Owned
      BY <1>2, Constants
    <2>3. CASE Create(p)
      <3>1. /\ temp[f] = None /\ temp' = [temp EXCEPT ![f] = f]
            /\ bytes' = [bytes EXCEPT ![f] = "partial"]
            /\ tempOwned' = [tempOwned EXCEPT ![f] = TRUE]
            /\ UNCHANGED <<final, expected, durable>> /\ op = "create"
        BY <1>0, <1>4, <2>3 DEF Create, At
      <3> HIDE DEF f
      <3> QED
        BY <1>2, <2>2, <3>1, Kinds DEF AdvancesOn, Stored
    <2>4. CASE Write(p) \/ Seal(p)
      BY <1>2, <1>4, <2>2, <2>4, Kinds DEF Write, Seal, AdvancesOn, At, Stored, records, files
    <2>5. CASE Sync(p) \/ SyncDirectory(p)
      BY <1>2, <1>4, <2>2, <2>5, Kinds DEF Sync, SyncDirectory, AdvancesOn, At, Stored, records, files
    <2>6. CASE Link(p)
      <3>1. /\ final[Art(p)] = None /\ temp[f] # None
            /\ final' = [final EXCEPT ![Art(p)] = temp[f]]
            /\ UNCHANGED <<temp, bytes, expected, tempOwned, durable>> /\ op = "link"
        BY <1>0, <1>4, <2>6 DEF Link, At, NameFree, records
      <3> HIDE DEF f
      <3> QED
        BY <1>2, <2>2, <3>1, Kinds DEF AdvancesOn, Stored
    <2>7. CASE Unlink(p)
      <3>1. /\ temp[f] # None /\ temp' = [temp EXCEPT ![f] = None]
            /\ tempOwned' = [tempOwned EXCEPT ![f] = FALSE]
            /\ UNCHANGED <<final, bytes, expected, durable>> /\ op = "unlink"
        BY <1>0, <1>4, <2>7 DEF Unlink, At
      <3> HIDE DEF f
      <3> QED
        BY <1>2, <2>2, <3>1, Kinds DEF AdvancesOn, Stored
    <2> QED
      BY <2>3, <2>4, <2>5, <2>6, <2>7
  <1> QED
    BY <1>3, <1>4 DEF Create, Write, Sync, Seal, Link, Unlink, SyncDirectory

LEMMA FaultMoves ==
  ASSUME TypeInv, NEW p \in Publishers, CallFails(p)
  PROVE  Fails(p)
  <1> DEFINE op == Script[pc[p]].op
  <1>1. /\ state[p] = "publishing" /\ faults' = faults + 1 /\ Fail(p)
        /\ UNCHANGED <<final, temp, bound, tempOwned, durable, rival, touched>>
    BY DEF CallFails
  <1>2. CASE op \in {"write", "sync"}
    <2>1. \E held \in {"partial", bytes[File(p)]} : \E sealed \in {"absent", held} :
             /\ bytes' = [bytes EXCEPT ![File(p)] = held]
             /\ expected' = [expected EXCEPT ![File(p)] = sealed]
      BY <1>2 DEF CallFails
    <2>2. pc[p] = WriteAt(Art(p)) \/ pc[p] = SyncAt(Art(p))
      BY <1>2, FileType, Kinds
    <2> QED
      BY <1>1, <2>1, <2>2 DEF Fails
  <1>3. CASE op \notin {"write", "sync"}
    <2>1. UNCHANGED <<bytes, expected>>
      BY <1>3 DEF CallFails
    <2> QED
      BY <1>1, <2>1 DEF Fails
  <1> QED
    BY <1>2, <1>3

LEMMA OthersFiles ==
  ASSUME TypeInv, NEW p \in Publishers, Publisher(p),
         NEW q \in Publishers, q # p, NEW a \in Artifacts
  PROVE  /\ temp'[<<q, a>>] = temp[<<q, a>>] /\ bytes'[<<q, a>>] = bytes[<<q, a>>]
         /\ expected'[<<q, a>>] = expected[<<q, a>>] /\ tempOwned'[<<q, a>>] = tempOwned[<<q, a>>]
  <1> DEFINE f == File(p)
             g == <<q, a>>
  <1>1. g \in Owned /\ g # f /\ Stored
    BY FileType, TypeParts, Constants
  <1>2. CASE CheckPath(p) \/ CheckEmpty(p) \/ CheckBytes(p) \/ CheckTemp(p) \/ CheckFinal(p)
    BY <1>2 DEF CheckPath, CheckEmpty, CheckBytes, CheckTemp, CheckFinal, Observe, files, records
  <1>3. CASE Create(p) \/ Write(p) \/ Sync(p) \/ Seal(p) \/ Link(p) \/ Unlink(p) \/ SyncDirectory(p)
    BY <1>1, <1>3
       DEF Create, Write, Sync, Seal, Link, Unlink, SyncDirectory, files, records, Stored
  <1>4. CASE CallFails(p)
    <2>1. Fails(p)
      BY <1>4, FaultMoves
    <2> QED
      BY <1>1, <2>1 DEF Fails, Stored
  <1>5. CASE CleanupBytes(p) \/ CleanupTemp(p) \/ CleanupMisreads(p) \/ CleanupUnlink(p)
             \/ CleanupRaises(p) \/ CleanupEnds(p)
    <2>1. Cleans(p)
      BY <1>5, CleanupMoves
    <2>2. cleanup[p].batch # <<>> => Target(p) # g
      BY TargetType
    <2> QED
      BY <1>1, <2>1, <2>2 DEF Cleans, Stored
  <1> QED
    BY <1>2, <1>3, <1>4, <1>5 DEF Publisher

LEMMA OthersCounters ==
  ASSUME TypeInv, NEW p \in Publishers, Publisher(p), NEW q \in Publishers, q # p
  PROVE  pc'[q] = pc[q] /\ state'[q] = state[q] /\ cleanup'[q] = cleanup[q]
  <1>1. CASE \/ CheckPath(p) \/ CheckEmpty(p) \/ CheckBytes(p) \/ CheckTemp(p) \/ CheckFinal(p)
             \/ Create(p) \/ Write(p) \/ Sync(p) \/ Seal(p) \/ Link(p) \/ Unlink(p)
             \/ SyncDirectory(p) \/ CallFails(p)
    <2>1. Advances(p) \/ Fails(p)
      BY <1>1, CheckMoves, CallMoves, FaultMoves
    <2>2. CASE Advances(p)
      BY <2>2 DEF Advances, Succeeds, TypeInv
    <2>3. CASE Fails(p)
      BY <2>3 DEF Fails, Fail, TypeInv
    <2> QED
      BY <2>1, <2>2, <2>3
  <1>2. CASE CleanupBytes(p) \/ CleanupTemp(p) \/ CleanupMisreads(p) \/ CleanupUnlink(p)
             \/ CleanupRaises(p) \/ CleanupEnds(p)
    <2>1. Cleans(p)
      BY <1>2, CleanupMoves
    <2> QED
      BY <2>1 DEF Cleans, TypeInv
  <1> QED
    BY <1>1, <1>2 DEF Publisher

LEMMA PublicNames ==
  ASSUME TypeInv, NEW p \in Publishers, Publisher(p), NEW a \in Artifacts
  PROVE  /\ durable.files \subseteq durable'.files
         /\ durable'.final[a] \in {durable.final[a], final[a]}
         /\ final[a] # None => final'[a] = final[a]
         /\ \/ final'[a] = final[a]
            \/ final'[a] = temp[<<p, a>>] /\ pc[p] = LinkAt(a) /\ state[p] = "publishing"
  <1>1. Stored /\ File(p) \in Owned
    BY FileType, TypeParts
  <1>2. CASE CheckPath(p) \/ CheckEmpty(p) \/ CheckBytes(p) \/ CheckTemp(p) \/ CheckFinal(p)
    BY <1>2 DEF CheckPath, CheckEmpty, CheckBytes, CheckTemp, CheckFinal, Observe, files, records
  <1>3. CASE Create(p) \/ Write(p) \/ Seal(p) \/ Unlink(p)
    BY <1>3 DEF Create, Write, Seal, Unlink, files, records
  <1>4. CASE Link(p)
    <2>1. (Advances(p) \/ Fails(p)) /\ durable' = durable /\ state[p] = "publishing"
      BY <1>4, CallMoves DEF Link, At
    <2> QED
      BY <2>1 DEF Advances, AdvancesOn, Fails
  <1>5. CASE Sync(p) \/ SyncDirectory(p)
    <2>1. final' = final
      BY <1>5 DEF Sync, SyncDirectory, files
    <2>2. CASE durable' = [durable EXCEPT !.files = durable.files \cup {File(p)}]
      <3>1. durable'.files = durable.files \cup {File(p)} /\ durable'.final = durable.final
        BY <1>1, <2>2 DEF Stored
      <3> QED
        BY <2>1, <3>1
    <2>3. CASE durable' = [durable EXCEPT !.final = final]
      <3>1. durable'.files = durable.files /\ durable'.final = final
        BY <1>1, <2>3 DEF Stored
      <3> QED
        BY <2>1, <3>1
    <2> QED
      BY <1>5, <2>2, <2>3 DEF Sync, SyncDirectory
  <1>6. CASE CallFails(p)
    BY <1>6 DEF CallFails
  <1>7. CASE CleanupBytes(p) \/ CleanupTemp(p) \/ CleanupMisreads(p) \/ CleanupUnlink(p)
             \/ CleanupRaises(p) \/ CleanupEnds(p)
    <2>1. Cleans(p)
      BY <1>7, CleanupMoves
    <2> QED
      BY <2>1 DEF Cleans
  <1> QED
    BY <1>2, <1>3, <1>4, <1>5, <1>6, <1>7 DEF Publisher

\* All of it: a publisher's own step, what it leaves alone, and the type.
LEMMA PublisherMoves ==
  ASSUME TypeInv, NEW p \in Publishers, Publisher(p)
  PROVE  /\ Advances(p) \/ Fails(p) \/ (Cleans(p) /\ Sweeps(p))
         /\ Elsewhere(p) /\ TypeInv'
  <1>1. Advances(p) \/ Fails(p) \/ (Cleans(p) /\ Sweeps(p))
    <2>1. CASE CheckPath(p) \/ CheckEmpty(p) \/ CheckBytes(p) \/ CheckTemp(p) \/ CheckFinal(p)
      BY <2>1, CheckMoves
    <2>2. CASE Create(p) \/ Write(p) \/ Sync(p) \/ Seal(p) \/ Link(p) \/ Unlink(p) \/ SyncDirectory(p)
      BY <2>2, CallMoves
    <2>3. CASE CallFails(p)
      BY <2>3, FaultMoves
    <2>4. CASE CleanupBytes(p) \/ CleanupTemp(p) \/ CleanupMisreads(p) \/ CleanupUnlink(p)
               \/ CleanupRaises(p) \/ CleanupEnds(p)
      BY <2>4, CleanupMoves, CleanupSweeps
    <2> QED
      BY <2>1, <2>2, <2>3, <2>4 DEF Publisher
  <1>2. Elsewhere(p)
    <2>1. \A q \in Publishers \ {p} :
             /\ pc'[q] = pc[q] /\ state'[q] = state[q] /\ cleanup'[q] = cleanup[q]
             /\ \A a \in Artifacts :
                   /\ temp'[<<q, a>>] = temp[<<q, a>>] /\ bytes'[<<q, a>>] = bytes[<<q, a>>]
                   /\ expected'[<<q, a>>] = expected[<<q, a>>]
                   /\ tempOwned'[<<q, a>>] = tempOwned[<<q, a>>]
      BY OthersFiles, OthersCounters
    <2>2. /\ durable.files \subseteq durable'.files
          /\ \A a \in Artifacts :
                /\ durable'.final[a] \in {durable.final[a], final[a]}
                /\ final[a] # None => final'[a] = final[a]
                /\ \/ final'[a] = final[a]
                   \/ final'[a] = temp[<<p, a>>] /\ pc[p] = LinkAt(a) /\ state[p] = "publishing"
      <3>1. "json" \in Artifacts
        BY DEF Artifacts
      <3> QED
        BY <3>1, PublicNames
    <2> QED
      BY <2>1, <2>2 DEF Elsewhere
  <1> QED
    BY <1>1, <1>2, PublisherType

-----------------------------------------------------------------------------
(* What everybody else does                                                *)

Acts ==
    /\ rival' = rival + 1 /\ touched' = pc
    /\ UNCHANGED <<pc, state, expected, tempOwned, cleanup, durable, faults>>
    /\ \A a \in Artifacts : final'[a] \in {final[a], Foreign, None}
    /\ \A f \in Owned : temp'[f] \in {temp[f], Foreign, None} /\ bytes'[f] \in {bytes[f], "altered"}

PowerFails ==
    /\ UNCHANGED <<temp, bound, pc, expected, tempOwned, cleanup, durable, rival, faults, touched>>
    /\ \A p \in Publishers :
          state'[p] = IF state[p] \in {"publishing", "cleaning"} THEN "stopped" ELSE state[p]
    /\ \E p \in Publishers : state[p] \in {"publishing", "cleaning"}
    /\ \A a \in Artifacts : final'[a] \in {final[a], durable.final[a]}
    /\ \A f \in durable.files : bytes'[f] = bytes[f]

LEMMA EnvironmentMoves ==
  ASSUME TypeInv, Environment
  PROVE  TypeInv' /\ (Acts \/ PowerFails)
  <1>1. Stored
    BY TypeParts
  <1>2. CASE RivalNames \/ RivalBytes \/ RivalPath
    <2>1. /\ rival' = rival + 1 /\ touched' = pc
          /\ UNCHANGED <<pc, state, expected, tempOwned, cleanup, durable, faults>>
      BY <1>2 DEF RivalNames, RivalBytes, RivalPath, Touch, records
    <2>2. \A a \in Artifacts : final'[a] \in {final[a], Foreign, None}
      BY <1>1, <1>2 DEF RivalNames, RivalBytes, RivalPath, Stored
    <2>3. \A f \in Owned : temp'[f] \in {temp[f], Foreign, None}
      BY <1>1, <1>2 DEF RivalNames, RivalBytes, RivalPath, Stored
    <2>4. \A f \in Owned : bytes'[f] \in {bytes[f], "altered"}
      BY <1>1, <1>2 DEF RivalNames, RivalBytes, RivalPath, Stored
    <2> QED
      BY <2>1, <2>2, <2>3, <2>4, EnvironmentType DEF Acts
  <1>3. CASE Crash
    <2>1. UNCHANGED <<temp, bound, pc, expected, tempOwned, cleanup, durable, rival, faults, touched>>
      BY <1>3 DEF Crash, records, ghosts
    <2>2. /\ \A p \in Publishers :
                state'[p] = IF state[p] \in {"publishing", "cleaning"} THEN "stopped" ELSE state[p]
          /\ \E p \in Publishers : state[p] \in {"publishing", "cleaning"}
      BY <1>3 DEF Crash, Running
    <2>3. \A a \in Artifacts : final'[a] \in {final[a], durable.final[a]}
      BY <1>3 DEF Crash
    <2>4. \A f \in durable.files : bytes'[f] = bytes[f]
      BY <1>1, <1>3 DEF Crash, Stored
    <2> QED
      BY <2>1, <2>2, <2>3, <2>4, EnvironmentType DEF PowerFails
  <1> QED
    BY <1>2, <1>3 DEF Environment

\* Every step of the whole system, as the invariants see it.
Moves == \/ \E p \in Publishers : /\ Advances(p) \/ Fails(p) \/ (Cleans(p) /\ Sweeps(p))
                                  /\ Elsewhere(p)
         \/ Acts \/ PowerFails \/ UNCHANGED vars

LEMMA AllMoves ==
  ASSUME TypeInv, [Next]_vars
  PROVE  Moves /\ TypeInv'
  <1>1. CASE \E p \in Publishers : Publisher(p)
    BY <1>1, PublisherMoves DEF Moves
  <1>2. CASE Environment
    BY <1>2, EnvironmentMoves DEF Moves
  <1>3. CASE Done \/ UNCHANGED vars
    <2>1. UNCHANGED vars
      BY <1>3 DEF Done
    <2> QED
      BY <2>1, TypeStep DEF Moves
  <1> QED
    BY <1>1, <1>2, <1>3 DEF Next

-----------------------------------------------------------------------------
(* How far a publisher is shows in what it has made                        *)

\* A public name is taken by the publisher's own link only, the temporary name is held between
\* its creation and its removal, and what was synchronized is on disk.
Progress(p, a, f) ==
    /\ final[a] = f \/ durable.final[a] = f => pc[p] > LinkAt(a)
    /\ pc[p] <= CreateAt(a) \/ pc[p] > UnlinkAt(a) => temp[f] # f
    /\ pc[p] > SyncAt(a) => f \in durable.files
    /\ pc[p] > SyncDirAt(a) /\ final[a] = f => durable.final[a] = f
Ended(p) == (state[p] = "absent" => pc[p] = 1) /\ (state[p] = "published" => pc[p] = 49)
ProgressInv == \A p \in Publishers : Ended(p) /\ \A a \in Artifacts : Progress(p, a, <<p, a>>)

LEMMA FileFacts ==
  ASSUME TypeInv, NEW p \in Publishers, NEW a \in Artifacts
  PROVE  /\ <<p, a>> \in Owned /\ pc[p] \in 1 .. 49
         /\ temp[<<p, a>>] \in {<<p, a>>, Foreign, None}
         /\ <<p, a>> # Foreign /\ <<p, a>> # None
         /\ bytes[<<p, a>>] \in Contents /\ expected[<<p, a>>] \in Contents
         /\ \A q \in Publishers : q # p => <<q, a>> # <<p, a>> /\ temp[<<q, a>>] # <<p, a>>
  <1>1. \A q \in Publishers : <<q, a>> \in Owned /\ temp[<<q, a>>] \in {<<q, a>>, Foreign, None}
    BY Constants DEF TypeInv
  <1>2. <<p, a>> # Foreign /\ <<p, a>> # None
    BY <1>1, Constants
  <1>3. pc[p] \in 1 .. 49
    BY FileType
  <1>4. bytes[<<p, a>>] \in Contents /\ expected[<<p, a>>] \in Contents
    BY <1>1 DEF TypeInv
  <1>5. \A q \in Publishers : q # p => <<q, a>> # <<p, a>> /\ temp[<<q, a>>] # <<p, a>>
    BY <1>1, <1>2
  <1> QED
    BY <1>1, <1>2, <1>3, <1>4, <1>5

LEMMA OwnProgress ==
  ASSUME TypeInv, NEW p \in Publishers, Elsewhere(p), Advances(p) \/ Fails(p) \/ Cleans(p),
         NEW a \in Artifacts, Progress(p, a, <<p, a>>)
  PROVE  Progress(p, a, <<p, a>>)'
  <1> DEFINE f == <<p, a>>
  <1>1. /\ pc[p] \in 1 .. 49 /\ temp[f] \in {f, Foreign, None} /\ f # Foreign /\ f # None
    BY FileFacts
  <1>2. /\ durable.files \subseteq durable'.files
        /\ durable'.final[a] \in {durable.final[a], final[a]}
    BY DEF Elsewhere
  <1>3. CASE Advances(p)
    <2>1. AdvancesOn(p, a, f)
      BY <1>3 DEF Advances
    <2>2. (pc'[p] = pc[p] /\ pc[p] = 49) \/ (pc'[p] = pc[p] + 1 /\ pc[p] < 49)
      BY <1>3 DEF Advances, Succeeds, TypeInv
    <2> QED
      BY <1>1, <1>2, <2>1, <2>2
         DEF Progress, AdvancesOn, CreateAt, SyncAt, LinkAt, UnlinkAt, SyncDirAt
  <1>4. CASE Fails(p)
    <2>1. pc' = pc /\ UNCHANGED <<final, temp, durable>>
      BY <1>4 DEF Fails, Fail
    <2> QED
      BY <2>1 DEF Progress
  <1>5. CASE Cleans(p)
    <2>1. pc' = pc /\ UNCHANGED <<final, durable>>
      BY <1>5 DEF Cleans
    <2>2. temp'[f] \in {temp[f], None}
      <3>1. f \in Owned /\ Stored
        BY FileFacts, TypeParts
      <3> QED
        BY <1>5, <3>1 DEF Cleans, Stored
    <2> QED
      BY <1>1, <2>1, <2>2 DEF Progress
  <1> QED
    BY <1>3, <1>4, <1>5

LEMMA OtherProgress ==
  ASSUME TypeInv, NEW p \in Publishers, Elsewhere(p), NEW q \in Publishers, q # p,
         NEW a \in Artifacts, Progress(q, a, <<q, a>>)
  PROVE  Progress(q, a, <<q, a>>)'
  <1> DEFINE f == <<q, a>>
  <1>1. f # None /\ temp[<<p, a>>] # f
    BY FileFacts
  <1>2. /\ durable.files \subseteq durable'.files
        /\ durable'.final[a] \in {durable.final[a], final[a]}
        /\ final'[a] \in {final[a], temp[<<p, a>>]}
        /\ pc'[q] = pc[q] /\ temp'[f] = temp[f]
        /\ (final[a] # None => final'[a] = final[a])
    BY DEF Elsewhere
  <1> QED
    BY <1>1, <1>2 DEF Progress

LEMMA OwnEnded ==
  ASSUME TypeInv, NEW p \in Publishers, Advances(p) \/ Fails(p) \/ Cleans(p), Ended(p)
  PROVE  Ended(p)'
  <1>1. CASE Advances(p)
    BY <1>1 DEF Advances, Succeeds, Ended, TypeInv
  <1>2. CASE Fails(p)
    BY <1>2 DEF Fails, Fail, Ended, TypeInv
  <1>3. CASE Cleans(p)
    BY <1>3 DEF Cleans, Ended, TypeInv
  <1> QED
    BY <1>1, <1>2, <1>3

LEMMA ProgressStep ==
  ASSUME TypeInv, ProgressInv, Moves
  PROVE  ProgressInv'
  <1>1. ASSUME NEW p \in Publishers, Advances(p) \/ Fails(p) \/ Cleans(p), Elsewhere(p)
        PROVE  ProgressInv'
    <2> SUFFICES ASSUME NEW q \in Publishers
                 PROVE  Ended(q)' /\ \A a \in Artifacts : Progress(q, a, <<q, a>>)'
      BY DEF ProgressInv
    <2>1. CASE q = p
      BY <1>1, <2>1, OwnProgress, OwnEnded DEF ProgressInv
    <2>2. CASE q # p
      <3>1. Ended(q)'
        BY <1>1, <2>2 DEF Elsewhere, Ended, ProgressInv
      <3> QED
        BY <1>1, <2>2, <3>1, OtherProgress DEF ProgressInv
    <2> QED
      BY <2>1, <2>2
  <1>2. CASE Acts
    <2>1. \A q \in Publishers : Ended(q)'
      BY <1>2 DEF Acts, Ended, ProgressInv
    <2>2. ASSUME NEW q \in Publishers, NEW a \in Artifacts
          PROVE  Progress(q, a, <<q, a>>)'
      BY <1>2, FileFacts DEF Acts, Progress, ProgressInv
    <2> QED
      BY <2>1, <2>2 DEF ProgressInv
  <1>3. CASE PowerFails
    <2>1. \A q \in Publishers : Ended(q)'
      BY <1>3 DEF PowerFails, Ended, ProgressInv
    <2>2. ASSUME NEW q \in Publishers, NEW a \in Artifacts
          PROVE  Progress(q, a, <<q, a>>)'
      BY <1>3 DEF PowerFails, Progress, ProgressInv
    <2> QED
      BY <2>1, <2>2 DEF ProgressInv
  <1>4. CASE UNCHANGED vars
    BY <1>4 DEF vars, files, ProgressInv, Progress, Ended
  <1> QED
    BY <1>1, <1>2, <1>3, <1>4 DEF Moves

LEMMA ProgressInit == Init => ProgressInv
  <1> SUFFICES ASSUME Init, NEW p \in Publishers, NEW a \in Artifacts
               PROVE  Ended(p) /\ Progress(p, a, <<p, a>>)
    BY DEF ProgressInv, Artifacts
  <1>1. <<p, a>> \in Owned /\ <<p, a>> # None
    BY Constants
  <1>2. pc[p] = 1 /\ state[p] \in {"publishing", "absent"} /\ temp[<<p, a>>] = None
        /\ final[a] = None /\ durable.final[a] = None
    BY <1>1 DEF Init
  <1> QED
    BY <1>1, <1>2 DEF Ended, Progress, CreateAt, SyncAt, LinkAt, UnlinkAt, SyncDirAt

-----------------------------------------------------------------------------
(* What the last checks have seen still holds                              *)

\* After its last look at the path nobody else acted: what each later check saw is still so.
Checked(p) ==
    /\ pc[p] > 45 => bound
    /\ pc[p] > 46 => BytesExact(<<p, "json">>)
    /\ pc[p] > 47 => final["json"] = <<p, "json">>
    /\ pc[p] > 48 => BytesExact(<<p, "markdown">>)
    /\ state[p] = "published" => final["markdown"] = <<p, "markdown">>
CheckedInv ==
    \A p \in Publishers : state[p] \in {"publishing", "published"} /\ touched[p] <= 45 => Checked(p)

LEMMA BothArtifacts ==
  /\ "json" \in Artifacts /\ "markdown" \in Artifacts /\ "json" # "markdown"
  /\ \A a \in Artifacts : a = "json" \/ a = "markdown"
  BY DEF Artifacts

LEMMA OwnChecked ==
  ASSUME TypeInv, NEW p \in Publishers, Elsewhere(p), Advances(p),
         Ended(p), state[p] = "publishing", Checked(p)
  PROVE  Checked(p)'
  <1> DEFINE j == <<p, "json">>
             m == <<p, "markdown">>
  <1>1. pc[p] \in 1 .. 49 /\ j # None /\ m # None
    BY FileFacts, BothArtifacts
  <1>2. AdvancesOn(p, "json", j) /\ AdvancesOn(p, "markdown", m) /\ Observes(p) /\ bound' = bound
    BY BothArtifacts DEF Advances
  <1>3. \/ pc'[p] = pc[p] /\ pc[p] = 49 /\ state'[p] = "published"
        \/ pc'[p] = pc[p] + 1 /\ pc[p] < 49 /\ state'[p] = "publishing"
    BY DEF Advances, Succeeds, TypeInv
  <1>4. /\ pc[p] > 40 => final'["json"] = final["json"] /\ final'["markdown"] = final["markdown"]
        /\ pc[p] > 40 => bytes'[j] = bytes[j] /\ bytes'[m] = bytes[m]
        /\ pc[p] > 40 => expected'[j] = expected[j] /\ expected'[m] = expected[m]
    BY <1>1, <1>2 DEF AdvancesOn, CreateAt, WriteAt, SealAt, LinkAt
  <1> QED
    BY <1>1, <1>2, <1>3, <1>4 DEF Checked, BytesExact, Observes

LEMMA KeepsChecked ==
  ASSUME TypeInv, NEW p \in Publishers, Elsewhere(p), NEW q \in Publishers, q # p, bound' = bound,
         Checked(q)
  PROVE  Checked(q)'
  <1>1. /\ pc'[q] = pc[q] /\ state'[q] = state[q]
        /\ \A a \in Artifacts :
              /\ bytes'[<<q, a>>] = bytes[<<q, a>>] /\ expected'[<<q, a>>] = expected[<<q, a>>]
              /\ final[a] = <<q, a>> => final'[a] = <<q, a>>
    <2>1. pc'[q] = pc[q] /\ state'[q] = state[q]
      BY DEF Elsewhere
    <2>2. ASSUME NEW a \in Artifacts
          PROVE  /\ bytes'[<<q, a>>] = bytes[<<q, a>>] /\ expected'[<<q, a>>] = expected[<<q, a>>]
                 /\ final[a] = <<q, a>> => final'[a] = <<q, a>>
      <3>1. <<q, a>> # None
        BY FileFacts
      <3> QED
        BY <3>1 DEF Elsewhere
    <2> QED
      BY <2>1, <2>2
  <1>2. \A a \in Artifacts : final[a] = <<q, a>> => final'[a] = <<q, a>>
    BY <1>1
  <1>5. \A a \in Artifacts : ~BytesExact(<<q, a>>) \/ (BytesExact(<<q, a>>))'
    BY <1>1 DEF BytesExact
  <1>3. "json" \in Artifacts /\ "markdown" \in Artifacts
    BY BothArtifacts
  <1>4. pc'[q] > 45 => bound'
    BY <1>1 DEF Checked
  <1> QED
    BY <1>1, <1>2, <1>3, <1>4, <1>5 DEF Checked

LEMMA CheckedStep ==
  ASSUME TypeInv, TypeInv', ProgressInv, ProgressInv', CheckedInv, Moves
  PROVE  CheckedInv'
  <1> SUFFICES ASSUME NEW q \in Publishers, state'[q] \in {"publishing", "published"},
                      touched'[q] <= 45
               PROVE  Checked(q)'
    BY DEF CheckedInv
  <1>0. \A p \in Publishers : Ended(p) /\ Ended(p)'
    BY DEF ProgressInv
  <1>1. ASSUME NEW p \in Publishers, Advances(p) \/ Fails(p) \/ Cleans(p), Elsewhere(p)
        PROVE  Checked(q)'
    <2>1. bound' = bound /\ touched' = touched
      BY <1>1 DEF Advances, Fails, Cleans
    <2>2. CASE q # p
      <3>1. state'[q] = state[q]
        BY <1>1, <2>2 DEF Elsewhere
      <3>2. Checked(q)
        BY <2>1, <3>1 DEF CheckedInv
      <3> QED
        BY <1>1, <2>1, <2>2, <3>2, KeepsChecked
    <2>3. CASE q = p /\ Advances(p)
      <3>1. state[p] = "publishing"
        BY <2>3 DEF Advances, Succeeds
      <3>2. Checked(q)
        BY <2>1, <2>3, <3>1 DEF CheckedInv
      <3> QED
        BY <1>0, <1>1, <2>3, <3>1, <3>2, OwnChecked
    <2>4. CASE q = p /\ (Fails(p) \/ Cleans(p))
      <3>1. state'[p] \in {"cleaning", "failed"}
        BY <2>4 DEF Fails, Fail, Cleans, TypeInv
      <3> QED
        BY <2>4, <3>1
    <2> QED
      BY <1>1, <2>2, <2>3, <2>4
  <1>2. CASE Acts
    <2>1. pc'[q] <= 45 /\ state'[q] = state[q] /\ pc[q] \in 1 .. 49 /\ pc'[q] = pc[q]
      BY <1>2, FileType DEF Acts
    <2>2. state'[q] # "published"
      BY <1>0, <2>1 DEF Ended
    <2> QED
      BY <2>1, <2>2 DEF Checked
  <1>3. CASE PowerFails
    <2>1. /\ UNCHANGED <<bound, pc, expected, touched>> /\ state'[q] = "published"
          /\ state[q] = "published" /\ pc[q] = 49
      BY <1>0, <1>3 DEF PowerFails, Ended
    <2>2. Checked(q)
      BY <2>1 DEF CheckedInv
    <2>3. ASSUME NEW a \in Artifacts, final[a] = <<q, a>>
          PROVE  final'[a] = <<q, a>> /\ bytes'[<<q, a>>] = bytes[<<q, a>>]
      <3>1. durable.final[a] = <<q, a>> /\ <<q, a>> \in durable.files
        BY <2>1, <2>3 DEF ProgressInv, Progress, SyncAt, SyncDirAt
      <3> QED
        BY <1>3, <2>3, <3>1 DEF PowerFails
    <2> QED
      BY <2>1, <2>2, <2>3, BothArtifacts DEF Checked, BytesExact
  <1>4. CASE UNCHANGED vars
    BY <1>4 DEF vars, files, records, ghosts, CheckedInv, Checked, BytesExact
  <1> QED
    BY <1>1, <1>2, <1>3, <1>4 DEF Moves

LEMMA CheckedInit == Init => CheckedInv
  <1> SUFFICES ASSUME Init, NEW p \in Publishers PROVE Checked(p)
    BY DEF CheckedInv
  <1>1. pc[p] = 1 /\ state[p] \in {"publishing", "absent"}
    BY DEF Init
  <1> QED
    BY <1>1 DEF Checked

LEMMA ExactFacts ==
  ASSUME TypeInv, ProgressInv, CheckedInv
  PROVE  PublishedIsExact
  <1> SUFFICES ASSUME NEW p \in Publishers, state[p] = "published", touched[p] <= 45,
                      NEW a \in Artifacts
               PROVE  bound /\ final[a] = <<p, a>> /\ BytesExact(<<p, a>>) /\ temp[<<p, a>>] # <<p, a>>
    <2>1. LastCheck = 45 /\ "json" \in Artifacts
      BY Constants, BothArtifacts
    <2> QED
      BY <2>1 DEF PublishedIsExact
  <1>1. pc[p] = 49
    BY DEF ProgressInv, Ended
  <1>2. Checked(p)
    BY DEF CheckedInv
  <1>3. temp[<<p, a>>] # <<p, a>>
    BY <1>1 DEF ProgressInv, Progress, UnlinkAt
  <1>4. a = "json" \/ a = "markdown"
    BY BothArtifacts
  <1> QED
    BY <1>1, <1>2, <1>3, <1>4 DEF Checked

-----------------------------------------------------------------------------
(* A directory that nobody else touches                                    *)

\* Each call finds what the calls before it left.
Undisturbed(p, a, f) ==
    /\ temp[f] \in {f, None}
    /\ state[p] = "publishing" =>
          /\ CreateAt(a) < pc[p] /\ pc[p] <= UnlinkAt(a) => temp[f] = f /\ tempOwned[f] = TRUE
          /\ pc[p] <= CreateAt(a) \/ UnlinkAt(a) < pc[p] => temp[f] = None
          /\ pc[p] > WriteAt(a) => bytes[f] = "payload"
          /\ pc[p] > SealAt(a) => expected[f] = "payload"
          /\ pc[p] <= SealAt(a) => expected[f] = "absent"
    /\ state[p] \in {"publishing", "published"} /\ pc[p] > LinkAt(a) => final[a] = f
UndisturbedInv == rival = 0 =>
    /\ bound = TRUE
    /\ \A p \in Publishers : touched[p] = 0
    /\ \A a \in Artifacts : final[a] # Foreign /\ durable.final[a] # Foreign
    /\ \A p \in Publishers, a \in Artifacts : Undisturbed(p, a, <<p, a>>)

LEMMA OwnUndisturbed ==
  ASSUME TypeInv, NEW p \in Publishers, Elsewhere(p), Advances(p) \/ Fails(p) \/ Cleans(p),
         NEW a \in Artifacts, Undisturbed(p, a, <<p, a>>)
  PROVE  Undisturbed(p, a, <<p, a>>)'
  <1> DEFINE f == <<p, a>>
  <1>1. pc[p] \in 1 .. 49 /\ f # None
    BY FileFacts
  <1>2. final[a] = f => final'[a] = f
    BY <1>1 DEF Elsewhere
  <1>3. CASE Advances(p)
    <2>1. AdvancesOn(p, a, f) /\ state[p] = "publishing"
      BY <1>3 DEF Advances, Succeeds
    <2>2. \/ pc'[p] = pc[p] /\ pc[p] = 49 /\ state'[p] = "published"
          \/ pc'[p] = pc[p] + 1 /\ pc[p] < 49 /\ state'[p] = "publishing"
      BY <1>3 DEF Advances, Succeeds, TypeInv
    <2> QED
      BY <1>1, <1>2, <2>1, <2>2
         DEF Undisturbed, AdvancesOn, CreateAt, WriteAt, SealAt, LinkAt, UnlinkAt
  <1>4. CASE Fails(p)
    <2>1. state'[p] = "cleaning" /\ temp' = temp
      BY <1>4 DEF Fails, Fail, TypeInv
    <2> QED
      BY <2>1 DEF Undisturbed
  <1>5. CASE Cleans(p)
    <2>1. state'[p] \in {"cleaning", "failed"}
      BY <1>5 DEF Cleans, TypeInv
    <2>2. temp'[f] \in {temp[f], None}
      <3>1. f \in Owned /\ Stored
        BY FileFacts, TypeParts
      <3> QED
        BY <1>5, <3>1 DEF Cleans, Stored
    <2> QED
      BY <2>1, <2>2 DEF Undisturbed
  <1> QED
    BY <1>3, <1>4, <1>5

LEMMA UndisturbedStep ==
  ASSUME TypeInv, TypeInv', ProgressInv, UndisturbedInv, Moves
  PROVE  UndisturbedInv'
  <1> SUFFICES ASSUME rival' = 0
               PROVE  /\ bound' = TRUE
                      /\ \A p \in Publishers : touched'[p] = 0
                      /\ \A a \in Artifacts : final'[a] # Foreign /\ durable'.final[a] # Foreign
                      /\ \A p \in Publishers, a \in Artifacts : (Undisturbed(p, a, <<p, a>>))'
    BY DEF UndisturbedInv
  <1>1. ASSUME NEW p \in Publishers, Advances(p) \/ Fails(p) \/ Cleans(p), Elsewhere(p)
        PROVE  UndisturbedInv'
    <2>1. UNCHANGED <<bound, rival, touched>>
      BY <1>1 DEF Advances, Fails, Cleans
    <2>2. UndisturbedInv /\ rival = 0
      BY <2>1
    <2>3. ASSUME NEW a \in Artifacts PROVE final'[a] # Foreign /\ durable'.final[a] # Foreign
      <3>1. temp[<<p, a>>] \in {<<p, a>>, None} /\ final[a] # Foreign /\ durable.final[a] # Foreign
        BY <2>2 DEF UndisturbedInv, Undisturbed
      <3> QED
        BY <1>1, <3>1, FileFacts, Constants DEF Elsewhere
    <2>4. ASSUME NEW q \in Publishers, NEW a \in Artifacts PROVE (Undisturbed(q, a, <<q, a>>))'
      <3>1. Undisturbed(q, a, <<q, a>>)
        BY <2>2 DEF UndisturbedInv
      <3>2. CASE q = p
        BY <1>1, <3>1, <3>2, OwnUndisturbed
      <3>3. CASE q # p
        <4>1. <<q, a>> # None
          BY FileFacts
        <4>2. /\ pc'[q] = pc[q] /\ state'[q] = state[q] /\ temp'[<<q, a>>] = temp[<<q, a>>]
              /\ bytes'[<<q, a>>] = bytes[<<q, a>>] /\ expected'[<<q, a>>] = expected[<<q, a>>]
              /\ tempOwned'[<<q, a>>] = tempOwned[<<q, a>>]
              /\ (final[a] = <<q, a>> => final'[a] = <<q, a>>)
          BY <1>1, <3>3, <4>1 DEF Elsewhere
        <4> QED
          BY <3>1, <4>2 DEF Undisturbed
      <3> QED
        BY <3>2, <3>3
    <2> QED
      BY <2>1, <2>2, <2>3, <2>4 DEF UndisturbedInv
  <1>2. CASE Acts
    BY <1>2 DEF Acts, TypeInv
  <1>3. CASE PowerFails
    <2>1. UndisturbedInv /\ rival = 0 /\ UNCHANGED <<bound, touched, pc, temp, durable>>
      BY <1>3 DEF PowerFails
    <2>2. ASSUME NEW q \in Publishers, NEW a \in Artifacts PROVE (Undisturbed(q, a, <<q, a>>))'
      <3>1. Undisturbed(q, a, <<q, a>>) /\ Progress(q, a, <<q, a>>) /\ Ended(q)
        BY <2>1 DEF UndisturbedInv, ProgressInv
      <3>2. state'[q] # "publishing" /\ (state'[q] = "published" => state[q] = "published")
        BY <1>3 DEF PowerFails
      <3>3. state[q] = "published" => durable.final[a] = <<q, a>> /\ final[a] = <<q, a>>
        BY <3>1 DEF Undisturbed, Progress, Ended, LinkAt, SyncDirAt
      <3>4. final'[a] \in {final[a], durable.final[a]}
        BY <1>3 DEF PowerFails
      <3> QED
        BY <2>1, <3>1, <3>2, <3>3, <3>4 DEF Undisturbed
    <2>3. ASSUME NEW a \in Artifacts PROVE final'[a] # Foreign /\ durable'.final[a] # Foreign
      BY <1>3, <2>1 DEF PowerFails, UndisturbedInv
    <2> QED
      BY <2>1, <2>2, <2>3 DEF UndisturbedInv
  <1>4. CASE UNCHANGED vars
    BY <1>4 DEF vars, files, records, ghosts, UndisturbedInv, Undisturbed
  <1> QED
    BY <1>1, <1>2, <1>3, <1>4 DEF Moves, UndisturbedInv

LEMMA UndisturbedInit == Init => UndisturbedInv
  <1> SUFFICES ASSUME Init PROVE UndisturbedInv
    OBVIOUS
  <1>1. ASSUME NEW p \in Publishers, NEW a \in Artifacts PROVE Undisturbed(p, a, <<p, a>>)
    <2>1. <<p, a>> \in Owned
      BY Constants
    <2>2. pc[p] = 1 /\ temp[<<p, a>>] = None /\ expected[<<p, a>>] = "absent"
      BY <2>1 DEF Init
    <2> QED
      BY <2>2 DEF Undisturbed, CreateAt, WriteAt, SealAt, LinkAt, UnlinkAt
  <1> QED
    BY <1>1, NamesAssumption DEF Init, UndisturbedInv

LEMMA DurableFacts ==
  ASSUME ProgressInv, UndisturbedInv
  PROVE  PublishedIsDurable
  <1> SUFFICES ASSUME NEW p \in Publishers, state[p] = "published", rival = 0, NEW a \in Artifacts
               PROVE  durable.final[a] = <<p, a>> /\ <<p, a>> \in durable.files
    BY DEF PublishedIsDurable
  <1>1. pc[p] = 49 /\ Progress(p, a, <<p, a>>) /\ Undisturbed(p, a, <<p, a>>)
    BY DEF ProgressInv, Ended, UndisturbedInv
  <1> QED
    BY <1>1 DEF Progress, Undisturbed, LinkAt, SyncAt, SyncDirAt

-----------------------------------------------------------------------------
(* What a cleanup still has to do                                          *)

Has(s, a) == \E i \in 1 .. Len(s) : s[i] = a
\* The artifact is in the pass to come, or in this one: first, or so that the pass which follows
\* an unlink that raises comes to it again.
WillClean(p, a) ==
    LET c == cleanup[p]
    IN  \/ Has(c.next, a) /\ (c.raises > 0 \/ (c.always = TRUE /\ a = Head(c.next)))
        \/ Has(c.batch, a) /\ (c.raises > 0 \/ a = Head(c.batch) \/ Has(c.next, a))
\* At most one call of the cleanup raised, and none was for this artifact.
Spared(c, a) == c.raises <= 1 /\ a \notin c.left

\* A sealed private file that is still there is the publisher's own, unaltered, and its turn
\* in the cleanup is still to come.
StillThere(p, a, f) ==
    temp[f] = f /\ expected[f] # "absent" =>
        /\ state[p] = "cleaning" => tempOwned[f] = TRUE /\ BytesExact(f) /\ WillClean(p, a)
        /\ state[p] # "failed"
CleaningInv == rival = 0 =>
    \A p \in Publishers, a \in Artifacts : Spared(cleanup[p], a) => StillThere(p, a, <<p, a>>)

LEMMA HasBatches ==
  /\ \A a \in Artifacts : Has(Reversed, a) /\ Has(<<a>>, a) /\ ~Has(<<>>, a)
  <1>1. ASSUME NEW a \in Artifacts PROVE Has(Reversed, a)
    <2>1. Len(Reversed) = 2 /\ Reversed[1] = "markdown" /\ Reversed[2] = "json"
      BY DEF Reversed
    <2>2. a = "json" \/ a = "markdown"
      BY BothArtifacts
    <2> QED
      BY <2>1, <2>2 DEF Has
  <1>2. ASSUME NEW a \in Artifacts PROVE Has(<<a>>, a) /\ ~Has(<<>>, a)
    BY DEF Has
  <1> QED
    BY <1>1, <1>2

LEMMA HasTail ==
  ASSUME NEW s \in Seq(Artifacts), s # <<>>, NEW a, Has(s, a), a # Head(s)
  PROVE  Has(Tail(s), a)
  <1>1. PICK i \in 1 .. Len(s) : s[i] = a
    BY DEF Has
  <1>2. i # 1 /\ Len(Tail(s)) = Len(s) - 1 /\ Len(s) \in Nat
    BY <1>1
  <1>3. i - 1 \in 1 .. Len(Tail(s)) /\ Tail(s)[i - 1] = s[i]
    BY <1>1, <1>2
  <1> QED
    BY <1>1, <1>3 DEF Has

\* The cleanup that a failing call starts comes to every artifact that is still there.
LEMMA PlanCovers ==
  ASSUME TypeInv, NEW p \in Publishers, NEW a \in Artifacts,
         CreateAt(a) < pc[p], pc[p] <= UnlinkAt(a)
  PROVE  LET c == CleanupPlan(p)
         IN  \/ Has(c.next, a) /\ c.always = TRUE /\ a = Head(c.next)
             \/ Has(c.batch, a) /\ (a = Head(c.batch) \/ Has(c.next, a))
  <1> DEFINE section == Script[pc[p]].in
             atCreate == Script[pc[p]].op = "create"
  <1>1. Placed(pc[p]) /\ pc[p] \in 1 .. 49
    BY FileType
  <1>2. /\ section = IF pc[p] <= 2 THEN "enter" ELSE IF pc[p] <= 8 THEN "first"
                     ELSE IF pc[p] <= 14 THEN "second" ELSE IF pc[p] <= 44 THEN "commit" ELSE "return"
        /\ atCreate => pc[p] = 3 \/ pc[p] = 9
    BY <1>1, BothArtifacts DEF Placed, PlacedAs, CreateAt
  <1>3. a = "json" \/ a = "markdown"
    BY BothArtifacts
  <1>4. pc[p] > 3 /\ pc[p] <= 37 /\ (a = "markdown" => pc[p] > 9)
    BY <1>1, <1>3 DEF CreateAt, UnlinkAt
  <1>5. CASE pc[p] <= 8
    <2>1. section = "first" /\ ~atCreate /\ a = "json"
      BY <1>1, <1>2, <1>3, <1>4, <1>5
    <2>2. CleanupPlan(p) = Plan(<<"json">>, <<>>, TRUE)
      BY <2>1 DEF CleanupPlan
    <2>3. Plan(<<"json">>, <<>>, TRUE).batch = <<"json">>
      BY Batches, BothArtifacts, PlanTypeTrue
    <2>4. Head(<<"json">>) = a
      BY <2>1
    <2> QED
      BY <2>1, <2>2, <2>3, <2>4, HasBatches
  <1>6. CASE pc[p] > 8 /\ pc[p] <= 14 /\ a = "json"
    <2>1. section = "second"
      BY <1>1, <1>2, <1>6
    <2> DEFINE batch == IF atCreate THEN <<>> ELSE <<"markdown">>
    <2>2. CleanupPlan(p) = Plan(batch, <<"json">>, TRUE)
      BY <2>1 DEF CleanupPlan
    <2>3. batch \in Seq(Artifacts) /\ <<"json">> \in Seq(Artifacts)
      BY Batches, BothArtifacts
    <2> HIDE DEF batch
    <2>4. Plan(batch, <<"json">>, TRUE).next = <<"json">> /\ Plan(batch, <<"json">>, TRUE).always = TRUE
      BY <2>3, PlanTypeTrue
    <2>5. Has(<<"json">>, "json") /\ Head(<<"json">>) = "json"
      BY HasBatches, BothArtifacts
    <2> QED
      BY <1>6, <2>2, <2>4, <2>5
  <1>7. CASE pc[p] > 8 /\ pc[p] <= 14 /\ a = "markdown"
    <2>1. section = "second" /\ ~atCreate
      BY <1>1, <1>2, <1>4, <1>7
    <2>2. CleanupPlan(p) = Plan(<<"markdown">>, <<"json">>, TRUE)
      BY <2>1 DEF CleanupPlan
    <2>3. Plan(<<"markdown">>, <<"json">>, TRUE).batch = <<"markdown">>
      BY Batches, BothArtifacts, PlanTypeTrue
    <2>4. Head(<<"markdown">>) = a
      BY <1>7
    <2> QED
      BY <1>7, <2>2, <2>3, <2>4, HasBatches
  <1>8. CASE pc[p] > 14
    <2>1. section = "commit"
      BY <1>1, <1>2, <1>4, <1>8
    <2>2. CleanupPlan(p) = Plan(Reversed, Reversed, FALSE)
      BY <2>1 DEF CleanupPlan
    <2>3. Plan(Reversed, Reversed, FALSE).batch = Reversed
          /\ Plan(Reversed, Reversed, FALSE).next = Reversed
      BY Batches, PlanTypeFalse
    <2> QED
      BY <2>2, <2>3, HasBatches
  <1>9. \/ pc[p] <= 8 \/ pc[p] > 14 \/ (pc[p] > 8 /\ pc[p] <= 14 /\ a = "json")
        \/ (pc[p] > 8 /\ pc[p] <= 14 /\ a = "markdown")
    BY <1>1, <1>3
  <1> QED
    BY <1>5, <1>6, <1>7, <1>8, <1>9

LEMMA FailingKeeps ==
  ASSUME TypeInv, NEW p \in Publishers, Fails(p), NEW a \in Artifacts,
         Undisturbed(p, a, <<p, a>>)
  PROVE  (StillThere(p, a, <<p, a>>))'
  <1> DEFINE f == <<p, a>>
  <1>1. f \in Owned /\ f # None /\ pc[p] \in 1 .. 49 /\ File(p) \in Owned /\ Stored
        /\ bytes[f] \in Contents /\ expected[f] \in Contents
    BY FileFacts, FileType, TypeParts
  <1>2. /\ state[p] = "publishing" /\ state'[p] = "cleaning" /\ pc' = pc
        /\ cleanup'[p] = CleanupPlan(p) /\ UNCHANGED <<temp, tempOwned>>
    BY DEF Fails, Fail, TypeInv
  <1> SUFFICES ASSUME temp[f] = f, expected'[f] # "absent"
               PROVE  tempOwned'[f] = TRUE /\ (BytesExact(f))' /\ (WillClean(p, a))'
    BY <1>2 DEF StillThere
  <1>3. CreateAt(a) < pc[p] /\ pc[p] <= UnlinkAt(a) /\ tempOwned[f] = TRUE
    BY <1>1, <1>2 DEF Undisturbed, CreateAt, UnlinkAt
  <1>4. (WillClean(p, a))'
    BY <1>2, <1>3, PlanCovers DEF WillClean
  <1>5. expected'[f] = bytes'[f]
    <2>1. CASE bytes'[f] = bytes[f] /\ expected'[f] = expected[f]
      <3>1. expected[f] = "payload" /\ bytes[f] = "payload"
        BY <1>1, <1>2, <2>1 DEF Undisturbed, WriteAt, SealAt
      <3> QED
        BY <2>1, <3>1
    <2>2. ASSUME NEW held \in {"partial", bytes[File(p)]}, NEW sealed \in {"absent", held},
                 bytes' = [bytes EXCEPT ![File(p)] = held],
                 expected' = [expected EXCEPT ![File(p)] = sealed], f = File(p)
          PROVE  expected'[f] = bytes'[f]
      BY <1>1, <2>2 DEF Stored
    <2>3. ASSUME NEW held, NEW sealed, bytes' = [bytes EXCEPT ![File(p)] = held],
                 expected' = [expected EXCEPT ![File(p)] = sealed], f # File(p)
          PROVE  bytes'[f] = bytes[f] /\ expected'[f] = expected[f]
      BY <1>1, <2>3 DEF Stored
    <2> QED
      BY <2>1, <2>2, <2>3 DEF Fails
  <1> QED
    BY <1>2, <1>3, <1>4, <1>5 DEF BytesExact

LEMMA SweepingKeeps ==
  ASSUME TypeInv, TypeInv', NEW p \in Publishers, Cleans(p), Sweeps(p), NEW a \in Artifacts,
         Spared(cleanup[p], a) => StillThere(p, a, <<p, a>>), Spared(cleanup'[p], a),
         temp[<<p, a>>] \in {<<p, a>>, None}
  PROVE  (StillThere(p, a, <<p, a>>))'
  <1> DEFINE f == <<p, a>>
             c == cleanup[p]
             d == cleanup'[p]
  <1>1. /\ state[p] = "cleaning" /\ UNCHANGED <<bytes, expected>>
        /\ c.batch \in Seq(Artifacts) /\ f # None /\ c.raises \in Nat /\ d.raises \in Nat
    BY FileFacts DEF Cleans, TypeInv, Cleanups
  <1>2. temp'[f] = f => temp[f] = f /\ (c.batch = <<>> \/ Target(p) # f => tempOwned'[f] = tempOwned[f])
    BY <1>1, FileFacts, TypeParts DEF Cleans, Stored
  <1>3. Spared(c, a)
    <2>1. c.left \subseteq d.left
      BY DEF Sweeps
    <2>2. d.raises = c.raises \/ d.raises = c.raises + 1
      BY DEF Sweeps
    <2> QED
      BY <1>1, <2>1, <2>2 DEF Spared
  <1> SUFFICES ASSUME temp'[f] = f, expected[f] # "absent"
               PROVE  /\ state'[p] = "cleaning" =>
                            tempOwned'[f] = TRUE /\ (BytesExact(f))' /\ (WillClean(p, a))'
                      /\ state'[p] # "failed"
    BY <1>1 DEF StillThere
  <1>4. tempOwned[f] = TRUE /\ BytesExact(f) /\ WillClean(p, a) /\ temp[f] = f
    BY <1>1, <1>2, <1>3 DEF StillThere
  <1>5. (BytesExact(f))'
    BY <1>1, <1>4 DEF BytesExact
  <1>6. CASE /\ d.batch = c.batch /\ d.next = c.next /\ d.always = c.always
             /\ d.raises = c.raises /\ UNCHANGED <<temp, tempOwned, state>>
    BY <1>1, <1>4, <1>5, <1>6 DEF WillClean
  <1>7. CASE /\ c.batch # <<>> /\ d.batch = Tail(c.batch) /\ d.next = c.next /\ d.always = c.always
             /\ d.raises = c.raises /\ state' = state
             /\ \/ temp'[Target(p)] # Target(p) \/ tempOwned[Target(p)] # TRUE
                \/ ~BytesExact(Target(p)) \/ Head(c.batch) \in d.left
    <2>1. Head(c.batch) # a
      BY <1>4, <1>7 DEF Target, Spared
    <2>2. Has(c.batch, a) => Has(Tail(c.batch), a)
      BY <1>1, <1>7, <2>1, HasTail
    <2>3. (WillClean(p, a))'
      BY <1>4, <1>7, <2>1, <2>2 DEF WillClean
    <2>4. Target(p) # f
      BY <2>1 DEF Target
    <2> QED
      BY <1>1, <1>2, <1>4, <1>5, <1>7, <2>3, <2>4
  <1>8. CASE /\ c.batch # <<>> /\ d.batch = <<>> /\ d.next = c.next
             /\ d.raises = c.raises + 1 /\ d.left = c.left \cup {Head(c.batch)}
             /\ UNCHANGED <<temp, tempOwned, state>>
    <2>1. Head(c.batch) # a /\ c.raises = 0 /\ d.raises > 0
      BY <1>1, <1>8 DEF Spared
    <2>2. Has(c.next, a)
      BY <1>4, <2>1 DEF WillClean
    <2>3. (WillClean(p, a))'
      BY <1>8, <2>1, <2>2 DEF WillClean
    <2> QED
      BY <1>1, <1>4, <1>5, <1>8, <2>3
  <1>9. CASE /\ c.batch = <<>> /\ d.batch = c.next /\ d.raises = c.raises
             /\ UNCHANGED <<temp, tempOwned, state>>
    <2>1. ~Has(c.batch, a)
      BY <1>9, HasBatches
    <2>2. (WillClean(p, a))'
      BY <1>4, <1>9, <2>1 DEF WillClean
    <2> QED
      BY <1>1, <1>4, <1>5, <1>9, <2>2
  <1>10. CASE c.batch = <<>> /\ (c.next = <<>> \/ (c.always = FALSE /\ c.raises = 0))
    <2>1. ~Has(c.batch, a) /\ (c.next = <<>> => ~Has(c.next, a))
      BY <1>10, HasBatches
    <2>2. c.raises = 0 => ~(c.raises > 0)
      OBVIOUS
    <2> QED
      BY <1>4, <1>10, <2>1, <2>2 DEF WillClean
  <1> QED
    BY <1>6, <1>7, <1>8, <1>9, <1>10 DEF Sweeps

LEMMA CleaningStep ==
  ASSUME TypeInv, TypeInv', UndisturbedInv, CleaningInv, Moves
  PROVE  CleaningInv'
  <1> SUFFICES ASSUME rival' = 0, NEW q \in Publishers, NEW a \in Artifacts,
                      Spared(cleanup'[q], a)
               PROVE  (StillThere(q, a, <<q, a>>))'
    BY DEF CleaningInv
  <1>1. ASSUME NEW p \in Publishers, Advances(p) \/ Fails(p) \/ (Cleans(p) /\ Sweeps(p)), Elsewhere(p)
        PROVE  (StillThere(q, a, <<q, a>>))'
    <2>1. rival = 0
      BY <1>1 DEF Advances, Fails, Cleans
    <2>2. Undisturbed(q, a, <<q, a>>)
      BY <2>1 DEF UndisturbedInv
    <2>3. Spared(cleanup[q], a) => StillThere(q, a, <<q, a>>)
      BY <2>1 DEF CleaningInv
    <2>4. CASE q = p /\ Advances(p)
      <3>1. state'[p] \in {"publishing", "published"}
        BY <2>4 DEF Advances, Succeeds, TypeInv
      <3> QED
        BY <2>4, <3>1 DEF StillThere
    <2>5. CASE q = p /\ Fails(p)
      BY <2>2, <2>5, FailingKeeps
    <2>6. CASE q = p /\ Cleans(p) /\ Sweeps(p)
      <3>1. temp[<<p, a>>] \in {<<p, a>>, None}
        BY <2>2, <2>6 DEF Undisturbed
      <3> QED
        BY <2>3, <2>6, <3>1, SweepingKeeps
    <2>7. CASE q # p
      <3>1. /\ cleanup'[q] = cleanup[q] /\ state'[q] = state[q]
            /\ temp'[<<q, a>>] = temp[<<q, a>>] /\ bytes'[<<q, a>>] = bytes[<<q, a>>]
            /\ expected'[<<q, a>>] = expected[<<q, a>>]
            /\ tempOwned'[<<q, a>>] = tempOwned[<<q, a>>]
        BY <1>1, <2>7 DEF Elsewhere
      <3> QED
        BY <2>3, <3>1 DEF StillThere, BytesExact, WillClean
    <2> QED
      BY <1>1, <2>4, <2>5, <2>6, <2>7
  <1>2. CASE Acts
    BY <1>2 DEF Acts, TypeInv
  <1>3. CASE PowerFails
    <2>1. /\ rival = 0 /\ UNCHANGED <<temp, expected, tempOwned, cleanup>>
          /\ state'[q] # "cleaning" /\ (state'[q] = "failed" => state[q] = "failed")
      BY <1>3 DEF PowerFails
    <2>2. StillThere(q, a, <<q, a>>)
      BY <2>1 DEF CleaningInv
    <2> QED
      BY <2>1, <2>2 DEF StillThere
  <1>4. CASE UNCHANGED vars
    <2>1. rival = 0 /\ UNCHANGED <<temp, bytes, expected, tempOwned, cleanup, state>>
      BY <1>4 DEF vars, files, records, ghosts
    <2>2. StillThere(q, a, <<q, a>>)
      BY <2>1 DEF CleaningInv
    <2> QED
      BY <2>1, <2>2 DEF StillThere, BytesExact, WillClean
  <1> QED
    BY <1>1, <1>2, <1>3, <1>4 DEF Moves

LEMMA CleaningInit == Init => CleaningInv
  BY DEF Init, CleaningInv, StillThere

LEMMA TemporaryFacts ==
  ASSUME CleaningInv
  PROVE  FailureLeavesNoTemporary
  BY DEF CleaningInv, Spared, StillThere, FailureLeavesNoTemporary

-----------------------------------------------------------------------------
(* Competing publishers that nobody disturbs                               *)

\* Without an error of its own a publisher only fails where it finds that somebody else came
\* first, and then that publisher is still at work or the JSON name is taken for good.
Came(p) == state[p] = "publishing" /\ pc[p] >= 3
SomebodyAhead == final["json"] # None \/ \E q \in Publishers : Came(q)
QuietInv ==
    /\ \E p \in Publishers : state[p] # "absent"
    /\ Quiet => \A p \in Publishers : state[p] \in {"cleaning", "failed"} =>
          (pc[p] = 2 \/ pc[p] = 17) /\ SomebodyAhead

LEMMA Ahead ==
  ASSUME TypeInv, ProgressInv, UndisturbedInv, QuietInv, Quiet,
         NEW q \in Publishers, pc[q] >= 3
  PROVE  SomebodyAhead
  <1>1. pc[q] \in 1 .. 49 /\ Ended(q) /\ state[q] \in States /\ state[q] # "stopped"
    BY FileType DEF ProgressInv, TypeInv, Quiet
  <1>2. CASE state[q] = "publishing"
    BY <1>2 DEF Came, SomebodyAhead
  <1>3. CASE state[q] = "published"
    <2>1. Undisturbed(q, "json", <<q, "json">>) /\ pc[q] = 49 /\ <<q, "json">> # None
      BY <1>1, <1>3, BothArtifacts, FileFacts DEF Quiet, UndisturbedInv, Ended
    <2>2. final["json"] = <<q, "json">>
      BY <1>3, <2>1 DEF Undisturbed, LinkAt
    <2> QED
      BY <2>1, <2>2 DEF SomebodyAhead
  <1>4. CASE state[q] \in {"cleaning", "failed"}
    BY <1>4 DEF QuietInv
  <1>5. state[q] # "absent"
    BY <1>1 DEF Ended
  <1> QED
    BY <1>1, <1>2, <1>3, <1>4, <1>5 DEF States

\* A taken Markdown name belongs to a publisher past its link.
LEMMA MarkdownHolder ==
  ASSUME TypeInv, ProgressInv, UndisturbedInv, rival = 0, final["markdown"] # None
  PROVE  \E q \in Publishers : final["markdown"] = <<q, "markdown">> /\ pc[q] > 22
  <1>1. final["markdown"] \in Named("markdown") /\ final["markdown"] # Foreign
    BY BothArtifacts DEF TypeInv, UndisturbedInv
  <1>2. PICK q \in Publishers : final["markdown"] = <<q, "markdown">>
    BY <1>1 DEF Named
  <1>3. Progress(q, "markdown", <<q, "markdown">>)
    BY BothArtifacts DEF ProgressInv
  <1> QED
    BY <1>2, <1>3 DEF Progress, LinkAt

LEMMA JsonHolder ==
  ASSUME TypeInv, ProgressInv, UndisturbedInv, rival = 0, final["json"] # None
  PROVE  \E q \in Publishers : final["json"] = <<q, "json">> /\ pc[q] > 17
  <1>1. final["json"] \in Named("json") /\ final["json"] # Foreign
    BY BothArtifacts DEF TypeInv, UndisturbedInv
  <1>2. PICK q \in Publishers : final["json"] = <<q, "json">>
    BY <1>1 DEF Named
  <1>3. Progress(q, "json", <<q, "json">>)
    BY BothArtifacts DEF ProgressInv
  <1> QED
    BY <1>2, <1>3 DEF Progress, LinkAt

\* Whoever is past both links and in a quiet directory holds the JSON name, and is working or done.
LEMMA PastLink ==
  ASSUME TypeInv, ProgressInv, UndisturbedInv, QuietInv, Quiet,
         NEW q \in Publishers, pc[q] > 17
  PROVE  state[q] \in {"publishing", "published"} /\ final["json"] = <<q, "json">>
  <1>1. pc[q] \in 1 .. 49 /\ Ended(q) /\ state[q] \in States /\ state[q] # "stopped"
        /\ Undisturbed(q, "json", <<q, "json">>)
    BY FileType, BothArtifacts DEF ProgressInv, TypeInv, Quiet, UndisturbedInv
  <1>2. state[q] \notin {"cleaning", "failed"}
    BY <1>1 DEF QuietInv
  <1>3. state[q] # "absent"
    BY <1>1 DEF Ended
  <1>4. state[q] \in {"publishing", "published"}
    BY <1>1, <1>2, <1>3 DEF States
  <1> QED
    BY <1>1, <1>4 DEF Undisturbed, LinkAt

LEMMA QuietRefusal ==
  ASSUME TypeInv, ProgressInv, UndisturbedInv, QuietInv, Quiet,
         NEW p \in Publishers, Fails(p), faults' = 0
  PROVE  (pc[p] = 2 /\ SomebodyAhead) \/ (pc[p] = 17 /\ final["json"] # None)
  <1> DEFINE a == Art(p)
             f == File(p)
             op == Script[pc[p]].op
  <1>1. /\ a \in Artifacts /\ f = <<p, a>> /\ pc[p] \in 1 .. 49 /\ f # None
        /\ PlacedAs(pc[p], op, a, Script[pc[p]].in)
    BY FileType, FileFacts DEF Placed, Art
  <1>2. state[p] = "publishing" /\ rival = 0 /\ faults = 0 /\ bound = TRUE /\ Undisturbed(p, a, f)
    BY <1>1 DEF Fails, Quiet, UndisturbedInv
  <1>3. Refused(p)
    BY <1>2 DEF Fails
  <1>4. op \in {"path", "empty", "create", "bytes", "temp", "final", "link", "unlink"}
    BY <1>3 DEF Refused
  <1>5. op # "path"
    BY <1>2, <1>3 DEF Refused
  <1>6. op \notin {"create", "unlink"}
    BY <1>1, <1>2, <1>3 DEF Refused, PlacedAs, Undisturbed, CreateAt, UnlinkAt
  <1>7. op # "bytes"
    BY <1>1, <1>2, <1>3 DEF Refused, PlacedAs, Undisturbed, WriteAt, SealAt, BytesExact
  <1>8. op \notin {"temp", "final"}
    BY <1>1, <1>2, <1>3 DEF Refused, PlacedAs, Undisturbed, CreateAt, SealAt, LinkAt, UnlinkAt
  <1>9. CASE op = "empty"
    <2>1. pc[p] = 2 /\ ~NothingThere
      BY <1>1, <1>3, <1>9 DEF Refused, PlacedAs
    <2>2. PICK b \in Artifacts : final[b] # None \/ \E q \in Publishers : temp[<<q, b>>] # None
      BY <2>1 DEF NothingThere
    <2>3. CASE final[b] # None /\ b = "json"
      BY <2>1, <2>3 DEF SomebodyAhead
    <2>4. CASE final[b] # None /\ b = "markdown"
      <3>1. PICK q \in Publishers : pc[q] > 22
        BY <1>2, <2>4, MarkdownHolder
      <3>2. pc[q] >= 3
        BY <3>1, FileType
      <3> QED
        BY <2>1, <3>2, Ahead
    <2>5. CASE \E q \in Publishers : temp[<<q, b>>] # None
      <3>1. PICK q \in Publishers : temp[<<q, b>>] # None
        BY <2>5
      <3>2. temp[<<q, b>>] = <<q, b>> /\ Progress(q, b, <<q, b>>) /\ pc[q] \in 1 .. 49
        BY <1>2, <3>1, FileType DEF UndisturbedInv, Undisturbed, ProgressInv
      <3>3. pc[q] >= 3
        BY <3>2 DEF Progress, CreateAt
      <3> QED
        BY <2>1, <3>3, Ahead
    <2> QED
      BY <2>2, <2>3, <2>4, <2>5, BothArtifacts
  <1>10. CASE op = "link"
    <2>1. pc[p] = LinkAt(a) /\ (final[a] # None \/ temp[f] = None)
      BY <1>1, <1>3, <1>10 DEF Refused, PlacedAs
    <2>2. temp[f] = f
      BY <1>1, <1>2, <2>1 DEF Undisturbed, CreateAt, LinkAt, UnlinkAt
    <2>3. final[a] # None
      BY <1>1, <2>1, <2>2
    <2>4. CASE a = "json"
      BY <2>1, <2>3, <2>4 DEF LinkAt
    <2>5. CASE a = "markdown"
      <3>1. pc[p] = 22
        BY <2>1, <2>5 DEF LinkAt
      <3>2. PICK q \in Publishers : pc[q] > 22
        BY <1>2, <2>3, <2>5, MarkdownHolder
      <3>3. pc[q] > 17 /\ pc[p] > 17 /\ p # q
        BY <3>1, <3>2, FileType
      <3>4. final["json"] = <<q, "json">> /\ final["json"] = <<p, "json">>
        BY <3>3, PastLink
      <3> QED
        BY <3>3, <3>4
    <2> QED
      BY <1>1, <2>4, <2>5, BothArtifacts
  <1> QED
    BY <1>4, <1>5, <1>6, <1>7, <1>8, <1>9, <1>10

LEMMA AheadStays ==
  ASSUME TypeInv, TypeInv', ProgressInv, UndisturbedInv, UndisturbedInv', QuietInv, Quiet, Quiet',
         SomebodyAhead, NEW p \in Publishers, Elsewhere(p),
         Advances(p) \/ Fails(p) \/ (Cleans(p) /\ Sweeps(p))
  PROVE  SomebodyAhead'
  <1>1. final["json"] # None => final'["json"] # None
    BY BothArtifacts DEF Elsewhere
  <1>2. ASSUME NEW q \in Publishers, Came(q), q # p PROVE SomebodyAhead'
    BY <1>2 DEF Elsewhere, Came, SomebodyAhead
  <1>3. ASSUME Came(p), Advances(p) PROVE SomebodyAhead'
    <2>1. \/ pc'[p] = pc[p] /\ pc[p] = 49 /\ state'[p] = "published"
          \/ pc'[p] = pc[p] + 1 /\ state'[p] = "publishing"
      BY <1>3 DEF Advances, Succeeds, TypeInv
    <2>2. CASE state'[p] = "publishing" /\ pc'[p] = pc[p] + 1
      <3>1. pc[p] \in 1 .. 49 /\ pc[p] >= 3
        BY <1>3, FileType DEF Came
      <3> QED
        BY <2>2, <3>1 DEF Came, SomebodyAhead
    <2>3. CASE state'[p] = "published" /\ pc'[p] = 49
      <3>1. (Undisturbed(p, "json", <<p, "json">>))'
        BY BothArtifacts DEF UndisturbedInv, Quiet
      <3>2. final'["json"] = <<p, "json">>
        BY <2>3, <3>1 DEF Undisturbed, LinkAt
      <3>3. <<p, "json">> # None
        BY FileFacts, BothArtifacts
      <3> QED
        BY <3>2, <3>3 DEF SomebodyAhead
    <2> QED
      BY <2>1, <2>2, <2>3
  <1>4. ASSUME Came(p), Fails(p) PROVE SomebodyAhead'
    <2>1. pc[p] >= 3 /\ faults' = 0
      BY <1>4 DEF Came, Quiet
    <2>2. final["json"] # None
      BY <1>4, <2>1, QuietRefusal
    <2> QED
      BY <1>1, <2>2 DEF SomebodyAhead
  <1>5. ASSUME Came(p), Cleans(p) PROVE FALSE
    BY <1>5 DEF Came, Cleans
  <1> QED
    BY <1>1, <1>2, <1>3, <1>4, <1>5 DEF SomebodyAhead

LEMMA QuietStep ==
  ASSUME TypeInv, TypeInv', ProgressInv, UndisturbedInv, UndisturbedInv', QuietInv, Moves
  PROVE  QuietInv'
  <1>1. \E q \in Publishers : state'[q] # "absent"
    <2>1. PICK q \in Publishers : state[q] # "absent"
      BY DEF QuietInv
    <2>2. ASSUME NEW p \in Publishers, Advances(p) \/ Fails(p) \/ Cleans(p)
          PROVE  state'[p] # "absent"
      BY <2>2 DEF Advances, Succeeds, Fails, Fail, Cleans, TypeInv
    <2>3. CASE Acts \/ PowerFails \/ UNCHANGED vars
      BY <2>1, <2>3 DEF Acts, PowerFails, vars
    <2> QED
      BY <2>2, <2>3 DEF Moves
  <1>2. ASSUME Quiet', NEW q \in Publishers, state'[q] \in {"cleaning", "failed"}
        PROVE  (pc'[q] = 2 \/ pc'[q] = 17) /\ SomebodyAhead'
    <2>1. ASSUME NEW p \in Publishers, Elsewhere(p),
                 Advances(p) \/ Fails(p) \/ (Cleans(p) /\ Sweeps(p))
          PROVE  (pc'[q] = 2 \/ pc'[q] = 17) /\ SomebodyAhead'
      <3>1. Quiet
        <4>1. rival' = rival /\ (faults' = faults \/ faults' = faults + 1)
          BY <2>1 DEF Advances, Fails, Cleans
        <4>2. rival = 0 /\ faults = 0
          BY <1>2, <4>1 DEF Quiet, TypeInv
        <4>3. ASSUME NEW r \in Publishers PROVE state[r] # "stopped"
          <5>1. CASE r = p
            BY <2>1, <5>1 DEF Advances, Succeeds, Fails, Cleans
          <5>2. CASE r # p
            BY <1>2, <2>1, <5>2 DEF Elsewhere, Quiet
          <5> QED
            BY <5>1, <5>2
        <4> QED
          BY <4>2, <4>3 DEF Quiet
      <3>2. faults' = 0
        BY <1>2 DEF Quiet
      <3>3. (pc[q] = 2 \/ pc[q] = 17) /\ SomebodyAhead /\ pc'[q] = pc[q]
        <4>1. CASE q # p
          BY <1>2, <2>1, <3>1, <4>1 DEF Elsewhere, QuietInv
        <4>2. CASE q = p /\ Advances(p)
          BY <1>2, <4>2 DEF Advances, Succeeds, TypeInv
        <4>3. CASE q = p /\ Fails(p)
          BY <3>1, <3>2, <4>3, QuietRefusal DEF Fails, Fail, SomebodyAhead
        <4>4. CASE q = p /\ Cleans(p)
          BY <3>1, <4>4 DEF Cleans, QuietInv
        <4> QED
          BY <2>1, <4>1, <4>2, <4>3, <4>4
      <3> QED
        BY <1>2, <2>1, <3>1, <3>3, AheadStays
    <2>2. CASE Acts
      BY <1>2, <2>2 DEF Acts, Quiet, TypeInv
    <2>3. CASE PowerFails
      BY <1>2, <2>3 DEF PowerFails, Quiet
    <2>4. CASE UNCHANGED vars
      <3>1. UNCHANGED <<final, pc, state, rival, faults>>
        BY <2>4 DEF vars, files, ghosts
      <3> QED
        BY <1>2, <3>1 DEF QuietInv, Quiet, SomebodyAhead, Came
    <2> QED
      BY <2>1, <2>2, <2>3, <2>4 DEF Moves
  <1> QED
    BY <1>1, <1>2 DEF QuietInv

LEMMA QuietInit == Init => QuietInv
  <1> SUFFICES ASSUME Init PROVE QuietInv
    OBVIOUS
  <1>1. PICK here \in Groups :
           state = [p \in Publishers |-> IF p \in here THEN "publishing" ELSE "absent"]
    BY DEF Init
  <1>2. PICK p \in Publishers : p \in here
    BY BoundsAssumption
  <1> QED
    BY <1>1, <1>2 DEF QuietInv

LEMMA WinnerFacts ==
  ASSUME TypeInv, ProgressInv, UndisturbedInv, QuietInv
  PROVE  ExactlyOneWinner
  <1> SUFFICES ASSUME \A p \in Publishers : Finished(p), Quiet
               PROVE  Cardinality({p \in Publishers : state[p] = "published"}) = 1
    BY DEF ExactlyOneWinner
  <1>1. ASSUME NEW p \in Publishers PROVE state[p] \in {"published", "failed", "absent"}
    BY DEF Finished, Quiet, TypeInv, States
  <1>2. PICK w \in Publishers : state[w] = "published"
    <2>1. PICK p \in Publishers : state[p] # "absent"
      BY DEF QuietInv
    <2>2. CASE state[p] = "published"
      BY <2>2
    <2>3. CASE state[p] = "failed"
      <3>1. final["json"] # None
        BY <1>1, <2>3 DEF QuietInv, SomebodyAhead, Came
      <3>2. PICK q \in Publishers : pc[q] > 17
        BY <3>1, JsonHolder DEF Quiet
      <3> QED
        BY <1>1, <3>2, PastLink
    <2> QED
      BY <1>1, <2>1, <2>2, <2>3
  <1>3. ASSUME NEW p \in Publishers, state[p] = "published" PROVE final["json"] = <<p, "json">>
    <2>1. pc[p] = 49
      BY <1>3 DEF ProgressInv, Ended
    <2> QED
      BY <2>1, PastLink
  <1>4. {p \in Publishers : state[p] = "published"} = {w}
    BY <1>2, <1>3
  <1> QED
    BY <1>4, FS_Singleton

-----------------------------------------------------------------------------
(* Every step is one that NoClobberPair allows                             *)

LEMMA HolderType ==
  ASSUME TypeInv
  PROVE  /\ holder \in [Artifacts -> Publishers \cup {None}]
         /\ \A a \in Artifacts, p \in Publishers : final[a] = <<p, a>> => holder[a] = p
         /\ \A a \in Artifacts : final[a] \in {None, Foreign} => holder[a] = None
  <1>1. ASSUME NEW a \in Artifacts, NEW p \in Publishers, final[a] = <<p, a>> PROVE holder[a] = p
    BY <1>1, Constants DEF holder
  <1>2. ASSUME NEW a \in Artifacts, final[a] \in {None, Foreign} PROVE holder[a] = None
    BY <1>2, Constants DEF holder
  <1>3. ASSUME NEW a \in Artifacts PROVE holder[a] \in Publishers \cup {None}
    <2>1. final[a] \in Named(a)
      BY DEF TypeInv
    <2> QED
      BY <1>1, <1>2, <2>1 DEF Named
  <1>4. holder = [a \in Artifacts |-> holder[a]]
    BY DEF holder
  <1> QED
    BY <1>1, <1>2, <1>3, <1>4

LEMMA PromiseInit == Init => Promise!Init
  <1> SUFFICES ASSUME Init PROVE Promise!Init
    OBVIOUS
  <1>1. holder = [a \in Artifacts |-> None]
    BY Constants DEF Init, holder
  <1>2. outcome \in [Publishers -> {"working", "failed"}]
    BY DEF Init, outcome
  <1>3. disturbed = FALSE
    BY DEF Init, disturbed
  <1> QED
    BY <1>1, <1>2, <1>3 DEF Promise!Init, Promise!Artifacts, Artifacts

LEMMA PublisherDisturbs ==
  ASSUME TypeInv, NEW p \in Publishers, Elsewhere(p), Advances(p) \/ Fails(p) \/ Cleans(p)
  PROVE  (disturbed' <=> disturbed) /\ rival' = rival
  <1>1. rival' = rival /\ state[p] # "stopped" /\ state'[p] # "stopped"
    BY DEF Advances, Succeeds, Fails, Fail, Cleans, TypeInv
  <1>2. \A q \in Publishers : state'[q] = "stopped" <=> state[q] = "stopped"
    BY <1>1 DEF Elsewhere
  <1> QED
    BY <1>1, <1>2 DEF disturbed

LEMMA PromiseStep ==
  ASSUME TypeInv, TypeInv', UndisturbedInv, Moves
  PROVE  [Promise!Next]_(Promise!vars)
  <1> USE DEF Promise!vars
  <1>1. ASSUME NEW p \in Publishers, Elsewhere(p), Advances(p)
        PROVE  [Promise!Next]_(Promise!vars)
    <2>1. (disturbed' <=> disturbed) /\ rival' = rival
      BY <1>1, PublisherDisturbs
    <2>2. state[p] = "publishing" /\ pc[p] \in 1 .. 49 /\ outcome[p] = "working"
      BY <1>1, FileType DEF Advances, Succeeds, outcome
    <2>3. ~disturbed => \A a \in Artifacts : Undisturbed(p, a, <<p, a>>)
      BY DEF UndisturbedInv, disturbed, TypeInv
    <2>4. CASE pc[p] < 49 /\ pc[p] # 17 /\ pc[p] # 22
      <3>1. \A a \in Artifacts : final'[a] = final[a]
        BY <1>1, <2>4 DEF Advances, AdvancesOn, LinkAt
      <3>2. holder' = holder
        BY <3>1 DEF holder
      <3>3. outcome' = outcome
        BY <1>1, <2>4 DEF Advances, Succeeds, outcome
      <3> QED
        BY <2>1, <3>2, <3>3
    <2>5. CASE pc[p] = 17 \/ pc[p] = 22
      <3> DEFINE a == IF pc[p] = 17 THEN "json" ELSE "markdown"
                 b == IF pc[p] = 17 THEN "markdown" ELSE "json"
      <3>1. /\ a \in Artifacts /\ b \in Artifacts /\ pc[p] = LinkAt(a) /\ pc[p] # LinkAt(b)
            /\ \A c \in Artifacts : c = a \/ c = b
        BY <2>5, BothArtifacts DEF LinkAt
      <3>2. final[a] = None /\ final'[a] = temp[<<p, a>>] /\ temp[<<p, a>>] # None /\ final'[b] = final[b]
        BY <1>1, <3>1 DEF Advances, AdvancesOn
      <3>3. outcome' = outcome
        BY <1>1, <2>5 DEF Advances, Succeeds, outcome
      <3>4. holder[a] = None /\ holder'[b] = holder[b]
        BY <3>1, <3>2, HolderType DEF holder
      <3>5. CASE temp[<<p, a>>] = <<p, a>>
        <4>1. holder'[a] = p
          BY <3>1, <3>2, <3>5, Constants DEF holder
        <4>2. holder' = [holder EXCEPT ![a] = p]
          <5>1. \A c \in Artifacts : holder'[c] = IF c = a THEN p ELSE holder[c]
            BY <3>1, <3>4, <4>1
          <5> QED
            BY <3>1, <5>1 DEF holder
        <4>3. CASE pc[p] = 17
          BY <2>1, <2>2, <3>3, <3>4, <4>2, <4>3 DEF Promise!Next, Promise!TakeJson
        <4>4. CASE pc[p] = 22
          <5>1. holder["json"] = p \/ disturbed
            <6> SUFFICES ASSUME ~disturbed PROVE holder["json"] = p
              OBVIOUS
            <6>1. Undisturbed(p, "json", <<p, "json">>)
              BY <2>3, BothArtifacts
            <6>2. final["json"] = <<p, "json">>
              BY <2>2, <4>4, <6>1 DEF Undisturbed, LinkAt
            <6> QED
              BY <6>2, HolderType, BothArtifacts
          <5>2. holder["markdown"] = None /\ holder' = [holder EXCEPT !["markdown"] = p]
            BY <3>4, <4>2, <4>4
          <5>3. Promise!TakeMarkdown(p)
            BY <2>1, <2>2, <3>3, <5>1, <5>2 DEF Promise!TakeMarkdown
          <5> QED
            BY <5>3 DEF Promise!Next
        <4> QED
          BY <2>5, <4>3, <4>4
      <3>6. CASE temp[<<p, a>>] = Foreign
        <4>1. holder'[a] = None
          BY <3>1, <3>2, <3>6, Constants DEF holder
        <4>2. \A c \in Artifacts : holder'[c] = holder[c]
          BY <3>1, <3>4, <4>1
        <4>3. holder' = holder
          BY <4>2 DEF holder
        <4> QED
          BY <2>1, <3>3, <4>3
      <3> QED
        BY <3>1, <3>2, <3>5, <3>6, FileFacts
    <2>6. CASE pc[p] = 49
      <3>0. \A a \in Artifacts : pc[p] > LinkAt(a) /\ pc[p] # LinkAt(a)
        BY <2>6 DEF LinkAt
      <3>1. \A a \in Artifacts : final'[a] = final[a]
        BY <1>1, <3>0 DEF Advances, AdvancesOn
      <3>2. holder' = holder
        BY <3>1 DEF holder
      <3>3. state' = [state EXCEPT ![p] = "published"]
        BY <1>1, <2>6 DEF Advances, Succeeds
      <3>4. outcome' = [outcome EXCEPT ![p] = "published"]
        BY <3>3 DEF outcome, TypeInv
      <3>5. (\A a \in Artifacts : holder[a] = p) \/ disturbed
        <4> SUFFICES ASSUME ~disturbed, NEW a \in Artifacts PROVE holder[a] = p
          OBVIOUS
        <4>1. Undisturbed(p, a, <<p, a>>)
          BY <2>3
        <4>2. final[a] = <<p, a>>
          BY <2>2, <3>0, <4>1 DEF Undisturbed
        <4> QED
          BY <4>2, HolderType
      <3> QED
        BY <2>1, <2>2, <3>2, <3>4, <3>5
           DEF Promise!Next, Promise!Decide, Promise!Publish, Promise!Artifacts, Artifacts
    <2> QED
      BY <2>2, <2>4, <2>5, <2>6
  <1>2. ASSUME NEW p \in Publishers, Elsewhere(p), Fails(p) \/ Cleans(p)
        PROVE  [Promise!Next]_(Promise!vars)
    <2>1. (disturbed' <=> disturbed) /\ final' = final
      BY <1>2, PublisherDisturbs DEF Fails, Cleans
    <2>2. holder' = holder
      BY <2>1 DEF holder
    <2>3. CASE Fails(p)
      <3>1. outcome' = outcome
        BY <2>3 DEF Fails, Fail, outcome, TypeInv
      <3> QED
        BY <2>1, <2>2, <3>1
    <2>4. CASE Cleans(p) /\ state' = state
      <3>1. outcome' = outcome
        BY <2>4 DEF outcome
      <3> QED
        BY <2>1, <2>2, <3>1
    <2>5. CASE Cleans(p) /\ state' = [state EXCEPT ![p] = "failed"]
      <3>1. state[p] = "cleaning" /\ outcome[p] = "working"
        BY <2>5 DEF Cleans, outcome
      <3>2. outcome' = [outcome EXCEPT ![p] = "failed"]
        BY <2>5 DEF outcome, TypeInv
      <3> QED
        BY <2>1, <2>2, <3>1, <3>2 DEF Promise!Next, Promise!Decide, Promise!Fail
    <2> QED
      BY <1>2, <2>3, <2>4, <2>5 DEF Cleans
  <1>3. CASE Acts \/ PowerFails
    <2>1. disturbed'
      BY <1>3 DEF Acts, PowerFails, disturbed, TypeInv
    <2>2. holder' \in [Artifacts -> Publishers \cup {None}]
      <3>1. \A a \in Artifacts : final'[a] \in Named(a)
        BY DEF TypeInv
      <3> QED
        BY <3>1, Constants DEF holder, Named
    <2>3. \/ outcome' = outcome
          \/ outcome' = [p \in Publishers |-> IF outcome[p] = "working" THEN "failed" ELSE outcome[p]]
      <3>1. CASE Acts
        BY <3>1 DEF Acts, outcome
      <3>2. CASE PowerFails
        <4>1. \A p \in Publishers :
                 outcome'[p] = IF outcome[p] = "working" THEN "failed" ELSE outcome[p]
          BY <3>2 DEF PowerFails, outcome, TypeInv, States
        <4> QED
          BY <4>1 DEF outcome
      <3> QED
        BY <1>3, <3>1, <3>2
    <2> QED
      BY <2>1, <2>2, <2>3 DEF Promise!Next, Promise!Disturb, Promise!Artifacts, Artifacts
  <1>4. CASE UNCHANGED vars
    BY <1>4 DEF vars, files, ghosts, holder, outcome, disturbed
  <1> QED
    BY <1>1, <1>2, <1>3, <1>4 DEF Moves

-----------------------------------------------------------------------------
(* The theorems                                                            *)

IInv == TypeInv /\ ProgressInv /\ CheckedInv /\ UndisturbedInv /\ CleaningInv /\ QuietInv

LEMMA IInvInit == Init => IInv
  BY TypeInit, ProgressInit, CheckedInit, UndisturbedInit, CleaningInit, QuietInit DEF IInv

LEMMA IInvStep == IInv /\ [Next]_vars => IInv'
  <1> SUFFICES ASSUME IInv, [Next]_vars PROVE IInv'
    OBVIOUS
  <1>1. TypeInv /\ ProgressInv /\ CheckedInv /\ UndisturbedInv /\ CleaningInv /\ QuietInv
    BY DEF IInv
  <1>2. Moves /\ TypeInv'
    BY <1>1, AllMoves
  <1>3. ProgressInv' /\ UndisturbedInv'
    BY <1>1, <1>2, ProgressStep, UndisturbedStep
  <1>4. CheckedInv' /\ CleaningInv' /\ QuietInv'
    BY <1>1, <1>2, <1>3, CheckedStep, CleaningStep, QuietStep
  <1> QED
    BY <1>2, <1>3, <1>4 DEF IInv

LEMMA IInvAlways == Spec => []IInv
  BY IInvInit, IInvStep, PTL DEF Spec

\* Whatever publishers, other processes, failing calls and a power loss do: a publisher that
\* reports success, and saw nobody act after its last look at the path, has both public names on
\* its own two files with the bytes it sealed, at the public path, and no private name left.
THEOREM SuccessIsExact == Spec => []PublishedIsExact
  <1>1. IInv => PublishedIsExact
    BY ExactFacts DEF IInv
  <1> QED
    BY <1>1, IInvAlways, PTL

\* A success in a directory that nobody else touched survives a power loss at any later moment.
THEOREM SuccessIsDurable == Spec => []PublishedIsDurable
  <1>1. IInv => PublishedIsDurable
    BY DurableFacts DEF IInv
  <1> QED
    BY <1>1, IInvAlways, PTL

\* A failure leaves no sealed private file, at whatever call it failed, but one whose own cleanup
\* met an error; one unlink that raises never leaves the other file of the pair.
THEOREM FailureIsClean == Spec => []FailureLeavesNoTemporary
  <1>1. IInv => FailureLeavesNoTemporary
    BY TemporaryFacts DEF IInv
  <1> QED
    BY <1>1, IInvAlways, PTL

\* Of any number of publishers that compete for a directory, when no call fails and nobody else
\* acts, exactly one succeeds.
THEOREM OneWinner == Spec => []ExactlyOneWinner
  <1>1. IInv => ExactlyOneWinner
    BY WinnerFacts DEF IInv
  <1> QED
    BY <1>1, IInvAlways, PTL

\* No publisher overwrites or removes a public name, in any success, failure or cleanup, whatever
\* calls fail and whatever other processes do in between.
THEOREM NeverClobbers == Spec => NoClobber
  <1> DEFINE Kept == \/ rival' # rival
                     \/ \E p \in Publishers : state[p] # "stopped" /\ state'[p] = "stopped"
                     \/ \A a \in Artifacts : final[a] # None => final'[a] = final[a]
  <1>1. TypeInv /\ Moves => [Kept]_vars
    <2> SUFFICES ASSUME TypeInv, Moves PROVE Kept \/ UNCHANGED vars
      OBVIOUS
    <2>1. ASSUME NEW p \in Publishers, Elsewhere(p) PROVE Kept
      BY <2>1 DEF Elsewhere
    <2>2. CASE Acts
      BY <2>2 DEF Acts, TypeInv
    <2>3. CASE PowerFails
      BY <2>3 DEF PowerFails
    <2> QED
      BY <2>1, <2>2, <2>3 DEF Moves
  <1>2. IInv /\ [Next]_vars => [Kept]_vars
    BY <1>1, AllMoves DEF IInv
  <1> QED
    BY <1>2, IInvAlways, PTL DEF Spec, NoClobber

\* The safety part of KeepsPromise: every step of every publisher, of the others and of a power
\* loss is a step of NoClobberPair or changes nothing that it speaks of.
THEOREM StepsKeepThePromise == Spec => Promise!Init /\ [][Promise!Next]_(Promise!vars)
  <1>1. IInv /\ [Next]_vars => [Promise!Next]_(Promise!vars)
    <2> SUFFICES ASSUME IInv, [Next]_vars PROVE [Promise!Next]_(Promise!vars)
      OBVIOUS
    <2>1. TypeInv /\ UndisturbedInv
      BY DEF IInv
    <2> QED
      BY <2>1, AllMoves, PromiseStep
  <1> QED
    BY <1>1, IInvAlways, PromiseInit, PTL DEF Spec

-----------------------------------------------------------------------------
(* What follows from the promise                                           *)

LEMMA HolderStep ==
  Promise!TypeOK /\ Promise!HolderInv /\ [Promise!Next]_(Promise!vars)
      => (Promise!TypeOK)' /\ (Promise!HolderInv)'
  <1> SUFFICES ASSUME Promise!TypeOK, Promise!HolderInv, [Promise!Next]_(Promise!vars)
               PROVE  (Promise!TypeOK)' /\ (Promise!HolderInv)'
    OBVIOUS
  <1> USE NamesAssumption DEF Promise!TypeOK, Promise!HolderInv, Promise!Artifacts
  <1>1. ASSUME NEW p \in Publishers, Promise!TakeJson(p)
        PROVE  (Promise!TypeOK)' /\ (Promise!HolderInv)'
    BY <1>1 DEF Promise!TakeJson
  <1>2. ASSUME NEW p \in Publishers, Promise!TakeMarkdown(p)
        PROVE  (Promise!TypeOK)' /\ (Promise!HolderInv)'
    BY <1>2 DEF Promise!TakeMarkdown
  <1>3. ASSUME NEW p \in Publishers, Promise!Publish(p)
        PROVE  (Promise!TypeOK)' /\ (Promise!HolderInv)'
    BY <1>3 DEF Promise!Publish
  <1>4. ASSUME NEW p \in Publishers, Promise!Fail(p)
        PROVE  (Promise!TypeOK)' /\ (Promise!HolderInv)'
    BY <1>4 DEF Promise!Fail
  <1>5. CASE Promise!Disturb
    BY <1>5 DEF Promise!Disturb
  <1>6. CASE UNCHANGED Promise!vars
    BY <1>6 DEF Promise!vars
  <1> QED
    BY <1>1, <1>2, <1>3, <1>4, <1>5, <1>6 DEF Promise!Next, Promise!Decide

\* As long as nobody else acts, both public names have one holder or the second is still free, and
\* only the holder of both reports success: two publishers of one directory never both succeed.
THEOREM NamesHeldTogether == Spec => [](Promise!HolderInv /\ Promise!AtMostOne)
  <1>1. Promise!Init => Promise!TypeOK /\ Promise!HolderInv
    BY DEF Promise!Init, Promise!TypeOK, Promise!HolderInv, Promise!Artifacts
  <1>2. Promise!HolderInv => Promise!AtMostOne
    BY DEF Promise!HolderInv, Promise!AtMostOne
  <1> QED
    BY <1>1, <1>2, HolderStep, StepsKeepThePromise, PTL

-----------------------------------------------------------------------------
(***************************************************************************)
(* The directory published into, for any number of invocations and of acts *)
(* of other processes, and whatever names are drawn: the run directory an  *)
(* invocation publishes into is one it made itself, and no other has it.   *)
(***************************************************************************)

USE InvocationsAssumption, DirectoryBoundsAssumption, RunNamesAssumption, EntriesAssumption

-----------------------------------------------------------------------------
(* Types, and the control of an invocation.                                *)

Made == 0 .. fresh - 1
Points == {"stat", "mkdir", "observe", "open", "empty", "verify"} \cup Ends

\* Only what was made is an entry, is held or is on record; a directory not yet made has no entry.
DirectoryTyped ==
    /\ given \subseteq Explicit
    /\ fresh \in 1 .. MaxDirs + 1
    /\ tree \in [Dirs \X Names -> Made \cup {OtherKind, Absent}]
    /\ maker \in [Dirs -> Invocations \cup {Somebody}]
    /\ stage \in [Invocations -> Points]
    /\ at \in [Invocations -> Made]
    /\ target \in [Invocations -> Names]
    /\ creating \in [Invocations -> BOOLEAN]
    /\ seen \in [Invocations -> Made \cup {OtherKind, Absent}]
    /\ tries \in [Invocations -> Nat]
    /\ raced \in [Invocations -> BOOLEAN]

\* What is admitted at each control point: a run name is never looked up before it is made, and only
\* what was given with --output is checked for being empty and for its path.
Admission(p) ==
    /\ stage[p] = "stat" => ~IsRun(p)
    /\ stage[p] \in {"empty", "verify"} => target[p] = "out"
    /\ p \notin given => target[p] # "out"
    /\ stage[p] = "bound" /\ p \notin given => IsRun(p)

\* From its creation on, the directory of an undisturbed run is the one its invocation made: by name
\* while nobody has looked, by identity once it was observed, by descriptor once it is open.
Ownership(p) ==
    IsRun(p) /\ ~raced[p] =>
        /\ stage[p] = "observe" => Entry(p) \in Made /\ maker[Entry(p)] = p
        /\ stage[p] = "open" => seen[p] \in Made /\ maker[seen[p]] = p
        /\ stage[p] = "bound" => maker[at[p]] = p

DirectoryInv ==
    /\ DirectoryTyped
    /\ \A p \in Invocations : Admission(p) /\ Ownership(p)

LEMMA MadeAreDirs ==
  ASSUME DirectoryTyped
  PROVE  Made \subseteq Dirs /\ fresh \in Nat /\ fresh \notin Made /\ Absent \notin Made /\ OtherKind \notin Made
  BY DEF DirectoryTyped, Made, Dirs

LEMMA DirectoryInitially == DirectoryInit => DirectoryInv
  <1> SUFFICES ASSUME DirectoryInit PROVE DirectoryInv
    OBVIOUS
  <1>1. PICK out \in {1, OtherKind, Absent} :
          /\ tree = [e \in Dirs \X Names |-> IF e = <<Home, "out">> THEN out ELSE Absent]
          /\ fresh = IF out = 1 THEN 2 ELSE 1
    BY DEF DirectoryInit
  <1>2. DirectoryTyped
    <2>1. fresh \in 1 .. MaxDirs + 1 /\ Home \in Made /\ (out = 1 => 1 \in Made)
      BY <1>1 DEF Made, Home
    <2>2. tree \in [Dirs \X Names -> Made \cup {OtherKind, Absent}]
      BY <1>1, <2>1
    <2>3. /\ given \subseteq Explicit /\ maker \in [Dirs -> Invocations \cup {Somebody}]
          /\ stage \in [Invocations -> Points] /\ creating \in [Invocations -> BOOLEAN]
          /\ tries \in [Invocations -> Nat] /\ raced \in [Invocations -> BOOLEAN]
      BY DEF DirectoryInit, Points
    <2>4. at \in [Invocations -> Made] /\ seen \in [Invocations -> Made \cup {OtherKind, Absent}]
      BY <2>1 DEF DirectoryInit
    <2>5. target \in [Invocations -> Names]
      BY DEF DirectoryInit, Names, Ancestors
    <2> QED
      BY <2>1, <2>2, <2>3, <2>4, <2>5 DEF DirectoryTyped
  <1> QED
    BY <1>2 DEF DirectoryInit, DirectoryInv, Admission, Ownership, IsRun, Ancestors

-----------------------------------------------------------------------------
(* Steps                                                                   *)

\* A step of p that makes no directory and keeps the others as they are.
LEMMA OwnStep ==
  ASSUME DirectoryInv, NEW p \in Invocations, UNCHANGED <<given, disk, raced>>,
         DirectoryTyped', Admission(p)', Ownership(p)',
         \A q \in Invocations : q # p =>
             /\ stage'[q] = stage[q] /\ at'[q] = at[q] /\ target'[q] = target[q] /\ seen'[q] = seen[q]
  PROVE  DirectoryInv'
  <1> SUFFICES ASSUME NEW q \in Invocations, q # p PROVE Admission(q)' /\ Ownership(q)'
    BY DEF DirectoryInv
  <1>1. Admission(q) /\ Ownership(q)
    BY DEF DirectoryInv
  <1>2. /\ stage'[q] = stage[q] /\ at'[q] = at[q] /\ target'[q] = target[q] /\ seen'[q] = seen[q]
        /\ given' = given /\ tree' = tree /\ fresh' = fresh /\ maker' = maker /\ raced' = raced
    BY DEF disk
  <1> QED
    BY <1>1, <1>2 DEF Admission, Ownership, IsRun, Entry, Made

\* A refusal claims nothing.
LEMMA RefuseStep ==
  ASSUME DirectoryInv, NEW p \in Invocations, Refuse(p), UNCHANGED <<given, disk, raced>>
  PROVE  DirectoryInv'
  <1>1. DirectoryTyped /\ Admission(p)
    BY DEF DirectoryInv
  <1>2. DirectoryTyped' /\ stage'[p] = "refused"
    BY <1>1 DEF Refuse, Goto, DirectoryTyped, Points, Ends, Made, disk
  <1>3. Admission(p)' /\ Ownership(p)'
    BY <1>1, <1>2 DEF Admission, Ownership, Refuse, IsRun
  <1>4. \A q \in Invocations : q # p =>
             /\ stage'[q] = stage[q] /\ at'[q] = at[q] /\ target'[q] = target[q] /\ seen'[q] = seen[q]
    BY <1>1 DEF Refuse, Goto, DirectoryTyped
  <1> QED
    BY <1>2, <1>3, <1>4, OwnStep

LEMMA StatStep ==
  ASSUME DirectoryInv, NEW p \in Invocations, Stat(p), UNCHANGED given
  PROVE  DirectoryInv'
  <1>1. DirectoryTyped /\ Admission(p) /\ stage[p] = "stat" /\ ~IsRun(p) /\ UNCHANGED <<given, disk, raced>>
    BY DEF DirectoryInv, Stat, Admission
  <1>2. CASE Refuse(p)
    BY <1>1, <1>2, RefuseStep
  <1>3. CASE ~Refuse(p)
    <2>1. \/ Goto(p, "mkdir") /\ UNCHANGED <<at, target, creating, seen, tries>>
          \/ /\ Goto(p, "open") /\ seen' = [seen EXCEPT ![p] = Entry(p)]
             /\ UNCHANGED <<at, target, creating, tries>>
      BY <1>3 DEF Stat
    <2>2. Entry(p) \in Made \cup {OtherKind, Absent}
      BY <1>1, MadeAreDirs DEF DirectoryTyped, Entry
    <2>3. DirectoryTyped' /\ stage'[p] \in {"mkdir", "open"} /\ UNCHANGED target
      BY <1>1, <2>1, <2>2 DEF Goto, DirectoryTyped, Points, Ends, Made, disk
    <2>4. Admission(p)' /\ Ownership(p)'
      BY <1>1, <2>3 DEF Admission, Ownership, IsRun
    <2>5. \A q \in Invocations : q # p =>
             /\ stage'[q] = stage[q] /\ at'[q] = at[q] /\ target'[q] = target[q] /\ seen'[q] = seen[q]
      BY <1>1, <2>1 DEF Goto, DirectoryTyped
    <2> QED
      BY <1>1, <2>3, <2>4, <2>5, OwnStep
  <1> QED
    BY <1>2, <1>3

LEMMA TakenStep ==
  ASSUME DirectoryInv, NEW p \in Invocations, Taken(p), UNCHANGED given
  PROVE  DirectoryInv'
  <1>1. DirectoryTyped /\ Admission(p) /\ stage[p] = "mkdir" /\ UNCHANGED <<given, disk, raced, at, seen>>
    BY DEF DirectoryInv, Taken
  <1>2. \/ /\ target[p] \in Ancestors /\ Goto(p, "stat") /\ creating' = [creating EXCEPT ![p] = FALSE]
           /\ UNCHANGED <<target, tries>>
        \/ /\ IsRun(p) /\ tries' = [tries EXCEPT ![p] = @ + 1] /\ UNCHANGED <<stage, creating>>
           /\ \E n \in RunNames : target' = [target EXCEPT ![p] = n]
        \/ /\ Goto(p, "refused") /\ tries' = [tries EXCEPT ![p] = IF IsRun(p) THEN @ + 1 ELSE @]
           /\ UNCHANGED <<target, creating>>
    BY DEF Taken
  <1>3. \A q \in Invocations : q # p =>
             /\ stage'[q] = stage[q] /\ at'[q] = at[q] /\ target'[q] = target[q] /\ seen'[q] = seen[q]
    BY <1>1, <1>2 DEF Goto, DirectoryTyped
  <1>4. DirectoryTyped'
    <2>1. target' \in [Invocations -> Names]
      BY <1>1, <1>2 DEF DirectoryTyped, Names
    <2>2. tries' \in [Invocations -> Nat]
      BY <1>1, <1>2 DEF DirectoryTyped
    <2>3. stage' \in [Invocations -> Points] /\ creating' \in [Invocations -> BOOLEAN]
      BY <1>1, <1>2 DEF Goto, DirectoryTyped, Points, Ends
    <2> QED
      BY <1>1, <2>1, <2>2, <2>3 DEF DirectoryTyped, Made, disk
  <1>5. \/ stage'[p] = "stat" /\ target'[p] = target[p] /\ target[p] \in Ancestors
        \/ stage'[p] = "mkdir" /\ target'[p] \in RunNames
        \/ stage'[p] = "refused" /\ target'[p] = target[p]
    BY <1>1, <1>2 DEF Goto, DirectoryTyped
  <1>6. Admission(p)' /\ Ownership(p)'
    BY <1>1, <1>5 DEF Admission, Ownership, IsRun
  <1> QED
    BY <1>1, <1>3, <1>4, <1>6, OwnStep

LEMMA MkdirStep ==
  ASSUME DirectoryInv, NEW p \in Invocations, Mkdir(p), UNCHANGED given
  PROVE  DirectoryInv'
  <1>1. DirectoryTyped /\ Admission(p) /\ Made \subseteq Dirs /\ fresh \in Dirs /\ fresh \notin Made
    BY MadeAreDirs DEF DirectoryInv, Mkdir, DirectoryTyped, Dirs
  <1>2. /\ stage[p] = "mkdir" /\ Entry(p) = Absent
        /\ tree' = [tree EXCEPT ![<<at[p], target[p]>>] = fresh]
        /\ maker' = [maker EXCEPT ![fresh] = p] /\ fresh' = fresh + 1
        /\ stage' = [stage EXCEPT ![p] = "observe"]
        /\ UNCHANGED <<given, at, target, creating, seen, tries, raced>>
    BY DEF Mkdir, Goto
  <1>3. Made' = Made \cup {fresh} /\ fresh' \in 1 .. MaxDirs + 1
    BY <1>1, <1>2 DEF Made, DirectoryTyped, Dirs
  <1>4. DirectoryTyped'
    <2>1. tree' \in [Dirs \X Names -> Made' \cup {OtherKind, Absent}]
      BY <1>1, <1>2, <1>3 DEF DirectoryTyped
    <2>2. maker' \in [Dirs -> Invocations \cup {Somebody}] /\ stage' \in [Invocations -> Points]
      BY <1>1, <1>2 DEF DirectoryTyped, Points
    <2>3. at' \in [Invocations -> Made'] /\ seen' \in [Invocations -> Made' \cup {OtherKind, Absent}]
      BY <1>1, <1>2, <1>3 DEF DirectoryTyped
    <2> QED
      BY <1>1, <1>2, <1>3, <2>1, <2>2, <2>3 DEF DirectoryTyped
  <1>5. <<at[p], target[p]>> \in Dirs \X Names
    BY <1>1 DEF DirectoryTyped
  <1>6. Admission(p)' /\ Ownership(p)'
    <2>1. Entry(p)' = fresh /\ maker'[fresh] = p /\ stage'[p] = "observe"
      BY <1>1, <1>2, <1>5 DEF Entry, DirectoryTyped
    <2> QED
      BY <1>1, <1>2, <1>3, <2>1 DEF Admission, Ownership
  <1>7. ASSUME NEW q \in Invocations, q # p PROVE Admission(q)' /\ Ownership(q)'
    <2>1. stage'[q] = stage[q] /\ Admission(q) /\ Ownership(q) /\ IsRun(q)' = IsRun(q)
      BY <1>1, <1>2, <1>7 DEF DirectoryInv, DirectoryTyped, IsRun
    <2>2. Entry(q) \in Made => Entry(q)' = Entry(q)
      <3>1. Entry(q) \in Made => <<at[q], target[q]>> # <<at[p], target[p]>>
        BY <1>1, <1>2, MadeAreDirs DEF Entry
      <3>2. <<at[q], target[q]>> \in Dirs \X Names
        BY <1>1 DEF DirectoryTyped
      <3> QED
        BY <1>1, <1>2, <3>1, <3>2 DEF Entry, DirectoryTyped
    <2>3. \A d \in Made : maker'[d] = maker[d]
      BY <1>1, <1>2 DEF DirectoryTyped
    <2>4. at[q] \in Made
      BY <1>1 DEF DirectoryTyped
    <2> QED
      BY <1>2, <1>3, <2>1, <2>2, <2>3, <2>4 DEF Admission, Ownership, IsRun
  <1> QED
    BY <1>4, <1>6, <1>7 DEF DirectoryInv

LEMMA ObserveStep ==
  ASSUME DirectoryInv, NEW p \in Invocations, ObserveChild(p), UNCHANGED given
  PROVE  DirectoryInv'
  <1>1. /\ DirectoryTyped /\ Admission(p) /\ Ownership(p) /\ stage[p] = "observe"
        /\ UNCHANGED <<given, disk, raced>>
    BY DEF DirectoryInv, ObserveChild
  <1>2. CASE Entry(p) = Absent
    BY <1>1, <1>2, RefuseStep DEF ObserveChild
  <1>3. CASE Entry(p) # Absent
    <2>1. /\ Goto(p, "open") /\ seen' = [seen EXCEPT ![p] = Entry(p)]
          /\ UNCHANGED <<at, target, creating, tries>>
      BY <1>3 DEF ObserveChild
    <2>2. Entry(p) \in Made \cup {OtherKind, Absent}
      BY <1>1, MadeAreDirs DEF DirectoryTyped, Entry
    <2>3. DirectoryTyped' /\ stage'[p] = "open" /\ seen'[p] = Entry(p)
      BY <1>1, <2>1, <2>2 DEF Goto, DirectoryTyped, Points, Ends, Made, disk
    <2>4. Admission(p)' /\ Ownership(p)'
      BY <1>1, <2>1, <2>3 DEF Admission, Ownership, IsRun, Made, disk
    <2>5. \A q \in Invocations : q # p =>
             /\ stage'[q] = stage[q] /\ at'[q] = at[q] /\ target'[q] = target[q] /\ seen'[q] = seen[q]
      BY <1>1, <2>1 DEF Goto, DirectoryTyped
    <2> QED
      BY <1>1, <2>3, <2>4, <2>5, OwnStep
  <1> QED
    BY <1>2, <1>3

LEMMA OpenStep ==
  ASSUME DirectoryInv, NEW p \in Invocations, Open(p), UNCHANGED given
  PROVE  DirectoryInv'
  <1>1. /\ DirectoryTyped /\ Admission(p) /\ Ownership(p) /\ stage[p] = "open"
        /\ UNCHANGED <<given, disk, raced>>
    BY DEF DirectoryInv, Open
  <1>2. CASE ~SameObject(p)
    BY <1>1, <1>2, RefuseStep DEF Open
  <1>3. CASE SameObject(p)
    <2>1. /\ at' = [at EXCEPT ![p] = Entry(p)] /\ creating' = [creating EXCEPT ![p] = TRUE]
          /\ UNCHANGED <<seen, tries>>
          /\ CASE target[p] = "tool" ->
                      Goto(p, "stat") /\ target' = [target EXCEPT ![p] = "runs"]
               [] target[p] = "runs" ->
                      /\ Goto(p, "mkdir")
                      /\ \E n \in RunNames : target' = [target EXCEPT ![p] = n]
               [] target[p] = "out" -> Goto(p, "empty") /\ UNCHANGED target
               [] IsRun(p) -> Goto(p, "bound") /\ UNCHANGED target
      BY <1>3 DEF Open
    <2>2. Entry(p) = seen[p] /\ Entry(p) \in Made
      BY <1>1, <1>3, MadeAreDirs DEF SameObject, IsDir, DirectoryTyped, Entry
    <2>3. target[p] \in {"tool", "runs", "out"} \/ IsRun(p)
      BY <1>1 DEF DirectoryTyped, Names, Ancestors, IsRun
    <2>4. \/ target[p] = "tool" /\ Goto(p, "stat") /\ target' = [target EXCEPT ![p] = "runs"]
          \/ /\ target[p] = "runs" /\ Goto(p, "mkdir")
             /\ \E n \in RunNames : target' = [target EXCEPT ![p] = n]
          \/ target[p] = "out" /\ Goto(p, "empty") /\ UNCHANGED target
          \/ IsRun(p) /\ Goto(p, "bound") /\ UNCHANGED target
      BY <2>1, <2>3 DEF IsRun, Ancestors
    <2>5. DirectoryTyped'
      <3>1. target' \in [Invocations -> Names] /\ stage' \in [Invocations -> Points]
        BY <1>1, <2>4 DEF Goto, DirectoryTyped, Points, Ends, Names, Ancestors
      <3>2. Made' = Made /\ at' \in [Invocations -> Made]
        BY <1>1, <2>1, <2>2 DEF DirectoryTyped, Made, disk
      <3> QED
        BY <1>1, <2>1, <3>1, <3>2 DEF DirectoryTyped, disk
    <2>6. at'[p] = seen[p]
      BY <1>1, <2>1, <2>2 DEF DirectoryTyped
    <2>7. \/ stage'[p] = "stat" /\ target'[p] = "runs"
          \/ stage'[p] = "mkdir" /\ target'[p] \in RunNames
          \/ stage'[p] = "empty" /\ target[p] = "out" /\ target'[p] = target[p]
          \/ stage'[p] = "bound" /\ IsRun(p) /\ target'[p] = target[p]
      BY <1>1, <2>4 DEF Goto, DirectoryTyped
    <2>8. Admission(p)'
      BY <1>1, <2>7 DEF Admission, IsRun, Ancestors
    <2>9. Ownership(p)'
      BY <1>1, <2>6, <2>7 DEF Ownership, IsRun, disk
    <2>10. \A q \in Invocations : q # p =>
             /\ stage'[q] = stage[q] /\ at'[q] = at[q] /\ target'[q] = target[q] /\ seen'[q] = seen[q]
      BY <1>1, <2>1, <2>4 DEF Goto, DirectoryTyped
    <2> QED
      BY <1>1, <2>5, <2>8, <2>9, <2>10, OwnStep
  <1> QED
    BY <1>2, <1>3

LEMMA GivenStep ==
  ASSUME DirectoryInv, NEW p \in Invocations, RequireEmpty(p) \/ VerifyPath(p), UNCHANGED given
  PROVE  DirectoryInv'
  <1>1. /\ DirectoryTyped /\ Admission(p) /\ Ownership(p) /\ stage[p] \in {"empty", "verify"} /\ p \in given /\ ~IsRun(p)
        /\ UNCHANGED <<given, disk, raced>>
    BY DEF DirectoryInv, RequireEmpty, VerifyPath, Admission, IsRun
  <1>2. CASE Refuse(p)
    BY <1>1, <1>2, RefuseStep
  <1>3. CASE ~Refuse(p)
    <2>1. /\ \/ stage[p] = "empty" /\ Goto(p, "verify")
             \/ stage[p] = "verify" /\ Goto(p, "bound") /\ tree[<<Home, "out">>] = at[p]
          /\ UNCHANGED <<at, target, creating, seen, tries>>
      BY <1>3 DEF RequireEmpty, VerifyPath
    <2>2. DirectoryTyped'
      BY <1>1, <2>1 DEF Goto, DirectoryTyped, Points, Ends, Made, disk
    <2>3. stage'[p] \in {"verify", "bound"}
      BY <1>1, <2>1 DEF Goto, DirectoryTyped
    <2>4. Admission(p)' /\ Ownership(p)'
      BY <1>1, <2>1, <2>3 DEF Admission, Ownership, IsRun
    <2>5. \A q \in Invocations : q # p =>
             /\ stage'[q] = stage[q] /\ at'[q] = at[q] /\ target'[q] = target[q] /\ seen'[q] = seen[q]
      BY <1>1, <2>1 DEF Goto, DirectoryTyped
    <2> QED
      BY <1>1, <2>2, <2>4, <2>5, OwnStep
  <1> QED
    BY <1>2, <1>3

\* Another process may take any entry away, but it cannot change what was observed or opened; between
\* a creation and its observation it is a disturbance.
LEMMA RivalStep ==
  ASSUME DirectoryInv, Rival
  PROVE  DirectoryInv'
  <1>1. DirectoryTyped /\ UNCHANGED <<given, stage, at, target, creating, seen, tries, maker>>
        /\ raced' = [p \in Invocations |-> raced[p] \/ (stage[p] = "observe" /\ IsRun(p))]
    BY DEF DirectoryInv, Rival, own
  <1>2. PICK d \in 0 .. fresh - 1, n \in Names :
          \/ /\ \E entry \in {OtherKind, Absent} : tree' = [tree EXCEPT ![<<d, n>>] = entry]
             /\ UNCHANGED fresh
          \/ /\ fresh <= MaxDirs
             /\ tree' = [tree EXCEPT ![<<d, n>>] = fresh]
             /\ fresh' = fresh + 1
    BY DEF Rival
  <1>3. Made \subseteq Made' /\ fresh' \in 1 .. MaxDirs + 1 /\ tree' \in [Dirs \X Names -> Made' \cup {OtherKind, Absent}]
    <2>1. CASE UNCHANGED fresh
      BY <1>1, <1>2, <2>1 DEF DirectoryTyped, Made
    <2>2. CASE fresh' = fresh + 1 /\ fresh <= MaxDirs /\ tree' = [tree EXCEPT ![<<d, n>>] = fresh]
      <3>1. Made' = Made \cup {fresh} /\ fresh' \in 1 .. MaxDirs + 1
        BY <1>1, <2>2 DEF DirectoryTyped, Made
      <3> QED
        BY <1>1, <2>2, <3>1 DEF DirectoryTyped
    <2> QED
      BY <1>2, <2>1, <2>2
  <1>4. DirectoryTyped'
    <2>1. at' \in [Invocations -> Made'] /\ seen' \in [Invocations -> Made' \cup {OtherKind, Absent}]
      BY <1>1, <1>3 DEF DirectoryTyped
    <2>2. raced' \in [Invocations -> BOOLEAN]
      BY <1>1 DEF DirectoryTyped
    <2> QED
      BY <1>1, <1>3, <2>1, <2>2 DEF DirectoryTyped
  <1>5. ASSUME NEW p \in Invocations PROVE Admission(p)' /\ Ownership(p)'
    <2>1. Admission(p) /\ Ownership(p) /\ IsRun(p)' = IsRun(p)
      BY <1>1 DEF DirectoryInv, IsRun
    <2>2. raced'[p] = (raced[p] \/ (stage[p] = "observe" /\ IsRun(p)))
      BY <1>1
    <2> QED
      BY <1>1, <1>3, <2>1, <2>2 DEF Admission, Ownership, IsRun
  <1> QED
    BY <1>4, <1>5 DEF DirectoryInv

LEMMA DirectoryInductive == DirectoryInv /\ [DirectoryNext]_directoryVars => DirectoryInv'
  <1> SUFFICES ASSUME DirectoryInv, [DirectoryNext]_directoryVars PROVE DirectoryInv'
    OBVIOUS
  <1>1. CASE \E p \in Invocations : Invocation(p)
    BY <1>1, StatStep, TakenStep, MkdirStep, ObserveStep, OpenStep, GivenStep DEF Invocation
  <1>2. CASE Rival
    BY <1>2, RivalStep
  <1>3. CASE UNCHANGED directoryVars
    <2>1. UNCHANGED <<given, tree, fresh, maker, stage, at, target, creating, seen, tries, raced>>
      BY <1>3 DEF directoryVars, disk, own
    <2> QED
      BY <2>1 DEF DirectoryInv, DirectoryTyped, Admission, Ownership, IsRun, Entry, Made
  <1> QED
    BY <1>1, <1>2, <1>3 DEF DirectoryNext, Settled

LEMMA DirectoryInvariant == DirectorySpec => []DirectoryInv
  BY DirectoryInitially, DirectoryInductive, PTL DEF DirectorySpec

-----------------------------------------------------------------------------
(* The theorems                                                            *)

\* The run directory an invocation is given is one it made itself, unless somebody got between its
\* creation and its first observation: no name that was drawn before and no replaced ancestor leads
\* it into a directory of another process.
THEOREM TheRunIsOwn == DirectorySpec => []RunIsOwn
  <1>1. DirectoryInv => RunIsOwn
    BY DEF DirectoryInv, Admission, Ownership, RunIsOwn
  <1> QED
    BY <1>1, DirectoryInvariant, PTL

\* Two undisturbed runs at once never publish into one directory, even if they draw the same names.
RunsAreApart ==
    \A p, q \in Invocations \ given :
        /\ stage[p] = "bound" /\ ~raced[p]
        /\ stage[q] = "bound" /\ ~raced[q]
        => p = q \/ at[p] # at[q]

THEOREM UndisturbedRunsAreApart == DirectorySpec => []RunsAreApart
  <1>1. RunIsOwn => RunsAreApart
    BY DEF RunIsOwn, RunsAreApart
  <1> QED
    BY <1>1, TheRunIsOwn, PTL
=============================================================================
