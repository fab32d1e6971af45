----------------------------- MODULE MC_DataBlob -----------------------------
(* Files for TLC, model values, and what they may use of one another.        *)
EXTENDS DataBlob
CONSTANTS file1, file2, single, script, qmldir, module

Uses == {<<file1, file2>>, <<file2, file1>>,
         <<file1, single>>, <<single, file1>>}
QmldirImports == {<<file1, qmldir>>, <<file2, module>>, <<qmldir, module>>, <<module, script>>}
=============================================================================
