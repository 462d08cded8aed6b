--------------------------- MODULE MCDataLensBuild ---------------------------
EXTENDS DataLensBuild

Distinct == <<"sales", "stock">>
Same == <<"sales", "sales">>
=============================================================================
