------------------------------- MODULE MCFtp -------------------------------
(* A share with two levels and a directory that is closed, and what may go *)
(* wrong in a scan of it.                                                  *)
EXTENDS FtpClient
CONSTANTS a, b

MCNames == {a, b}
MCShare == {<<>>, <<a>>, <<a, a>>}
MCClosed == {<<b>>}
MCCases ==
  {"stat", "passive"} \X {{}, {"drop"}, {"late", "drop"}, {"refuse", "drop"}, {"nodata"}}
  \cup {<<"passive", {"abort", "late"}>>, <<"active", {}>>, <<"active", {"refuse"}>>, <<"active", {"nodata"}>>, <<"active", {"abort", "drop"}>>,
        <<"active", {"late"}>>, <<"active", {"late", "nodata"}>>}
  \cup {"Rp", "Ra"} \X {{}, {"drop"}, {"refuse", "drop"}, {"nodata"}, {"long"}, {"abort"}, {"late", "drop"}, {"names"}}
  \cup {<<"Rp", {"abort", "late"}>>, <<"Ra", {"abort", "late"}>>}
ActiveAlone == {<<"active", {}>>}
=============================================================================
