SPECIFICATION Spec
CONSTANTS
  Member = {m1, m2}
  Conv = {c1}
  Star = Star
  Absent = Absent
  Nobody = Nobody
  Stranger = Stranger
  NoSnapshot = NoSnapshot
INVARIANTS TypeOK PageShowsWhatIsEnforced ReportComesBackTheSame EventsSeeTheFingerprint PrunedReportIsAReport
CHECK_DEADLOCK FALSE
