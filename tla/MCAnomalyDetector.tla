--------------------------- MODULE MCAnomalyDetector ---------------------------
EXTENDS AnomalyDetectorProps

Swipe(b, g, s, d) == [badge |-> b, gate |-> g, status |-> s, direction |-> d]

Rejections == {Swipe("b1", "A/1", "REJECTED_APB", "IN")}

\* One badge rejected while another one enters, at the same gate.
RejectionsAndEntries ==
  {Swipe("b1", "A/1", "REJECTED_APB", "OUT"), Swipe("b2", "A/1", "SUCCESS", "IN")}
=============================================================================
