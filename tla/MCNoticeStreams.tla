--------------------------- MODULE MCNoticeStreams ---------------------------
EXTENDS NoticeStreams
=============================================================================
